----------------------------- MODULE LritFile -----------------------------
(***************************************************************************)
(* An LRIT file while it is being put together: lrit.File and the          *)
(* operations OpenNew, Append, MissingRows, GetFillRow, Close and IsValid. *)
(*                                                                         *)
(* A file that was sent is described by Meta.  The data of a file being    *)
(* put together is a sequence of chunks, the contributions of single SDUs; *)
(* a chunk says which SDU of which file it came in.  RawData is the        *)
(* headers followed by these chunks; the headers come with the first SDU,  *)
(* so lengths here are those of RawData less AllHeaderLength.              *)
(*                                                                         *)
(* These are the operations on what RawData holds.  In memory RawData is a *)
(* slice of its first SDU's frame, and append writes in place what lies    *)
(* behind it there (file.go:21,112,122).  FrameMemory has those octets;    *)
(* in Assembler `spoilt' and `exposed' say which SDUs and files lose their *)
(* own, and no property that compares contents is claimed of those.        *)
(***************************************************************************)
EXTENDS Integers, Sequences, SequencesExt

CONSTANTS
    Meta,     \* what the headers of each sent file say, and its SDUs' lengths
    Cols,     \* octets in an image row (NumCols)
    Word,     \* unsigned arithmetic is modulo this (2^64 in the code)
    Nil       \* no file

Sent == DOMAIN Meta
Apids == {Meta[f].apid : f \in Sent}
Parts(f) == Len(Meta[f].lens)

(* lens[i] octets of data come with the i-th SDU; `flagged' is the packet's *)
(* SecondaryHeaderFlag; a packed image's rows are Rice compressed.          *)
MetaType ==
    [apid : Nat, image : BOOLEAN, packed : BOOLEAN, flagged : BOOLEAN,
     zip : {"none", "sound", "broken"}, lens : Seq(Nat) \ {<< >>}]

Chunk == [file : Sent, part : Nat, kind : {"plain", "packed", "fill"}, len : Nat]
FileType == [file : Sent, ready : BOOLEAN, data : Seq(Chunk)]

Octets(chunks) == FoldLeft(LAMBDA n, c : n + c.len, 0, chunks)

(* The i-th chunk of file f as it is sent. *)
SentChunk(f, i) ==
    [file |-> f, part |-> i, kind |-> IF Meta[f].packed THEN "packed" ELSE "plain",
     len |-> Meta[f].lens[i]]

(***************************************************************************)
(* RiceDecompressIfNeededAndAppendBuffer and what its callers make of an   *)
(* error: the row of a packed image is unpacked; if that fails, or is not  *)
(* called for, the callers append the octets as they came.                 *)
(***************************************************************************)
Row(c) == [c EXCEPT !.kind = "plain", !.len = Cols]
Unpacked(chunk, decodes) ==
    IF chunk.kind = "packed" /\ chunk.len > 0 /\ decodes THEN Row(chunk) ELSE chunk

NonEmpty(chunk) == IF chunk.len > 0 THEN <<chunk>> ELSE << >>

(* The content of a file, as it should end up; only the first SDU may have *)
(* headers and no data.                                                    *)
Original == [f \in Sent |->
    NonEmpty(Unpacked(SentChunk(f, 1), TRUE))
    \o [i \in 1..Parts(f) - 1 |-> Unpacked(SentChunk(f, i + 1), TRUE)]]

DataLength == [f \in Sent |-> Octets(Original[f])]     \* as the primary header says
NumRows(f) == DataLength[f] \div Cols

ASSUME LritFileAssumption ==
    /\ Cols \in Nat \ {0}
    /\ Sent \subseteq Nat /\ Nil \notin Nat /\ Nil \notin FileType
    /\ \A f \in Sent :
          /\ Meta[f] \in MetaType
          /\ Meta[f].packed => Meta[f].image
          /\ \A i \in 2..Len(Meta[f].lens) : Meta[f].lens[i] > 0
    /\ Word \in Nat /\ \A f \in Sent : DataLength[f] < Word

(* MakeSecondaryHeaders refuses RawData that ends where the headers end. *)
MakeSecondaryHeaders(data) == Octets(data) > 0

(***************************************************************************)
(* A file opened on its first SDU, which has a good CRC.  The secondary    *)
(* headers are parsed only if the packet's SecondaryHeaderFlag is set, and *)
(* octets behind the headers are kept as they came.                        *)
(***************************************************************************)
OpenNew(f) ==
    LET data == NonEmpty(SentChunk(f, 1)) IN
    [file |-> f, ready |-> Meta[f].flagged /\ MakeSecondaryHeaders(data), data |-> data]

(***************************************************************************)
(* An SDU with a good CRC joins f.  Unless they are there already, the     *)
(* secondary headers are parsed first, from what f held before; the octets *)
(* behind them are unpacked then.                                          *)
(***************************************************************************)
AppendSDU(f, chunk, decodes) ==
    LET ready == f.ready \/ MakeSecondaryHeaders(f.data)
        Joined(c) == IF ready /\ Meta[f.file].packed THEN Unpacked(c, decodes) ELSE c
        old == IF f.ready THEN f.data ELSE [i \in DOMAIN f.data |-> Joined(f.data[i])]
    IN [f EXCEPT !.ready = ready, !.data = old \o NonEmpty(Joined(chunk))]

IsImageFile(f) == f.ready /\ Meta[f.file].image

(* Unsigned: more octets than declared look like a huge number of rows. *)
MissingRows(f) == ((DataLength[f.file] - Octets(f.data)) % Word) \div Cols

(* n more rows, each a copy of the last one or black. *)
FillRow(f) == [file |-> f.file, part |-> 0, kind |-> "fill", len |-> Cols]
Fill(f, n) == [f EXCEPT !.data = @ \o [i \in 1..n |-> FillRow(f)]]

HeadersPopulated(f) == f.ready

(* Rows missing from an image are filled in at its end. *)
Close(f) ==
    IF IsImageFile(f) /\ MissingRows(f) < NumRows(f.file)
    THEN Fill(f, MissingRows(f)) ELSE f

(* CRCGood is set by OpenNew and never reset, so the length decides. *)
IsValid(f) == Octets(f.data) = DataLength[f.file]
-----------------------------------------------------------------------------
(***************************************************************************)
(* An APID's files are sent one after the other, in ascending order, each  *)
(* one whole: an SDU is the next part of the file of the SDU before it, or *)
(* the first part of a new file behind a complete one.                     *)
(***************************************************************************)
Earlier(S, k) == {j \in 1..k-1 : Meta[S[j][1]].apid = Meta[S[k][1]].apid}
Latest(S, k, j) == j \in Earlier(S, k) /\ \A i \in Earlier(S, k) : i <= j

IsStream(S) ==
    \A k \in DOMAIN S :
        /\ S[k][1] \in Sent /\ S[k][2] \in 1..Parts(S[k][1])
        /\ \/ \E j \in Earlier(S, k) : Latest(S, k, j) /\ S[k] = <<S[j][1], S[j][2] + 1>>
           \/ /\ S[k][2] = 1
              /\ \A j \in Earlier(S, k) :
                    /\ S[j][1] < S[k][1]
                    /\ Latest(S, k, j) => S[j][2] = Parts(S[j][1])
=============================================================================
