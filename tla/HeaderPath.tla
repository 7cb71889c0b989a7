----------------------------- MODULE HeaderPath -----------------------------
(***************************************************************************)
(* The headers of one LRIT file, from the SDU they come in to the file on  *)
(* disk: the CRC of the first SDU, OpenNew, Append and Close as far as     *)
(* they make headers, what the session layer and WriteFile look up in      *)
(* them, and NewExistingFile, which reads the file again.                  *)
(*                                                                         *)
(* The first SDU may be damaged on the way; everything that is sent is     *)
(* well formed.  Rows are not packed here, and no SDU is lost: that is     *)
(* Assembler's and LritFile's part.                                        *)
(***************************************************************************)
EXTENDS Headers, Crc

CONSTANTS
    Files,       \* the files that may be sent
    Bursts,      \* errors <<octet, pattern, shift>> that may hit a first SDU
    Fragile,     \* the files whose first SDU they may hit
    Word,        \* uint32 arithmetic is modulo this (2^32 in the code)
    StripLen,    \* of the transport header (10)
    Nil

ASSUME HeaderPathAssumption ==
    /\ Word \in Nat /\ StripLen \in Nat
    /\ Fragile \subseteq Files
    /\ \A f \in Files :
          /\ f.body < Word /\ f.flagged \in BOOLEAN /\ f.zip \in {"sound", "broken"}
          /\ f.cuts \in Seq(Nat \ {0}) /\ f.cuts # << >>

VARIABLES
    file,        \* the file that is sent; never changes
    damaged,     \* whether its first SDU was damaged
    part,        \* the SDUs that have arrived
    phase,       \* where the file is, or what became of it
    raw,         \* RawData
    ph,          \* PrimaryHeader
    made,        \* SecondaryHeaders
    ready,       \* SecondaryHeadersPopulated
    walk,        \* the walk over the header octets, or Nil
    disk         \* the octets in the file written, or Nil

vars == <<file, damaged, part, phase, raw, ph, made, ready, walk, disk>>
-----------------------------------------------------------------------------
(* What is sent. *)

Octets(n, width) == [i \in 1..width |-> IF width - i > 2 THEN 0 ELSE (n \div 256^(width - i)) % 256]

(* A header: type and length, the fields that are read, and anything.      *)
Encoded(h) ==
    <<h.Type>> \o Octets(h.Length, 2) \o h.fields \o [i \in 1..h.Length - 3 - Len(h.fields) |-> 1]
AllHeaders(f) == FlattenSeq([i \in DOMAIN f.headers |-> Encoded(f.headers[i])])
AllHeaderLength(f) == PrimaryLen + Len(AllHeaders(f))
Primary(f) ==
    [Type |-> 0, Length |-> PrimaryLen, FileType |-> f.fileType,
     AllHeaderLength |-> AllHeaderLength(f), DataLength |-> 8 * f.body]
Body(f) == [i \in 1..f.body |-> NOAASpecific]
Sent(f) ==
    <<0>> \o Octets(PrimaryLen, 2) \o <<f.fileType>> \o Octets(AllHeaderLength(f), 4)
          \o Octets(8 * f.body, 8) \o AllHeaders(f) \o Body(f)

(* f.cuts says how many octets of the file each SDU brings. *)
Parts(f) == Len(f.cuts)
Brought(f, n) == FoldLeft(LAMBDA s, i : s + i, 0, SubSeq(f.cuts, 1, n))
Contribution(f, n) == SubSeq(Sent(f), Brought(f, n - 1) + 1, Brought(f, n))
FirstSDU(f) == WithCRC([i \in 1..StripLen |-> 0] \o Contribution(f, 1))
-----------------------------------------------------------------------------
PrimaryPopulated == ph # NoPrimary

(* Mutant: the primary header's length is subtracted as well. *)
EnoughDataBehindPrimary(data, p) == (Len(data) - p.AllHeaderLength - p.Length) % Word # 0

(* uint32(len) - AllHeaderLength <= 0: only equality is refused. *)
EnoughData(data, p) == (Len(data) - p.AllHeaderLength) % Word # 0

(* Mutant: the primary header is counted among the secondary ones. *)
WalkWithPrimary(data, p) == [data |-> data, left |-> p.AllHeaderLength, made |-> << >>]

(* Start on the headers behind the primary header p. *)
Walk(data, p) == [data |-> data, left |-> p.AllHeaderLength - p.Length, made |-> << >>]
Behind(data, n) == SubSeq(data, n + 1, Len(data))

Init ==
    /\ file \in Files
    /\ damaged = FALSE /\ part = 0 /\ phase = "sent"
    /\ raw = << >> /\ ph = NoPrimary /\ made = << >> /\ ready = FALSE
    /\ walk = Nil /\ disk = Nil

(* A CRC mismatch: the SDU, and the file it would have opened, are dropped. *)
Refuse(sdu) ==
    /\ ~CRCMatches(sdu)
    /\ phase' = "dropped"
    /\ UNCHANGED <<raw, ph, walk>>

(* OpenNew: without a SecondaryHeaderFlag the walk is left to Append. *)
OpenNew(sdu) ==
    /\ CRCMatches(sdu)
    /\ raw' = SubSeq(sdu, StripLen + 1, Len(sdu) - 2)
    /\ ph' = MakePrimaryHeader(raw')
    /\ IF ph' # NoPrimary /\ file.flagged /\ EnoughData(raw', ph')
       THEN phase' = "opening" /\ walk' = Walk(Behind(raw', ph'.Length), ph')
       ELSE phase' = "open" /\ walk' = Nil

FirstArrives ==
    /\ phase = "sent"
    /\ part' = 1
    /\ LET sent == FirstSDU(file) IN
       \/ damaged' = FALSE /\ (Refuse(sent) \/ OpenNew(sent))
       \/ /\ file \in Fragile
          /\ damaged' = TRUE
          /\ \E burst \in {b \in Bursts : b[1] + 2 <= Len(sent)} :
                \E sdu \in {Inverted(sent, burst[1], burst[2], burst[3])} :
                    Refuse(sdu) \/ OpenNew(sdu)
    /\ UNCHANGED <<file, made, ready, disk>>

(* The walk of MakeSecondaryHeaders and PopulateSecondaryHeaders. *)
Walking == phase \in {"opening", "appending", "reading"}

NextHeader ==
    /\ Walking /\ walk.left > 0
    /\ ~HeaderError(walk.data) /\ ~HeaderPanic(walk.data)
    /\ LET h == getNextHeader(walk.data) IN
          walk' = [data |-> Behind(walk.data, h.Length), left |-> walk.left - h.Length,
                   made |-> Append(walk.made, h)]
    /\ UNCHANGED <<file, damaged, part, phase, raw, ph, made, ready, disk>>

HeaderPanics ==
    /\ Walking /\ walk.left > 0
    /\ HeaderPanic(walk.data)
    /\ phase' = "panicked"
    /\ UNCHANGED <<file, damaged, part, raw, ph, made, ready, walk, disk>>

(* The octets of the next SDU join RawData. *)
Join ==
    /\ raw' = raw \o Contribution(file, part + 1)
    /\ part' = part + 1
    /\ phase' = "open"

(* The walk is over; it found all headers or met an octet that starts none. *)
WalkEnds(found) ==
    /\ Walking
    /\ IF found THEN walk.left <= 0
       ELSE walk.left > 0 /\ HeaderError(walk.data)

EndOpening(found) ==
    /\ phase = "opening" /\ WalkEnds(found)
    /\ made' = IF found THEN walk.made ELSE << >>
    /\ ready' = found
    /\ phase' = "open"
    /\ walk' = Nil
    /\ UNCHANGED <<file, damaged, part, raw, ph, disk>>

(* Append makes the headers from what the file held before. *)
StartAppend ==
    /\ phase = "open" /\ part < Parts(file)
    /\ IF ~ready /\ EnoughData(raw, ph)
       THEN /\ phase' = "appending"
            /\ walk' = Walk(Behind(raw, ph.Length), ph)
            /\ UNCHANGED <<raw, part>>
       ELSE Join /\ UNCHANGED walk
    /\ UNCHANGED <<file, damaged, ph, made, ready, disk>>

EndAppending(found) ==
    /\ phase = "appending" /\ WalkEnds(found)
    /\ made' = IF found THEN walk.made ELSE << >>
    /\ ready' = found
    /\ walk' = Nil
    /\ Join
    /\ UNCHANGED <<file, damaged, ph, disk>>

(* Close, and the session layer's IsValid, which compares lengths. *)
Close ==
    /\ phase = "open" /\ part = Parts(file)
    /\ phase' = IF ~(PrimaryPopulated /\ ready) THEN "refused"
                ELSE IF Len(raw) - ph.AllHeaderLength = ph.DataLength \div 8 THEN "valid"
                ELSE "invalid"
    /\ UNCHANGED <<file, damaged, part, raw, ph, made, ready, walk, disk>>

(* DecompressIfNeeded: the NOAA header is taken to be there. *)
DecompressIfNeeded ==
    /\ phase = "valid"
    /\ phase' = IF ~Has(made, NOAASpecific) THEN "panicked"
                ELSE IF ContainsZipArchive(ph, made) /\ file.zip = "broken" THEN "dropped zip"
                ELSE "received"
    /\ UNCHANGED <<file, damaged, part, raw, ph, made, ready, walk, disk>>

(* WriteFile: segments of images are numbered, an archive is unpacked, and  *)
(* a file without a name cannot be written.                                 *)
Segmented == IsImageFile(ph, made) /\ ProductID(made) \in 16..19

WriteFile ==
    /\ phase = "received"
    /\ phase' = IF Segmented /\ Has(made, SegmentIdentification) THEN "written"
                ELSE IF ~Segmented /\ ContainsZipArchive(ph, made) THEN "unzipped"
                ELSE IF HasName(made) THEN "written"
                ELSE "unwritten"
    /\ disk' = IF phase' = "written" THEN raw ELSE Nil
    /\ UNCHANGED <<file, damaged, part, raw, ph, made, ready, walk>>

(* Mutant: the primary header's octets are left in the data. *)
NewExistingFileUncut ==
    /\ phase = "written"
    /\ ph' = MakePrimaryHeader(disk)
    /\ raw' = disk
    /\ IF EnoughData(raw', ph')
       THEN phase' = "reading" /\ walk' = Walk(raw', ph')
       ELSE phase' = "unreadable" /\ UNCHANGED walk
    /\ UNCHANGED <<file, damaged, part, made, ready, disk>>

(* NewExistingFile: the octets are cut off the front of Data; raw is Data   *)
(* from here on.                                                            *)
NewExistingFile ==
    /\ phase = "written"
    /\ ph' = MakePrimaryHeader(disk)
    /\ raw' = Behind(disk, PrimaryLen)
    /\ IF EnoughData(raw', ph')
       THEN phase' = "reading" /\ walk' = Walk(raw', ph')
       ELSE phase' = "unreadable" /\ UNCHANGED walk
    /\ UNCHANGED <<file, damaged, part, made, ready, disk>>

EndReading(found) ==
    /\ phase = "reading" /\ WalkEnds(found)
    /\ phase' = IF found THEN "existing" ELSE "unreadable"
    /\ made' = walk.made
    /\ raw' = walk.data
    /\ walk' = Nil
    /\ UNCHANGED <<file, damaged, part, ph, ready, disk>>

Next ==
    \/ FirstArrives \/ NextHeader \/ HeaderPanics
    \/ \E found \in BOOLEAN : EndOpening(found) \/ EndAppending(found) \/ EndReading(found)
    \/ StartAppend \/ Close \/ DecompressIfNeeded \/ WriteFile \/ NewExistingFile

Spec == Init /\ [][Next]_vars
-----------------------------------------------------------------------------
(* All headers come with the first SDU. *)
HeadersWhole(f) == f.cuts[1] >= AllHeaderLength(f)
HasNOAA(f) == \E i \in DOMAIN f.headers : f.headers[i].Type = NOAASpecific

(***************************************************************************)
(* The CRC does its work: a first SDU hit by a burst of up to 16 bits,     *)
(* anywhere in its headers, its data or the CRC itself, never opens a      *)
(* file, and one that was not hit always does.                             *)
(***************************************************************************)
AcceptedIffUndamaged == part > 0 => (phase = "dropped" <=> damaged)

(***************************************************************************)
(* Whenever the walk over the headers starts, on the first SDU, on what    *)
(* several of them left in RawData, or on a file that was written before,  *)
(* a file whose headers came whole ends up with exactly those sent.        *)
(***************************************************************************)
HeadersAsSent ==
    (ready /\ HeadersWhole(file)) \/ phase = "existing"
        => ph = Primary(file) /\ made = file.headers

(***************************************************************************)
(* The program panics over headers only if a file has no NOAA header, or   *)
(* if its first SDU ends amid the headers: the check for enough data       *)
(* subtracts unsigned numbers and finds any amount enough but one.         *)
(***************************************************************************)
PanicsOnlyIf ==
    phase = "panicked" => ~HasNOAA(file) \/ ~HeadersWhole(file)

(***************************************************************************)
(* Close gives up a file whose headers came whole only if the walk was     *)
(* never started: it starts in OpenNew if the packet's SecondaryHeaderFlag *)
(* is set, or with a later SDU, and either time only if there is data      *)
(* behind the headers already.                                             *)
(***************************************************************************)
RefusedOnlyIf ==
    phase = "refused" /\ HeadersWhole(file) =>
        \/ Parts(file) <= 2 /\ file.cuts[1] = AllHeaderLength(file)
        \/ Parts(file) = 1 /\ ~file.flagged

(***************************************************************************)
(* A file that WriteFile wrote is read again with the headers and the data *)
(* it was sent with; NewExistingFile fails only for a body as long as the  *)
(* primary header, because the check for enough data counts that header    *)
(* although it has been cut off.                                           *)
(***************************************************************************)
ReadBack ==
    /\ phase = "unreadable" => file.body = PrimaryLen
    /\ phase = "existing" => raw = Body(file)
    /\ phase # "invalid"
=============================================================================
