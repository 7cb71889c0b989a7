---------------------------- MODULE FrameMemory ----------------------------
(***************************************************************************)
(* Whose octets a file holds.  ParseMSDUs cuts the SDUs that lie whole in  *)
(* a frame out of the frame's buffer, and OpenNew makes such a slice the   *)
(* RawData of a file; Go's append then writes behind it, in place, as long *)
(* as the buffer has room.  SDUs that are cut by the end of a frame are    *)
(* put together in a buffer of their own (lastSDU).                        *)
(*                                                                         *)
(* Nothing is lost or damaged here.  What an octet holds is a pair: <<p,   *)
(* 0>> is the octet that was sent at position p of the stream of packets,  *)
(* <<p, j>> the j-th octet of the image row packed at p.  Each file also   *)
(* says what LritFile has it hold (value): its octets, if no two slices    *)
(* shared a buffer.                                                        *)
(***************************************************************************)
EXTENDS LritFile, FiniteSets, Functions

CONSTANTS
    Streams,     \* the sequences of SDUs <<file, part>> that may be sent
    ZoneLen,     \* octets of packets in a frame (884)
    HdrLen,      \* of a packet header (6)
    StripLen,    \* of the transport header of a file's first SDU (10)
    HeadLen,     \* of a file's headers (AllHeaderLength)
    CrcLen       \* of the CRC behind an SDU (2)

ASSUME FrameMemoryAssumption ==
    /\ \A S \in Streams : S \in Seq(Nat \X Nat) /\ IsStream(S)
    /\ {ZoneLen, HdrLen, StripLen, HeadLen, CrcLen} \subseteq Nat \ {0}
    /\ \A f \in Sent : DataLength[f] + Meta[f].lens[1] <= Word

VARIABLES
    stream,      \* the SDUs that are sent; never changes
    offset,      \* where in its zone the first packet begins; never changes
    frame,       \* frames parsed
    mem,         \* the buffers of the frames, one behind the other
    APIDs,       \* the SDUs of each APID in the frame being processed
    cur,         \* the APID being processed, or Nil
    Files,       \* the file each APID has open, or Nil
    delivered    \* the files handed on, which keep their slices

vars == <<stream, offset, frame, mem, APIDs, cur, Files, delivered>>
-----------------------------------------------------------------------------
(* The stream of packets. *)

ApidOf(k) == Meta[stream[k][1]].apid
IsFirst(k) == stream[k][2] = 1
IsLast(k) == stream[k][2] = Parts(stream[k][1])
IsPacked(k) == Meta[stream[k][1]].packed

Ahead(k) == HdrLen + IF IsFirst(k) THEN StripLen ELSE 0
RawLen(k) == Meta[stream[k][1]].lens[stream[k][2]] + IF IsFirst(k) THEN HeadLen ELSE 0

PacketLen(k) == Ahead(k) + RawLen(k) + CrcLen

PacketAt(k) == offset + FoldLeft(LAMBDA n, j : n + PacketLen(j), 0, [j \in 1..k-1 |-> j])
PacketEnd(k) == PacketAt(k) + PacketLen(k)
RawAt(k) == PacketAt(k) + Ahead(k)         \* where RawData, or the data, begins

FrameOf(p) == p \div ZoneLen
ZoneEnd(p) == (FrameOf(p) + 1) * ZoneLen
TotalLen == ZoneEnd(PacketAt(Len(stream) + 1))

(* Cut by the end of a frame, and so assembled in lastSDU.  Such an SDU is  *)
(* handed over when the next packet begins.                                 *)
Carried(k) == PacketEnd(k) > ZoneEnd(PacketAt(k))
ArrivesIn(k) == FrameOf(IF Carried(k) THEN PacketEnd(k) ELSE PacketAt(k))

AsSent(p, n) == [i \in 1..n |-> <<p + i - 1, 0>>]
RowOf(p) == [j \in 1..Cols |-> <<p, j>>]
Garbage == [j \in 1..Cols |-> <<-1, j>>]
Black == [j \in 1..Cols |-> <<-2, j>>]

(* The data octets of SDU k, after the headers if it is the first. *)
Body(k) ==
    IF IsFirst(k) THEN AsSent(RawAt(k) + HeadLen, RawLen(k) - HeadLen)
    ELSE AsSent(RawAt(k), RawLen(k))
-----------------------------------------------------------------------------
(* Slices. *)

(* The n octets at p, as a slice of frame buffers m. *)
Read(m, p, n) == [i \in 1..n |-> m[p + i - 1]]

(* What SDU k's slice reads now. *)
Octet(m, k) == IF Carried(k) THEN AsSent(RawAt(k), RawLen(k)) ELSE Read(m, RawAt(k), RawLen(k))

(* The CRC covers the octets ahead of it in the packet. *)
CRCGood(m, k) ==
    Carried(k) \/ \A p \in PacketAt(k) + HdrLen .. PacketEnd(k) - 1 : m[p] = <<p, 0>>

(* The octets of a file's RawData. *)
RawData(m, f) == IF f.at = Nil THEN f.own ELSE Read(m, f.at, f.len)
Data(m, f) == SubSeq(RawData(m, f), HeadLen + 1, f.len)

(* Mutant: the room in the buffer is not looked at. *)
AppendToInPlace(s, octets) ==
    LET f == s.file
        end == f.at + f.len
        n == Len(octets)
    IN  IF f.at # Nil
        THEN [file |-> [f EXCEPT !.len = @ + n],
              mem |-> [p \in DOMAIN s.mem |->
                          IF p \in end .. end + n - 1 THEN octets[p - end + 1] ELSE s.mem[p]]]
        ELSE [file |-> [f EXCEPT !.own = @ \o octets, !.len = @ + n], mem |-> s.mem]

(* A file and the frame buffers after RawData = append(RawData, octets...). *)
AppendTo(s, octets) ==
    LET f == s.file
        end == f.at + f.len
        n == Len(octets)
    IN  IF f.at # Nil /\ end + n <= ZoneEnd(f.at)
        THEN [file |-> [f EXCEPT !.len = @ + n],
              mem |-> [p \in DOMAIN s.mem |->
                          IF p \in end .. end + n - 1 THEN octets[p - end + 1] ELSE s.mem[p]]]
        ELSE [file |-> [f EXCEPT !.at = Nil, !.own = RawData(s.mem, f) \o octets, !.len = @ + n],
              mem |-> s.mem]

(* RawData = RawData[:n], in place. *)
CutTo(s, n) ==
    LET f == s.file IN
    [s EXCEPT !.file = [f EXCEPT !.len = n, !.own = IF f.at = Nil THEN SubSeq(@, 1, n) ELSE @]]
-----------------------------------------------------------------------------
(* The operations of LritFile, on slices. *)

(***************************************************************************)
(* What is appended for some octets of f: rows of a packed image whose     *)
(* headers are known are unpacked.  If the octets are not those that were  *)
(* sent, they fail to decode and are kept as they are, or decode to        *)
(* something.                                                              *)
(***************************************************************************)
RowsFor(f, octets) ==
    IF ~(f.ready /\ Meta[f.value.file].packed) \/ octets = << >> THEN {octets}
    ELSE IF \E k \in DOMAIN stream : IsPacked(k) /\ octets = Body(k) THEN {RowOf(octets[1][1])}
    ELSE {octets, Garbage}

OpenSlice(m, k) ==
    LET v == OpenNew(stream[k][1]) IN
    [value |-> v, ready |-> v.ready, len |-> RawLen(k),
     at |-> IF Carried(k) THEN Nil ELSE RawAt(k),
     own |-> IF Carried(k) THEN Octet(m, k) ELSE << >>]

(* Whether the headers can be parsed now.  If they were overwritten, that   *)
(* may fail; if it succeeds they are taken to say the same as before.       *)
Parses(s, k) ==
    IF s.file.ready \/ s.file.len <= HeadLen THEN {FALSE}
    ELSE LET first == CHOOSE j \in DOMAIN stream : stream[j] = <<s.file.value.file, 1>>
         IN IF SubSeq(RawData(s.mem, s.file), 1, HeadLen) = AsSent(RawAt(first), HeadLen)
            THEN {TRUE} ELSE BOOLEAN

(* Mutant: the octets behind the headers are not cut off before they are   *)
(* appended again.                                                         *)
ReappendedUncut(s, parsed) ==
    IF ~parsed THEN {s}
    ELSE LET f == [s.file EXCEPT !.ready = TRUE] IN
         {AppendTo([s EXCEPT !.file = f], d) : d \in RowsFor(f, Data(s.mem, s.file))}

(* The secondary headers become known: the octets behind them are cut off   *)
(* and appended again, unpacked.                                            *)
Reappended(s, parsed) ==
    IF ~parsed THEN {s}
    ELSE LET f == [s.file EXCEPT !.ready = TRUE] IN
         {AppendTo(CutTo([s EXCEPT !.file = f], HeadLen), d)
             : d \in RowsFor(f, Data(s.mem, s.file))}

(* The outcomes of Append: sdu.Data is read after that. *)
Appends(s, k) ==
    UNION {UNION {{AppendTo(r, d) : d \in RowsFor(r.file, Octet(r.mem, k))}
                  : r \in Reappended(s, parsed)} : parsed \in Parses(s, k)}

(* GetFillRow and Close: missing rows are copies of the last one, or black. *)
FillRowOf(s) ==
    LET d == Data(s.mem, s.file) IN
    IF Len(d) > Cols THEN SubSeq(d, Len(d) - Cols + 1, Len(d)) ELSE Black

Closed(s) ==
    LET f == s.file.value.file
        missing == ((DataLength[f] - (s.file.len - HeadLen)) % Word) \div Cols
        rows == FlattenSeq([i \in 1..missing |-> FillRowOf(s)])
    IN IF Meta[f].image /\ missing \in 1..NumRows(f) - 1 THEN AppendTo(s, rows) ELSE s
-----------------------------------------------------------------------------
Init ==
    /\ stream \in Streams
    /\ offset \in 0..ZoneLen - 1
    /\ frame = 0
    /\ mem = [p \in 0..TotalLen - 1 |-> <<p, 0>>]
    /\ APIDs = [a \in Apids |-> {}]
    /\ cur = Nil
    /\ Files = [a \in Apids |-> Nil]
    /\ delivered = {}

(* ParseMSDUs: the SDUs of the next frame. *)
ParseFrame ==
    /\ cur = Nil /\ \A a \in Apids : APIDs[a] = {}
    /\ frame < FrameOf(TotalLen)
    /\ frame' = frame + 1
    /\ APIDs' = [a \in Apids |-> {k \in DOMAIN stream : ApidOf(k) = a /\ ArrivesIn(k) = frame}]
    /\ UNCHANGED <<stream, offset, mem, cur, Files, delivered>>

(* ProcessAllAPIDs: APIDs in any order, each one's SDUs in the order sent. *)
PickAPID(a) ==
    /\ cur = Nil /\ APIDs[a] # {}
    /\ cur' = a
    /\ UNCHANGED <<stream, offset, frame, mem, APIDs, Files, delivered>>

EndAPID ==
    /\ cur # Nil /\ APIDs[cur] = {}
    /\ cur' = Nil
    /\ UNCHANGED <<stream, offset, frame, mem, APIDs, Files, delivered>>

Applies(k) ==
    /\ cur # Nil
    /\ k \in APIDs[cur] /\ \A j \in APIDs[cur] : k <= j
    /\ APIDs' = [APIDs EXCEPT ![cur] = @ \ {k}]
    /\ UNCHANGED <<stream, offset, frame, cur>>

Now(k) == [file |-> Files[cur], mem |-> mem]
Joined(f, k) == [f EXCEPT !.value = AppendSDU(@, SentChunk(stream[k][1], stream[k][2]), TRUE)]

(* A CRC mismatch: the octets were overwritten.  The open file is dropped. *)
BadCRC(k) ==
    /\ Applies(k)
    /\ ~CRCGood(mem, k)
    /\ Files' = [Files EXCEPT ![cur] = Nil]
    /\ UNCHANGED <<mem, delivered>>

StartFile(k) ==
    /\ Applies(k)
    /\ CRCGood(mem, k) /\ IsFirst(k) /\ ~IsLast(k)
    /\ Files' = [Files EXCEPT ![cur] = OpenSlice(mem, k)]
    /\ UNCHANGED <<mem, delivered>>

(* An SDU for which no file is open; it is ignored. *)
NoFile(k) ==
    /\ Applies(k)
    /\ CRCGood(mem, k) /\ ~IsFirst(k) /\ Files[cur] = Nil
    /\ UNCHANGED <<mem, Files, delivered>>

ContinueFile(k) ==
    /\ Applies(k)
    /\ CRCGood(mem, k) /\ ~IsFirst(k) /\ ~IsLast(k) /\ Files[cur] # Nil
    /\ \E s \in Appends(Now(k), k) :
          /\ mem' = s.mem
          /\ Files' = [Files EXCEPT ![cur] = Joined(s.file, k)]
    /\ UNCHANGED delivered

(* A closed file is sent on if its headers were parsed, and dropped. *)
Hand(s) ==
    LET c == IF s.file.ready THEN Closed(s) ELSE s IN
    /\ mem' = c.mem
    /\ Files' = [Files EXCEPT ![cur] = Nil]
    /\ delivered' = IF s.file.ready THEN delivered \cup {c.file} ELSE delivered

FinishFile(k) ==
    /\ Applies(k)
    /\ CRCGood(mem, k) /\ IsLast(k) /\ ~IsFirst(k) /\ Files[cur] # Nil
    /\ \E s \in Appends(Now(k), k) : Hand([s EXCEPT !.file = Joined(@, k)])

SingleFile(k) ==
    /\ Applies(k)
    /\ CRCGood(mem, k) /\ IsFirst(k) /\ IsLast(k)
    /\ Hand([Now(k) EXCEPT !.file = OpenSlice(mem, k)])

ProcessSDU(k) ==
    \/ BadCRC(k) \/ StartFile(k) \/ NoFile(k)
    \/ ContinueFile(k) \/ FinishFile(k) \/ SingleFile(k)

Next ==
    \/ ParseFrame
    \/ \E a \in Apids : PickAPID(a)
    \/ EndAPID
    \/ \E k \in DOMAIN stream : ProcessSDU(k)

Spec == Init /\ [][Next]_vars
-----------------------------------------------------------------------------
Slice == [value : FileType, ready : BOOLEAN, len : Nat, at : Nat \cup {Nil},
          own : Seq(Int \X Nat)]

TypeOK ==
    /\ mem \in [0..TotalLen - 1 -> Int \X Nat]
    /\ \A a \in Apids : Files[a] = Nil \/ Files[a] \in Slice
    /\ delivered \subseteq Slice
    /\ \A f \in delivered \cup {Files[a] : a \in {a \in Apids : Files[a] # Nil}} :
          IF f.at = Nil THEN f.len = Len(f.own) ELSE f.at + f.len <= ZoneEnd(f.at)

(* What a file would hold if its buffer were its own. *)
Sdu(c) == CHOOSE k \in DOMAIN stream : stream[k] = <<c.file, c.part>>
Expected(v) ==
    FlattenSeq([i \in DOMAIN v.data |->
        LET b == Body(Sdu(v.data[i])) IN
        IF v.data[i].kind = "plain" /\ IsPacked(Sdu(v.data[i])) THEN RowOf(b[1][1]) ELSE b])

Pending == UNION {APIDs[a] : a \in Apids}
Held == {Files[a] : a \in {a \in Apids : Files[a] # Nil}} \cup delivered
Holds(f) ==
    {Sdu(c) : c \in ToSet(f.value.data)} \cup {Sdu([file |-> f.value.file, part |-> 1])}

(* SDU j begins a file in whose way SDU k of the same frame lies: it is of  *)
(* another APID, or the file's rows grow when they are unpacked.            *)
InTheWay(j, k) ==
    /\ j < k /\ IsFirst(j)
    /\ ~Carried(j) /\ ~Carried(k) /\ FrameOf(PacketAt(j)) = FrameOf(PacketAt(k))
    /\ ApidOf(j) # ApidOf(k) \/ IsPacked(j)

(***************************************************************************)
(* Sharing a buffer does harm in one constellation only.  An SDU whose CRC *)
(* is still to be checked is written over only if it lies in the way of a  *)
(* file begun ahead of it in its frame.  A file, open or handed on (the    *)
(* session layer and the application may be reading it), holds exactly     *)
(* what LritFile says, unless an SDU of it lay in another file's way or    *)
(* another file was begun in its way; then either may write over the       *)
(* other.  That holds however far files grow into the buffer and whatever  *)
(* frames they outlive.                                                    *)
(***************************************************************************)
SpoiltOnlyInTheWay ==
    /\ \A k \in Pending : CRCGood(mem, k) \/ \E j \in DOMAIN stream : InTheWay(j, k)
    /\ \A f \in Held :
          \/ Data(mem, f) = Expected(f.value)
          \/ \E k \in Holds(f), j \in DOMAIN stream :
                InTheWay(j, k) \/ (InTheWay(k, j) /\ IsFirst(j))

(***************************************************************************)
(* assembler.go:90, "CRC Mismatch", is said of an SDU only when it was     *)
(* damaged, which none is here.                                            *)
(***************************************************************************)
CRCMatches == cur # Nil => \A k \in APIDs[cur] : CRCGood(mem, k)
=============================================================================
