------------------------------- MODULE Demux -------------------------------
(***************************************************************************)
(* Recovering SDUs from the packet zones of one virtual channel:           *)
(* TransportAssembler.ParseMSDUs and the helpers it calls.                 *)
(*                                                                         *)
(* The ground segment lays packets end to end and cuts the result into     *)
(* zones of ZoneLen octets, one per frame; a frame's first-header pointer  *)
(* says where in its zone the first packet header starts.  An octet is     *)
(* named by its offset in the stream, so the octets a Go slice holds are   *)
(* an interval of offsets.  The buffer lastSDU may hold octets of several  *)
(* intervals once frames were lost: what matters is where its first octet  *)
(* comes from, how many octets it holds, and how many of the leading ones  *)
(* are consecutive, undamaged octets of the stream (intact).               *)
(*                                                                         *)
(* CRC failure is modelled as "the octets are not exactly those sent".     *)
(***************************************************************************)
EXTENDS Naturals, Sequences, FiniteSets, Packets

CONSTANTS
    ZoneLen,     \* octets in a packet zone (884 in the code)
    HdrLen,      \* octets in a packet header (6)
    NoHeader,    \* the pointer value "no header starts in this zone" (2047)
    CounterMod,  \* the VCDU counter counts modulo this (2^24)
    LenMod,      \* PacketLength is computed modulo this (2^16)
    MaxFrame,    \* bound: the channel carries frames 0..MaxFrame
    MaxGarbled,  \* bound: how many frames may arrive damaged
    Repeats,     \* whether a frame may arrive a second time
    Layouts,     \* the packet streams the ground segment may send
    Nil          \* the Go nil pointer

Base(n) == n * ZoneLen     \* the stream offset of the first octet of frame n

(***************************************************************************)
(* A layout gives every packet, named by its first octet, its size with    *)
(* header, and says which packets are fill.  Packets are longer than their *)
(* header, shorter than PacketLength can count, do not overlap, and follow *)
(* each other without a gap up to the end of the last frame.               *)
(***************************************************************************)
IsLayout(L) ==
    /\ DOMAIN L.size \subseteq Nat
    /\ L.fill \subseteq DOMAIN L.size
    /\ \A s \in DOMAIN L.size :
          /\ L.size[s] \in Nat
          /\ L.size[s] > HdrLen
          /\ L.size[s] < HdrLen + LenMod
          /\ \A t \in DOMAIN L.size : s < t => s + L.size[s] <= t
          /\ s + L.size[s] < Base(MaxFrame + 1) => s + L.size[s] \in DOMAIN L.size

(* A frame of this virtual channel as ParseFrame reads it. *)
Frame == [n : 0..MaxFrame, counter : 0..CounterMod-1, fhp : 0..NoHeader, clean : BOOLEAN]

ASSUME DemuxAssumption ==
    /\ HdrLen \in Nat \ {0}
    /\ ZoneLen \in Nat /\ ZoneLen > HdrLen
    /\ NoHeader \in Nat /\ NoHeader >= ZoneLen
    /\ CounterMod \in Nat \ {0, 1}
    /\ LenMod \in Nat \ {0}
    /\ MaxFrame \in Nat
    /\ MaxGarbled \in Nat
    /\ Repeats \in BOOLEAN
    /\ \A L \in Layouts : IsLayout(L)
    /\ Nil \notin Frame

VARIABLES
    stream,    \* the layout being sent; never changes
    next,      \* the number of the next frame on the link
    seen,      \* the frames that arrived undamaged (history)
    damaged,   \* the frames that arrived damaged (history)
    lastSDU,   \* octets of a packet that is not complete yet
    lastVCDU,  \* the frame parsed last, or Nil
    report,    \* what checkForSkippedVCDU said of the frame parsed last
    pc,        \* "idle" between frames, "scan" inside ParseMSDUs' loop
    vcdu,      \* the frame being parsed, or Nil
    at,        \* how far into vcdu's zone the local slice `data' starts
    ret,       \* the SDUs found in this frame so far
    out        \* every SDU handed to ProcessAllAPIDs (history)

parse == <<pc, vcdu, at, ret>>
link == <<stream, next, seen, damaged>>
vars == <<link, lastSDU, lastVCDU, report, parse, out>>
-----------------------------------------------------------------------------
(* The link. *)

Start == DOMAIN stream.size
After(s) == s + stream.size[s]     \* the octet after packet s
HeadersIn(n) == {s \in Start : Base(n) <= s /\ s < Base(n) + ZoneLen}

(* The pointer the ground segment puts into frame n. *)
FirstHeader(n) ==
    IF HeadersIn(n) = {} THEN NoHeader
    ELSE (CHOOSE s \in HeadersIn(n) : \A t \in HeadersIn(n) : s <= t) - Base(n)

(***************************************************************************)
(* Frame n as it can reach the assembler: undamaged, or with every field   *)
(* arbitrary, because the decoder passes on frames in which only some of   *)
(* the Reed-Solomon blocks could be corrected.                             *)
(***************************************************************************)
CleanFrame(n) ==
    [n |-> n, counter |-> n % CounterMod, fhp |-> FirstHeader(n), clean |-> TRUE]
DamagedFrames(n) ==
    [n : {n}, counter : 0..CounterMod-1, fhp : 0..NoHeader, clean : {FALSE}]
FramesFor(n) ==
    IF Cardinality(damaged) < MaxGarbled
    THEN {CleanFrame(n)} \cup DamagedFrames(n) ELSE {CleanFrame(n)}
-----------------------------------------------------------------------------
(* The octet buffers. *)

Buffer == [from : Nat, len : Nat, intact : Nat]
Empty == [from |-> 0, len |-> 0, intact |-> 0]

(* buf with k octets appended, the first of them at stream offset pos. *)
Extend(buf, pos, k, clean) ==
    [from |-> IF buf.len = 0 THEN pos ELSE buf.from,
     len |-> buf.len + k,
     intact |-> IF /\ clean
                   /\ buf.intact = buf.len
                   /\ buf.len > 0 => buf.from + buf.len = pos
                THEN buf.intact + k ELSE buf.intact]

SDU == [from : Nat, good : BOOLEAN]

(* The SDU made of all the octets in buf. *)
Carried(buf) ==
    [from |-> buf.from,
     good |-> buf.intact = buf.len /\ buf.from \in Start /\ buf.len = stream.size[buf.from]]

(* Whether the header at the front of buf may read as that of a fill packet. *)
ReadsAsFill(buf) ==
    IF buf.intact >= HdrLen THEN {buf.from \in stream.fill} ELSE BOOLEAN
-----------------------------------------------------------------------------
Init ==
    /\ stream \in Layouts
    /\ next = 0
    /\ seen = {}
    /\ damaged = {}
    /\ lastSDU = Empty
    /\ lastVCDU = Nil
    /\ report = "ok"
    /\ pc = "idle"
    /\ vcdu = Nil
    /\ at = 0
    /\ ret = << >>
    /\ out = << >>

(***************************************************************************)
(* What checkForSkippedVCDU reports.  Its error only reaches the log and   *)
(* empties t.APIDs, which is empty whenever a frame arrives.               *)
(***************************************************************************)
checkForSkippedVCDU(v) ==
    IF lastVCDU = Nil THEN "ok"
    ELSE IF CounterDiff(CounterMod, lastVCDU.counter, v.counter) > 1
         THEN IF lastVCDU.counter = v.counter THEN "duplicate" ELSE "dropped"
         ELSE "ok"

(* The link delivers v; the frames between next and v.n were lost. *)
Arrive(v) ==
    /\ pc = "idle"
    /\ next' = v.n + 1
    /\ seen' = IF v.clean THEN seen \cup {v.n} ELSE seen
    /\ damaged' = IF v.clean THEN damaged ELSE damaged \cup {v.n}
    /\ report' = checkForSkippedVCDU(v)
    /\ UNCHANGED stream

(* No packet header starts in v: all of its octets continue a packet. *)
saveContinuationPacket(v) ==
    /\ Arrive(v)
    /\ v.fhp = NoHeader
    /\ lastSDU' = IF lastSDU.len > 0
                  THEN Extend(lastSDU, Base(v.n), ZoneLen, v.clean) ELSE lastSDU
    /\ lastVCDU' = v
    /\ UNCHANGED <<parse, out>>

(* FHPIsValid fails: the frame is remembered and otherwise ignored. *)
RejectPointer(v) ==
    /\ Arrive(v)
    /\ v.fhp # NoHeader /\ v.fhp > ZoneLen - 1
    /\ lastVCDU' = v
    /\ UNCHANGED <<lastSDU, parse, out>>

(* Mutant: one octet before the first header is taken for none. *)
savePartialPacketEndOffByOne(v) ==
    IF v.fhp > 1 /\ lastSDU.len > 0
    THEN Extend(lastSDU, Base(v.n), v.fhp, v.clean) ELSE lastSDU

(* lastSDU with the octets before the first header of v. *)
savePartialPacketEnd(v) ==
    IF v.fhp > 0 /\ lastSDU.len > 0
    THEN Extend(lastSDU, Base(v.n), v.fhp, v.clean) ELSE lastSDU

(* Mutant: lastSDU is not emptied after use. *)
StartScanKeepingBuffer(v) ==
    /\ Arrive(v)
    /\ v.fhp <= ZoneLen - 1
    /\ LET buf == savePartialPacketEnd(v) IN
       \E fill \in ReadsAsFill(buf) :
          /\ ret' = IF buf.len > HdrLen /\ ~fill THEN <<Carried(buf)>> ELSE << >>
          /\ lastSDU' = buf
    /\ vcdu' = v
    /\ at' = v.fhp
    /\ pc' = "scan"
    /\ UNCHANGED <<lastVCDU, out>>

(***************************************************************************)
(* The packet in lastSDU ends at the first header of v: it becomes an SDU  *)
(* unless it is too short or fill.  Then the loop over v's packets starts. *)
(***************************************************************************)
StartScan(v) ==
    /\ Arrive(v)
    /\ v.fhp <= ZoneLen - 1
    /\ LET buf == savePartialPacketEnd(v) IN
       \E fill \in ReadsAsFill(buf) :
          ret' = IF buf.len > HdrLen /\ ~fill THEN <<Carried(buf)>> ELSE << >>
    /\ lastSDU' = Empty
    /\ vcdu' = v
    /\ at' = v.fhp
    /\ pc' = "scan"
    /\ UNCHANGED <<lastVCDU, out>>
-----------------------------------------------------------------------------
(* The loop: `data' is vcdu's zone from `at' on. *)

Here == Base(vcdu.n) + at
Left == ZoneLen - at

(* The headers that may be read at `at': fill flag and PacketLength. *)
HeaderHere ==
    IF vcdu.clean
    THEN {[fill |-> Here \in stream.fill, plen |-> (stream.size[Here] - HdrLen) % LenMod]}
    ELSE [fill : BOOLEAN, plen : 0..ZoneLen]

(* Mutant: the header is not counted. *)
FitsBeforeHeader(h) == h.plen <= Left

Fits(h) == h.plen <= Left - HdrLen

Scanning == pc = "scan" /\ Left > HdrLen

(* A whole fill packet is stepped over. *)
SkipFill(h) ==
    /\ h.fill /\ Fits(h)
    /\ at' = at + HdrLen + h.plen
    /\ UNCHANGED <<link, lastSDU, lastVCDU, report, pc, vcdu, ret, out>>

(* A fill packet that outlasts the zone ends the scan; its octets are dropped. *)
FillPastEnd(h) ==
    /\ h.fill /\ ~Fits(h)
    /\ at' = ZoneLen
    /\ lastVCDU' = vcdu
    /\ UNCHANGED <<link, lastSDU, report, pc, vcdu, ret, out>>

(* Mutant: the partial packet is kept without its header. *)
SavePartialBody(h) ==
    /\ ~h.fill /\ ~Fits(h)
    /\ lastSDU' = Extend(lastSDU, Here + HdrLen, Left - HdrLen, vcdu.clean)
    /\ at' = ZoneLen
    /\ UNCHANGED <<link, lastVCDU, report, pc, vcdu, ret, out>>

(* A data packet that outlasts the zone is kept, header included. *)
SavePartial(h) ==
    /\ ~h.fill /\ ~Fits(h)
    /\ lastSDU' = Extend(lastSDU, Here, Left, vcdu.clean)
    /\ at' = ZoneLen
    /\ UNCHANGED <<link, lastVCDU, report, pc, vcdu, ret, out>>

(* Mutant: the header is not stepped over. *)
TakePacketNoHeader(h) ==
    /\ ~h.fill /\ Fits(h)
    /\ ret' = Append(ret, [from |-> Here, good |-> vcdu.clean])
    /\ at' = at + h.plen
    /\ UNCHANGED <<link, lastSDU, lastVCDU, report, pc, vcdu, out>>

(* A whole data packet becomes an SDU. *)
TakePacket(h) ==
    /\ ~h.fill /\ Fits(h)
    /\ ret' = Append(ret, [from |-> Here, good |-> vcdu.clean])
    /\ at' = at + HdrLen + h.plen
    /\ UNCHANGED <<link, lastSDU, lastVCDU, report, pc, vcdu, out>>

(* Mutant: the frame is not remembered. *)
EndScanForgettingFrame ==
    /\ pc = "scan" /\ Left <= HdrLen
    /\ lastSDU' = IF Left > 0 THEN Extend(lastSDU, Here, Left, vcdu.clean) ELSE lastSDU
    /\ out' = out \o ret
    /\ ret' = << >>
    /\ pc' = "idle"
    /\ at' = 0
    /\ vcdu' = Nil
    /\ UNCHANGED <<link, lastVCDU, report>>

(* At most a header is left: keep it, and hand the frame's SDUs over. *)
EndScan ==
    /\ pc = "scan" /\ Left <= HdrLen
    /\ lastSDU' = IF Left > 0 THEN Extend(lastSDU, Here, Left, vcdu.clean) ELSE lastSDU
    /\ lastVCDU' = vcdu
    /\ out' = out \o ret
    /\ ret' = << >>
    /\ pc' = "idle"
    /\ at' = 0
    /\ vcdu' = Nil
    /\ UNCHANGED <<link, report>>

(* Frames may be skipped by the link, and the last one may be repeated. *)
Arrivals ==
    {n \in 0..MaxFrame : n >= next \/ (Repeats /\ n + 1 = next)}

Next ==
    \/ \E n \in Arrivals : \E v \in FramesFor(n) :
          saveContinuationPacket(v) \/ RejectPointer(v) \/ StartScan(v)
    \/ /\ Scanning
       /\ \E h \in HeaderHere :
             SkipFill(h) \/ FillPastEnd(h) \/ SavePartial(h) \/ TakePacket(h)
    \/ EndScan

Spec == Init /\ [][Next]_vars
-----------------------------------------------------------------------------
TypeOK ==
    /\ IsLayout(stream)
    /\ next \in 0..MaxFrame+1
    /\ seen \subseteq 0..next-1
    /\ damaged \subseteq 0..next-1
    /\ lastSDU \in Buffer
    /\ lastVCDU \in Frame \cup {Nil}
    /\ report \in {"ok", "dropped", "duplicate"}
    /\ \/ pc = "idle" /\ vcdu = Nil
       \/ pc = "scan" /\ vcdu \in Frame
    /\ at \in 0..ZoneLen
    /\ ret \in Seq(SDU)
    /\ out \in Seq(SDU)

Good(q) == {q[i].from : i \in {j \in DOMAIN q : q[j].good}}
Bad(q) == {i \in DOMAIN q : ~q[i].good}
Data == Start \ stream.fill

(***************************************************************************)
(* The loop never loses track of packet boundaries: whenever octets of an  *)
(* undamaged zone are left, the slice `data' starts at a packet header.    *)
(* This is what the pointer arithmetic of ParseMSDUs (data[fhp:],          *)
(* data[6:], data[PacketLength:]) has to get right.                        *)
(***************************************************************************)
AlignedScan == pc = "scan" /\ vcdu.clean /\ Left > 0 => Here \in Start

(***************************************************************************)
(* ParseMSDUs reads t.lastVCDU's header fields when it turns lastSDU into  *)
(* an SDU, without a nil check: a partial packet always has its frame.     *)
(***************************************************************************)
PartialHasFrame == pc = "idle" /\ lastSDU.len > 0 => lastVCDU # Nil

(* Every frame that holds an octet of packet s, or the octet after it, and *)
(* that could have arrived by now, has arrived undamaged.                  *)
SeenSoFar(s) ==
    \A k \in 0..MaxFrame :
        k < next /\ Base(k) <= After(s) /\ s < Base(k + 1) => k \in seen

(***************************************************************************)
(* A loss costs only the packets it touches: when every frame that holds   *)
(* an octet of a data packet, or the octet after it, arrived undamaged,    *)
(* the packet has been handed over intact, whatever was lost before or     *)
(* after.  (The octet after it, because a packet that began in an earlier  *)
(* frame and ends exactly at the end of a zone is only recognised as       *)
(* complete by the next frame.)                                            *)
(***************************************************************************)
NothingElseLost ==
    pc = "idle" =>
        \A s \in Data :
            After(s) < Base(next) /\ SeenSoFar(s) => s \in Good(out)

(***************************************************************************)
(* The buffer reset after every use keeps damage local: without damaged    *)
(* frames, each run of lost frames yields at most one SDU that is not a    *)
(* packet that was sent (the splice of the two ends of the gap).           *)
(***************************************************************************)
Gaps == {k \in seen : k - 1 \notin seen /\ \E j \in seen : j < k}
OneSplicePerGap == damaged = {} => Cardinality(Bad(out)) <= Cardinality(Gaps)

(* The frame the present step receives. *)
Arrived == IF pc' = "scan" THEN vcdu' ELSE lastVCDU'

(***************************************************************************)
(* Between undamaged frames, a loss is reported exactly when the wrapped   *)
(* counters show one: always, but for a loss of a multiple of the modulus, *)
(* or one frame short of it.                                               *)
(***************************************************************************)
GapReported ==
    [][pc = "idle" /\ lastVCDU # Nil /\ lastVCDU.clean /\ Arrived.clean =>
          (report' # "ok" <=> (Arrived.n - lastVCDU.n) % CounterMod > 1)]_vars

(***************************************************************************)
(* checkForSkippedVCDU has a branch that reports "Duplicate VCDU found!"   *)
(* for a frame whose counter equals that of the frame before.              *)
(***************************************************************************)
DuplicateReported ==
    [][pc = "idle" /\ lastVCDU # Nil /\ Arrived.counter = lastVCDU.counter =>
          report' = "duplicate"]_vars

(***************************************************************************)
(* The demultiplexer keeps the promise of SduStream: good SDUs are packets *)
(* that were sent, each handed over at most once and in order.             *)
(***************************************************************************)
Stream == INSTANCE SduStream WITH sent <- Data
StreamSpec == Stream!Spec
-----------------------------------------------------------------------------
(***************************************************************************)
(* What makes those properties inductive.  The parser has dealt with the   *)
(* octets before Limit; Handed is what it hands over of them.              *)
(***************************************************************************)
Limit == IF pc = "scan" /\ vcdu.clean THEN Here ELSE Base(next)
Handed == out \o ret

(* The buffer is empty while the loop runs, but for a partial packet that  *)
(* reaches to the end of the zone.                                         *)
BufferInv ==
    /\ lastSDU.intact <= lastSDU.len
    /\ pc = "idle" => ret = << >>
    /\ pc = "scan" => next = vcdu.n + 1
    /\ pc = "scan" /\ at < ZoneLen => lastSDU = Empty

(* Good SDUs come in order, and before the packet in the buffer. *)
OrderInv ==
    /\ Stream!InOrder(Handed)
    /\ \A s \in Good(Handed) : s < Limit
    /\ lastSDU.intact > 0 =>
          /\ lastSDU.from < Limit
          /\ \A s \in Good(Handed) : s < lastSDU.from

(* A packet none of whose frames was lost so far is handed over, or the    *)
(* buffer holds all of it up to the frame that is due next.                *)
RecoveryInv ==
    /\ pc = "scan" /\ ~vcdu.clean => vcdu.n \notin seen
    /\ \A s \in Data :
          s < Limit /\ SeenSoFar(s) =>
             \/ s \in Good(Handed)
             \/ /\ After(s) >= Base(next)
                /\ pc = "scan" => at = ZoneLen
                /\ lastSDU = [from |-> s, len |-> Base(next) - s, intact |-> Base(next) - s]

(* Frames the parser remembers, and where their counters come from. *)
CounterInv ==
    /\ lastVCDU # Nil => lastVCDU.n < next
    /\ \A v \in {lastVCDU, vcdu} \ {Nil} : v.clean => v.counter = v.n % CounterMod

(* The buffer holds what was sent of a packet before the frame that is due. *)
Whole ==
    /\ lastSDU.from \in Start
    /\ lastSDU.from < Base(next) /\ Base(next) <= After(lastSDU.from)
    /\ lastSDU.len = Base(next) - lastSDU.from
    /\ lastSDU.intact = lastSDU.len
Spoilt == lastSDU.len > 0 /\ ~Whole

(* A buffer that a loss has spoilt is the bad SDU still to come. *)
SpliceInv ==
    damaged = {} =>
        /\ pc = "scan" => vcdu.clean
        /\ next > 0 => next - 1 \in seen
        /\ lastSDU.len > 0 => next > 0
        /\ Cardinality(Bad(Handed)) + (IF Spoilt THEN 1 ELSE 0) <= Cardinality(Gaps)
=============================================================================
