---------------------------- MODULE DemuxProofs ----------------------------
(***************************************************************************)
(* Proofs about Demux, for every zone and header length, every counter     *)
(* modulus and every packet stream: its types, that every reachable state  *)
(* continues the walk through the zones, and, provided the link repeats no *)
(* frame, that it implements SduStream.                                    *)
(***************************************************************************)
EXTENDS Demux, TLAPS, SequenceTheorems, NaturalsInduction, WellFoundedInduction

(* Counter arithmetic: the distance is a reading that leads from a to b. *)
THEOREM CounterDiffCorrect ==
    ASSUME NEW div \in Nat \ {0}, NEW a \in 0..div-1, NEW b \in 0..div-1
    PROVE  /\ CounterDiff(div, a, b) \in 0..div-1
           /\ \/ a + CounterDiff(div, a, b) = b
              \/ a + CounterDiff(div, a, b) = b + div
           /\ CounterDiff(div, a, b) = 0 <=> a = b
BY DEF CounterDiff
-----------------------------------------------------------------------------
(* Frames tile the stream. *)
LEMMA BaseType ==
    ASSUME NEW n \in Nat
    PROVE  Base(n) \in Nat /\ Base(n + 1) = Base(n) + ZoneLen
BY DemuxAssumption DEF Base

(* A frame starts no earlier than an earlier one ends. *)
LEMMA BaseOrder ==
    ASSUME NEW m \in Nat, NEW n \in Nat, m < n
    PROVE  Base(m) + ZoneLen <= Base(n)
<1> DEFINE k == n - (m + 1)
<1>1. k \in Nat /\ n = m + 1 + k
  OBVIOUS
<1>2. ZoneLen \in Nat
  BY DemuxAssumption
<1>3. k * ZoneLen \in Nat
  BY <1>1, <1>2
<1>4. (m + 1 + k) * ZoneLen = m * ZoneLen + ZoneLen + k * ZoneLen
  BY <1>1, <1>2
<1> QED
  BY <1>1, <1>2, <1>3, <1>4 DEF Base

(* A number below the modulus is its own remainder. *)
LEMMA SmallRemainder ==
    ASSUME NEW m \in Nat \ {0}, NEW a \in Nat, a < m
    PROVE  a % m = a
OBVIOUS

(* A set of naturals that is not empty has a least element. *)
LEMMA LeastElement ==
    ASSUME NEW S, S \subseteq Nat, S # {}
    PROVE  \E x \in S : \A y \in S : x <= y
<1> DEFINE R == OpToRel(<, Nat)
<1>1. IsWellFoundedOn(R, Nat)
  BY NatLessThanWellFounded, Zenon
<1>2. \A x, y \in Nat : y < x => <<y, x>> \in R
  BY Zenon DEF OpToRel
<1> HIDE DEF R
<1>3. PICK x \in S : \A y \in S : ~(<<y, x>> \in R)
  BY <1>1, WFMin
<1>4. x \in Nat /\ \A y \in S : y \in Nat /\ ~(y < x)
  BY <1>2, <1>3
<1> QED
  BY <1>4
-----------------------------------------------------------------------------
(* The link: every frame it delivers is a frame, and the pointer of an     *)
(* undamaged one leads to the first packet header of its zone.             *)

(* FirstHeader(n), the first-header pointer of frame n, is the offset of *)
(* the first packet header in n's zone, or NoHeader.                     *)
LEMMA FirstHeaderFacts ==
    ASSUME IsLayout(stream), NEW n \in Nat
    PROVE  /\ FirstHeader(n) \in 0..NoHeader
           /\ FirstHeader(n) < ZoneLen =>
                 /\ Base(n) + FirstHeader(n) \in Start
                 /\ \A s \in HeadersIn(n) : Base(n) + FirstHeader(n) <= s
           /\ FirstHeader(n) >= ZoneLen => FirstHeader(n) = NoHeader /\ HeadersIn(n) = {}
<1> DEFINE H == HeadersIn(n)
           m == CHOOSE s \in H : \A t \in H : s <= t
<1>1. H \subseteq Nat /\ \A s \in H : s \in Start /\ Base(n) <= s /\ s < Base(n) + ZoneLen
  BY DEF HeadersIn, Start, IsLayout
<1>2. CASE H = {}
  BY <1>2, DemuxAssumption DEF FirstHeader
<1>3. CASE H # {}
  <2>1. \E s \in H : \A t \in H : s <= t
    BY <1>1, <1>3, LeastElement
  <2>2. m \in H /\ \A t \in H : m <= t
    BY <2>1
  <2>3. FirstHeader(n) = m - Base(n)
    BY <1>3 DEF FirstHeader
  <2> HIDE DEF m, H
  <2>4. Base(n) \in Nat /\ ZoneLen \in Nat /\ NoHeader \in Nat /\ NoHeader >= ZoneLen
    BY BaseType, DemuxAssumption
  <2>5. m \in Nat /\ m \in Start /\ Base(n) <= m /\ m < Base(n) + ZoneLen
    BY <1>1, <2>2
  <2> QED
    BY <2>2, <2>3, <2>4, <2>5 DEF H
<1> QED
  BY <1>2, <1>3

(* What the link delivers as frame n. *)
LEMMA FramesForFacts ==
    ASSUME IsLayout(stream), NEW n \in 0..MaxFrame, NEW v \in FramesFor(n)
    PROVE  /\ v \in Frame
           /\ v.n = n
           /\ v.clean => v.fhp = FirstHeader(n)
<1>1. CASE v = CleanFrame(n)
  <2>1. n % CounterMod \in 0..CounterMod-1
    BY DemuxAssumption
  <2>2. n \in Nat
    BY DemuxAssumption
  <2>3. FirstHeader(n) \in 0..NoHeader
    BY <2>2, FirstHeaderFacts
  <2> QED
    BY <1>1, <2>1, <2>3 DEF CleanFrame, Frame
<1>2. CASE v \in DamagedFrames(n)
  BY <1>2 DEF DamagedFrames, Frame
<1> QED
  BY <1>1, <1>2 DEF FramesFor

(* What MakeMSDUHeader reads at a packet header of an undamaged zone. *)
LEMMA HeaderHereFacts ==
    ASSUME IsLayout(stream), vcdu \in Frame, NEW h \in HeaderHere,
           vcdu.clean => Here \in Start
    PROVE  /\ h.plen \in Nat
           /\ vcdu.clean => /\ h.plen = stream.size[Here] - HdrLen
                            /\ h.fill = (Here \in stream.fill)
<1>1. CASE vcdu.clean
  <2>1. /\ stream.size[Here] \in Nat
        /\ stream.size[Here] > HdrLen
        /\ stream.size[Here] < HdrLen + LenMod
    BY <1>1 DEF IsLayout, Start
  <2>2. /\ stream.size[Here] - HdrLen \in Nat
        /\ stream.size[Here] - HdrLen < LenMod
        /\ LenMod \in Nat \ {0}
    BY <2>1, DemuxAssumption
  <2>3. (stream.size[Here] - HdrLen) % LenMod = stream.size[Here] - HdrLen
    BY <2>2, SmallRemainder
  <2>4. h = [fill |-> Here \in stream.fill, plen |-> stream.size[Here] - HdrLen]
    BY <1>1, <2>3 DEF HeaderHere
  <2> QED
    BY <2>2, <2>4
<1>2. CASE ~vcdu.clean
  BY <1>2, DemuxAssumption DEF HeaderHere
<1> QED
  BY <1>1, <1>2

(* Appending octets to lastSDU keeps its origin and never makes more of *)
(* it intact than there is.                                             *)
LEMMA ExtendType ==
    ASSUME NEW buf \in Buffer, NEW pos \in Nat, NEW k \in Nat, NEW clean \in BOOLEAN
    PROVE  /\ Extend(buf, pos, k, clean) \in Buffer
           /\ buf.len > 0 => Extend(buf, pos, k, clean).from = buf.from
           /\ Extend(buf, pos, k, clean).len = buf.len + k
           /\ buf.intact <= buf.len =>
                 Extend(buf, pos, k, clean).intact <= Extend(buf, pos, k, clean).len
BY DEF Extend, Buffer
-----------------------------------------------------------------------------
(* Type correctness.  The slice bounds of the loop also need AlignedScan:  *)
(* only a true header has a PacketLength that is worth trusting.           *)

(* The octets of a buffer make an SDU. *)
LEMMA CarriedType ==
    ASSUME NEW buf \in Buffer
    PROVE  Carried(buf) \in SDU
BY DEF Carried, Buffer, SDU

(* A new assembler (NewTransportAssembler). *)
LEMMA InitTypeOK == Init => TypeOK /\ AlignedScan /\ PartialHasFrame
<1> SUFFICES ASSUME Init PROVE TypeOK /\ AlignedScan /\ PartialHasFrame
  OBVIOUS
<1>1. IsLayout(stream) /\ 0 \in 0..MaxFrame+1 /\ 0 \in 0..ZoneLen
  BY DemuxAssumption DEF Init
<1> QED
  BY <1>1 DEF Init, TypeOK, Empty, Buffer, AlignedScan, PartialHasFrame

(* What an arriving frame does to the link's side of the state. *)
LEMMA ArriveFacts ==
    ASSUME TypeOK, NEW n \in Arrivals, NEW v \in FramesFor(n), Arrive(v)
    PROVE  /\ v \in Frame /\ v.n = n /\ n \in 0..MaxFrame
           /\ v.clean => v.fhp = FirstHeader(n)
           /\ pc = "idle" /\ next' = n + 1 /\ stream' = stream
           /\ next' \in 0..MaxFrame+1
           /\ seen' \subseteq 0..next'-1 /\ damaged' \subseteq 0..next'-1
           /\ report' \in {"ok", "dropped", "duplicate"}
<1>1. IsLayout(stream) /\ next \in 0..MaxFrame+1 /\ seen \subseteq 0..next-1 /\ damaged \subseteq 0..next-1
  BY DEF TypeOK
<1>2. n \in 0..MaxFrame /\ next <= n + 1 /\ MaxFrame \in Nat
  BY <1>1, DemuxAssumption DEF Arrivals
<1>3. v \in Frame /\ v.n = n /\ (v.clean => v.fhp = FirstHeader(n))
  BY <1>1, <1>2, FramesForFacts
<1>4. pc = "idle" /\ next' = n + 1 /\ stream' = stream
  BY <1>3 DEF Arrive
<1>5. seen' \subseteq seen \cup {n} /\ damaged' \subseteq damaged \cup {n}
  BY <1>3 DEF Arrive
<1>6. report' \in {"ok", "dropped", "duplicate"}
  BY DEF Arrive, checkForSkippedVCDU
<1> QED
  BY <1>1, <1>2, <1>3, <1>4, <1>5, <1>6

(* savePartialPacketEnd keeps lastSDU a buffer and its first octet in place. *)
LEMMA PartialEndFacts ==
    ASSUME lastSDU \in Buffer, NEW v \in Frame
    PROVE  savePartialPacketEnd(v) \in Buffer
<1>1. v.n \in Nat /\ v.fhp \in Nat /\ v.clean \in BOOLEAN
  BY DemuxAssumption DEF Frame
<1>2. Base(v.n) \in Nat
  BY <1>1, BaseType
<1> QED
  BY <1>1, <1>2, ExtendType DEF savePartialPacketEnd

(* Where a step of the loop is. *)
LEMMA ScanFacts ==
    ASSUME TypeOK, AlignedScan, Scanning
    PROVE  /\ vcdu \in Frame /\ vcdu.n \in Nat /\ Base(vcdu.n) \in Nat
           /\ at \in Nat /\ Here \in Nat /\ Left \in Nat
           /\ HdrLen \in Nat \ {0} /\ Left > HdrLen /\ Left + at = ZoneLen
           /\ vcdu.clean => Here \in Start
<1>1. pc = "scan" /\ Left > HdrLen /\ HdrLen \in Nat \ {0} /\ ZoneLen \in Nat
  BY DemuxAssumption DEF Scanning
<1>2. vcdu \in Frame /\ at \in 0..ZoneLen
  BY <1>1 DEF TypeOK
<1>3. vcdu.n \in Nat /\ Base(vcdu.n) \in Nat
  BY <1>2, DemuxAssumption, BaseType DEF Frame
<1>4. Left = ZoneLen - at /\ Here = Base(vcdu.n) + at
  BY DEF Left, Here
<1> QED
  BY <1>1, <1>2, <1>3, <1>4 DEF AlignedScan
-----------------------------------------------------------------------------
(* Safe is inductive whatever the link does, repeated frames included.     *)
Safe == TypeOK /\ AlignedScan /\ PartialHasFrame /\ BufferInv

(* Safe is preserved by the part of ParseMSDUs before its loop. *)
LEMMA SafeArrive ==
    ASSUME Safe, NEW n \in Arrivals, NEW v \in FramesFor(n),
           saveContinuationPacket(v) \/ RejectPointer(v) \/ StartScan(v)
    PROVE  Safe'
<1>1. Arrive(v)
  BY DEF saveContinuationPacket, RejectPointer, StartScan
<1>2. /\ v \in Frame /\ v.n = n /\ n \in Nat
      /\ v.clean => v.fhp = FirstHeader(n)
      /\ pc = "idle" /\ next' = n + 1 /\ stream' = stream
      /\ next' \in 0..MaxFrame+1
      /\ seen' \subseteq 0..next'-1 /\ damaged' \subseteq 0..next'-1
      /\ report' \in {"ok", "dropped", "duplicate"}
  BY <1>1, ArriveFacts, DemuxAssumption DEF Safe
<1>3. /\ v.n \in Nat /\ v.fhp \in 0..NoHeader /\ v.clean \in BOOLEAN /\ Base(v.n) \in Nat
      /\ HdrLen \in Nat \ {0} /\ ZoneLen \in Nat /\ v # Nil
  BY <1>2, BaseType, DemuxAssumption DEF Frame
<1>4. /\ IsLayout(stream) /\ lastSDU \in Buffer /\ lastVCDU \in Frame \cup {Nil}
      /\ vcdu = Nil /\ at \in 0..ZoneLen /\ ret \in Seq(SDU) /\ out \in Seq(SDU)
      /\ lastSDU.intact <= lastSDU.len /\ ret = << >>
      /\ lastSDU.len > 0 => lastVCDU # Nil
  BY <1>2 DEF Safe, TypeOK, BufferInv, PartialHasFrame
<1>5. CASE saveContinuationPacket(v)
  <2>1. lastSDU' \in Buffer /\ lastSDU'.intact <= lastSDU'.len
    BY <1>3, <1>4, <1>5, ExtendType DEF saveContinuationPacket
  <2>2. lastVCDU' = v /\ UNCHANGED <<pc, vcdu, at, ret, out>>
    BY <1>5 DEF saveContinuationPacket, parse
  <2> QED
    BY <1>2, <1>3, <1>4, <2>1, <2>2
    DEF Safe, TypeOK, AlignedScan, PartialHasFrame, BufferInv
<1>6. CASE RejectPointer(v)
  <2>1. lastVCDU' = v /\ UNCHANGED <<lastSDU, pc, vcdu, at, ret, out>>
    BY <1>6 DEF RejectPointer, parse
  <2> QED
    BY <1>2, <1>3, <1>4, <2>1
    DEF Safe, TypeOK, AlignedScan, PartialHasFrame, BufferInv
<1>7. CASE StartScan(v)
  <2>1. /\ lastSDU' = Empty /\ vcdu' = v /\ at' = v.fhp /\ pc' = "scan"
        /\ UNCHANGED <<lastVCDU, out>> /\ v.fhp <= ZoneLen - 1
    BY <1>7 DEF StartScan
  <2>2. ret' \in Seq(SDU)
    <3> DEFINE buf == savePartialPacketEnd(v)
    <3>1. Carried(buf) \in SDU
      BY <1>2, <1>4, PartialEndFacts, CarriedType
    <3>2. ret' = <<Carried(buf)>> \/ ret' = << >>
      BY <1>7 DEF StartScan
    <3>3. \A c \in SDU : <<c>> \in Seq(SDU)
      OBVIOUS
    <3>4. << >> \in Seq(SDU)
      OBVIOUS
    <3> QED
      BY <3>1, <3>2, <3>3, <3>4
  <2>3. Empty \in Buffer /\ Empty.intact <= Empty.len /\ at' \in 0..ZoneLen
    BY <1>3, <2>1 DEF Empty, Buffer
  <2>4. AlignedScan'
    <3> SUFFICES ASSUME v.clean PROVE Base(v.n) + v.fhp \in Start
      BY <1>2, <2>1 DEF AlignedScan, Here, Start
    <3>1. FirstHeader(n) < ZoneLen
      BY <1>2, <1>3, <2>1
    <3> QED
      BY <1>2, <1>4, <3>1, FirstHeaderFacts
  <2> QED
    BY <1>2, <1>3, <1>4, <2>1, <2>2, <2>3, <2>4
    DEF Safe, TypeOK, PartialHasFrame, BufferInv
<1> QED
  BY <1>5, <1>6, <1>7

(* A whole packet is stepped over: the next one starts right behind it.    *)
LEMMA StepOver ==
    ASSUME Safe, Scanning, NEW h \in HeaderHere, Fits(h),
           at' = at + HdrLen + h.plen, UNCHANGED <<stream, pc, vcdu>>
    PROVE  /\ at' \in 0..ZoneLen
           /\ AlignedScan'
           /\ vcdu.clean => Here' = After(Here)
<1>1. TypeOK /\ AlignedScan /\ IsLayout(stream)
  BY DEF Safe, TypeOK
<1>2. /\ vcdu \in Frame /\ vcdu.n \in Nat /\ Base(vcdu.n) \in Nat
      /\ at \in Nat /\ Here \in Nat /\ Left \in Nat
      /\ HdrLen \in Nat \ {0} /\ Left > HdrLen /\ Left + at = ZoneLen
      /\ vcdu.clean => Here \in Start
  BY <1>1, ScanFacts
<1>3. /\ h.plen \in Nat
      /\ vcdu.clean => h.plen = stream.size[Here] - HdrLen
  BY <1>1, <1>2, HeaderHereFacts
<1>4. at' \in 0..ZoneLen /\ Left' = ZoneLen - at'
  BY <1>2, <1>3 DEF Fits, Left
<1>5. Here' = Here + HdrLen + h.plen
  BY <1>2, <1>3 DEF Here
<1>6. ASSUME vcdu.clean
      PROVE  Here' = After(Here) /\ (at' < ZoneLen => Here' \in Start)
  <2>1. Here \in Start /\ stream.size[Here] \in Nat /\ stream.size[Here] > HdrLen
    BY <1>1, <1>2, <1>6 DEF IsLayout, Start
  <2>2. Here' = After(Here)
    BY <1>2, <1>3, <1>5, <1>6, <2>1 DEF After
  <2>3. vcdu.n < MaxFrame + 1 /\ MaxFrame + 1 \in Nat
    BY <1>2, DemuxAssumption DEF Frame
  <2>4. Base(vcdu.n) + ZoneLen <= Base(MaxFrame + 1)
    BY <1>2, <2>3, BaseOrder
  <2>5. Base(MaxFrame + 1) \in Nat /\ ZoneLen \in Nat
    BY <2>3, BaseType, DemuxAssumption
  <2>6. Here' = Base(vcdu.n) + at'
    BY DEF Here
  <2>7. at' < ZoneLen => After(Here) < Base(MaxFrame + 1)
    BY <1>2, <1>4, <2>2, <2>4, <2>5, <2>6
  <2>8. After(Here) < Base(MaxFrame + 1) => After(Here) \in Start
    BY <1>1, <2>1 DEF IsLayout, Start, After
  <2> QED
    BY <2>2, <2>7, <2>8
<1> QED
  BY <1>4, <1>6, DemuxAssumption DEF AlignedScan, Start

(* Safe is preserved by every turn of ParseMSDUs' loop. *)
LEMMA SafeLoop ==
    ASSUME Safe, Scanning, NEW h \in HeaderHere,
           SkipFill(h) \/ FillPastEnd(h) \/ SavePartial(h) \/ TakePacket(h)
    PROVE  Safe'
<1>1. /\ IsLayout(stream) /\ next \in 0..MaxFrame+1 /\ seen \subseteq 0..next-1
      /\ damaged \subseteq 0..next-1 /\ lastSDU \in Buffer
      /\ lastVCDU \in Frame \cup {Nil} /\ report \in {"ok", "dropped", "duplicate"}
      /\ pc = "scan" /\ ret \in Seq(SDU) /\ out \in Seq(SDU)
      /\ TypeOK /\ AlignedScan /\ next = vcdu.n + 1
  BY DEF Safe, TypeOK, BufferInv, Scanning
<1>2. /\ vcdu \in Frame /\ vcdu.n \in Nat /\ Base(vcdu.n) \in Nat
      /\ at \in Nat /\ Here \in Nat /\ Left \in Nat
      /\ HdrLen \in Nat \ {0} /\ Left > HdrLen /\ Left + at = ZoneLen
      /\ vcdu.clean => Here \in Start
  BY <1>1, ScanFacts
<1>3. UNCHANGED <<stream, next, seen, damaged, report, pc, vcdu, out>>
  BY DEF SkipFill, FillPastEnd, SavePartial, TakePacket, link
<1>4. at < ZoneLen /\ lastSDU = Empty
  BY <1>1, <1>2, DemuxAssumption DEF Safe, BufferInv
<1>5. ZoneLen \in 0..ZoneLen /\ vcdu.clean \in BOOLEAN /\ Empty.intact <= Empty.len
  BY <1>2, DemuxAssumption DEF Frame, Empty
<1>6. CASE SkipFill(h) \/ TakePacket(h)
  <2>1. Fits(h) /\ at' = at + HdrLen + h.plen /\ UNCHANGED <<lastSDU, lastVCDU>>
    BY <1>6 DEF SkipFill, TakePacket
  <2>2. at' \in 0..ZoneLen /\ AlignedScan'
    BY <1>3, <2>1, StepOver
  <2>3. ret' \in Seq(SDU)
    <3> DEFINE x == [from |-> Here, good |-> vcdu.clean]
    <3>1. x \in SDU
      BY <1>2, <1>5 DEF SDU
    <3>2. ret' = ret \/ ret' = Append(ret, x)
      BY <1>6 DEF SkipFill, TakePacket
    <3> HIDE DEF x
    <3> QED
      BY <1>1, <3>1, <3>2, AppendProperties
  <2> QED
    BY <1>1, <1>2, <1>3, <1>4, <1>5, <2>1, <2>2, <2>3
    DEF Safe, TypeOK, PartialHasFrame, BufferInv
<1>7. CASE FillPastEnd(h)
  <2>1. at' = ZoneLen /\ lastVCDU' = vcdu /\ UNCHANGED <<lastSDU, ret>>
    BY <1>7 DEF FillPastEnd
  <2>2. AlignedScan'
    BY <2>1, DemuxAssumption DEF AlignedScan, Left
  <2> QED
    BY <1>1, <1>2, <1>3, <1>4, <1>5, <2>1, <2>2
    DEF Safe, TypeOK, PartialHasFrame, BufferInv
<1>8. CASE SavePartial(h)
  <2>1. /\ at' = ZoneLen /\ UNCHANGED <<lastVCDU, ret>>
        /\ lastSDU' = Extend(lastSDU, Here, Left, vcdu.clean)
    BY <1>8 DEF SavePartial
  <2>2. AlignedScan'
    BY <2>1, DemuxAssumption DEF AlignedScan, Left
  <2>3. lastSDU' \in Buffer /\ lastSDU'.intact <= lastSDU'.len
    BY <1>1, <1>2, <1>4, <1>5, <2>1, ExtendType
  <2>4. ~(at' < ZoneLen)
    BY <2>1, DemuxAssumption
  <2> QED
    BY <1>1, <1>2, <1>3, <1>5, <2>1, <2>2, <2>3, <2>4
    DEF Safe, TypeOK, PartialHasFrame, BufferInv
<1> QED
  BY <1>6, <1>7, <1>8

(* Safe is preserved by the end of ParseMSDUs. *)
LEMMA SafeEnd ==
    ASSUME Safe, EndScan
    PROVE  Safe'
<1>1. /\ IsLayout(stream) /\ next \in 0..MaxFrame+1 /\ seen \subseteq 0..next-1
      /\ damaged \subseteq 0..next-1 /\ lastSDU \in Buffer
      /\ report \in {"ok", "dropped", "duplicate"}
      /\ vcdu \in Frame /\ at \in 0..ZoneLen /\ ret \in Seq(SDU) /\ out \in Seq(SDU)
      /\ lastSDU.intact <= lastSDU.len
  BY DEF Safe, TypeOK, BufferInv, EndScan
<1>2. /\ out' = out \o ret /\ ret' = << >> /\ pc' = "idle" /\ at' = 0 /\ vcdu' = Nil
      /\ lastVCDU' = vcdu
      /\ UNCHANGED <<stream, next, seen, damaged, report>>
  BY DEF EndScan, link
<1>3. /\ vcdu.n \in Nat /\ vcdu.clean \in BOOLEAN /\ Base(vcdu.n) \in Nat /\ vcdu # Nil
      /\ ZoneLen \in Nat
  <2>1. vcdu # Nil
    BY <1>1, DemuxAssumption
  <2>2. vcdu.n \in Nat /\ vcdu.clean \in BOOLEAN /\ ZoneLen \in Nat
    BY <1>1, DemuxAssumption DEF Frame
  <2> QED
    BY <2>1, <2>2, BaseType
<1>4. Here \in Nat /\ Left \in Nat
  BY <1>1, <1>3 DEF Here, Left
<1>5. lastSDU' \in Buffer /\ lastSDU'.intact <= lastSDU'.len
  BY <1>1, <1>3, <1>4, ExtendType DEF EndScan
<1>6. out' \in Seq(SDU) /\ ret' \in Seq(SDU) /\ at' \in 0..ZoneLen
  BY <1>1, <1>2, <1>3, ConcatProperties
<1> QED
  BY <1>1, <1>2, <1>3, <1>5, <1>6
  DEF Safe, TypeOK, PartialHasFrame, AlignedScan, BufferInv

(***************************************************************************)
(* Type correctness, packet alignment and the nil check that is not there: *)
(* whatever is lost, damaged or repeated, ParseMSDUs' slices stay inside   *)
(* the zone and start at packet headers, and t.lastVCDU is set whenever    *)
(* its fields are read.                                                    *)
(***************************************************************************)
THEOREM SafeInvariant == Spec => []Safe
<1>1. Init => Safe
  <2> SUFFICES ASSUME Init PROVE Safe
    OBVIOUS
  <2>1. TypeOK /\ AlignedScan /\ PartialHasFrame
    BY InitTypeOK
  <2>2. BufferInv
    BY DEF Init, BufferInv, Empty
  <2> QED
    BY <2>1, <2>2 DEF Safe
<1>2. Safe /\ [Next]_vars => Safe'
  <2> SUFFICES ASSUME Safe, [Next]_vars PROVE Safe'
    OBVIOUS
  <2>1. ASSUME NEW n \in Arrivals, NEW v \in FramesFor(n),
               saveContinuationPacket(v) \/ RejectPointer(v) \/ StartScan(v)
        PROVE  Safe'
    BY <2>1, SafeArrive
  <2>2. ASSUME Scanning, NEW h \in HeaderHere,
               SkipFill(h) \/ FillPastEnd(h) \/ SavePartial(h) \/ TakePacket(h)
        PROVE  Safe'
    BY <2>2, SafeLoop
  <2>3. CASE EndScan
    BY <2>3, SafeEnd
  <2>4. CASE UNCHANGED vars
    BY <2>4 DEF vars, link, parse, Safe, TypeOK, AlignedScan, PartialHasFrame, BufferInv,
                Here, Left, Start
  <2> QED
    BY <2>1, <2>2, <2>3, <2>4 DEF Next
<1> QED
  BY <1>1, <1>2, PTL DEF Spec

(* Type correctness: the slices ParseMSDUs cuts have lengths that are not *)
(* negative, and its read position stays inside the zone.                 *)
THEOREM TypeCorrect == Spec => []TypeOK
BY SafeInvariant, PTL DEF Safe

(* In an undamaged frame ParseMSDUs' loop always stands at a packet header. *)
THEOREM Aligned == Spec => []AlignedScan
BY SafeInvariant, PTL DEF Safe

(* ParseMSDUs never reads the header of a last frame it does not have. *)
THEOREM NoNilFrame == Spec => []PartialHasFrame
BY SafeInvariant, PTL DEF Safe

-----------------------------------------------------------------------------
(* Demux implements SduStream, provided the link repeats no frame.         *)

(* The good SDUs of a sequence that grows at its end. *)
LEMMA HandedAppend ==
    ASSUME NEW p \in Seq(SDU), NEW q \in Seq(SDU), NEW x \in SDU
    PROVE  p \o Append(q, x) = Append(p \o q, x)
<1>1. Append(q, x) \in Seq(SDU) /\ Len(Append(q, x)) = Len(q) + 1
  BY AppendProperties
<1>2. p \o q \in Seq(SDU) /\ Len(p \o q) = Len(p) + Len(q)
  BY ConcatProperties
<1>3. p \o Append(q, x) \in Seq(SDU) /\ Append(p \o q, x) \in Seq(SDU)
  BY <1>1, <1>2, ConcatProperties, AppendProperties
<1>4. Len(p) \in Nat /\ Len(q) \in Nat
  BY LenProperties
<1>5. Len(p \o Append(q, x)) = Len(p) + Len(q) + 1 /\ Len(Append(p \o q, x)) = Len(p) + Len(q) + 1
  BY <1>1, <1>2, <1>4, ConcatProperties, AppendProperties
<1>6. ASSUME NEW i \in 1..Len(p) + Len(q) + 1
      PROVE  (p \o Append(q, x))[i] = Append(p \o q, x)[i]
  <2>1. (p \o Append(q, x))[i] = IF i <= Len(p) THEN p[i] ELSE Append(q, x)[i - Len(p)]
    <3>1. i \in 1..Len(p) + Len(Append(q, x))
      BY <1>1, <1>4
    <3>2. \A r \in Seq(SDU) : \A k \in 1..Len(p) + Len(r) :
             (p \o r)[k] = IF k <= Len(p) THEN p[k] ELSE r[k - Len(p)]
      BY ConcatProperties
    <3> QED
      BY <1>1, <3>1, <3>2
  <2>2. Append(p \o q, x)[i] = IF i <= Len(p) + Len(q) THEN (p \o q)[i] ELSE x
    BY <1>2, <1>4, <1>6, AppendProperties
  <2>3. i <= Len(p) + Len(q) => (p \o q)[i] = IF i <= Len(p) THEN p[i] ELSE q[i - Len(p)]
    BY <1>4, <1>6, ConcatProperties
  <2>4. i > Len(p) => Append(q, x)[i - Len(p)] =
                        IF i <= Len(p) + Len(q) THEN q[i - Len(p)] ELSE x
    BY <1>4, <1>6, AppendProperties
  <2> QED
    BY <1>4, <1>6, <2>1, <2>2, <2>3, <2>4
<1> QED
  BY <1>3, <1>5, <1>6, SeqEqual

(* The good SDUs of a sequence with one more SDU. *)
LEMMA GoodAppend ==
    ASSUME NEW q \in Seq(SDU), NEW x \in SDU
    PROVE  Good(Append(q, x)) = Good(q) \cup (IF x.good THEN {x.from} ELSE {})
<1>1. /\ Len(q) \in Nat /\ DOMAIN q = 1..Len(q)
      /\ \A i \in 1..Len(q) : q[i] \in SDU
  BY LenProperties, ElementOfSeq
<1>2. /\ DOMAIN Append(q, x) = 1..Len(q)+1
      /\ \A i \in 1..Len(q) : Append(q, x)[i] = q[i]
      /\ Append(q, x)[Len(q)+1] = x
  BY <1>1, AppendProperties, LenProperties
<1> HIDE DEF SDU
<1> QED
  BY <1>1, <1>2 DEF Good, SDU

(* Good SDUs are named by stream offsets. *)
LEMMA GoodType ==
    ASSUME NEW q \in Seq(SDU)
    PROVE  Good(q) \subseteq Nat
<1>1. DOMAIN q = 1..Len(q) /\ \A i \in 1..Len(q) : q[i] \in SDU
  BY LenProperties, ElementOfSeq
<1> QED
  BY <1>1 DEF Good, SDU

(* A sequence in order stays so when a later packet, or a bad SDU, joins. *)
LEMMA InOrderAppend ==
    ASSUME NEW q \in Seq(SDU), NEW x \in SDU, Stream!InOrder(q),
           x.good => x.from \in Data /\ \A s \in Good(q) : s < x.from
    PROVE  Stream!InOrder(Append(q, x))
<1>1. /\ Len(q) \in Nat /\ DOMAIN q = 1..Len(q)
      /\ DOMAIN Append(q, x) = 1..Len(q)+1
      /\ \A i \in 1..Len(q) : Append(q, x)[i] = q[i]
      /\ Append(q, x)[Len(q)+1] = x
  BY AppendProperties, LenProperties
<1>2. \A i \in 1..Len(q) : q[i].good => q[i].from \in Good(q)
  BY <1>1 DEF Good
<1> QED
  BY <1>1, <1>2 DEF Stream!InOrder
-----------------------------------------------------------------------------
(* Where the parser stands after an arrival, if no frame is repeated. *)
LEMMA ArriveLimit ==
    ASSUME Repeats = FALSE, Safe, NEW n \in Arrivals, NEW v \in FramesFor(n), Arrive(v)
    PROVE  /\ n \in Nat /\ next \in Nat /\ next <= n
           /\ Base(n) \in Nat /\ Base(next) \in Nat /\ ZoneLen \in Nat
           /\ Base(next) <= Base(n)
           /\ Base(n + 1) = Base(n) + ZoneLen
           /\ next < n => Base(next + 1) <= Base(n)
           /\ Limit = Base(next) /\ Handed = out
<1>1. n \in Nat /\ next \in Nat /\ next <= n /\ pc = "idle" /\ out \in Seq(SDU) /\ ret = << >>
  BY DemuxAssumption DEF Safe, TypeOK, BufferInv, Arrivals, Arrive
<1>2. ZoneLen \in Nat /\ Base(n) \in Nat /\ Base(next) \in Nat /\ Base(n + 1) = Base(n) + ZoneLen
      /\ Base(next + 1) = Base(next) + ZoneLen
  BY <1>1, BaseType, DemuxAssumption
<1>3. next < n => Base(next) + ZoneLen <= Base(n)
  BY <1>1, BaseOrder
<1>4. Base(next) <= Base(n)
  <2>1. CASE next = n
    BY <2>1, <1>2
  <2>2. CASE next < n
    BY <2>2, <1>2, <1>3
  <2> QED
    BY <1>1, <2>1, <2>2
<1>5. Limit = Base(next)
  BY <1>1 DEF Limit
<1>6. Handed = out
  BY <1>1, ConcatEmptySeq DEF Handed
<1> QED
  BY <1>1, <1>2, <1>3, <1>4, <1>5, <1>6

(* The octets savePartialPacketEnd appends do not change where the buffer *)
(* comes from.                                                            *)
LEMMA PartialEndOrigin ==
    ASSUME Safe, NEW v \in Frame
    PROVE  LET buf == savePartialPacketEnd(v) IN
           /\ buf \in Buffer
           /\ buf.intact > 0 => lastSDU.intact > 0 /\ buf.from = lastSDU.from
<1>1. lastSDU \in Buffer /\ lastSDU.intact <= lastSDU.len
  BY DEF Safe, TypeOK, BufferInv
<1>2. v.fhp \in Nat /\ v.n \in Nat
  BY DemuxAssumption DEF Frame
<1>3. savePartialPacketEnd(v) \in Buffer
  BY <1>1, PartialEndFacts
<1>4. CASE v.fhp > 0 /\ lastSDU.len > 0
  <2>1. savePartialPacketEnd(v) = Extend(lastSDU, Base(v.n), v.fhp, v.clean)
    BY <1>4 DEF savePartialPacketEnd
  <2> QED
    BY <1>1, <1>2, <1>3, <1>4, <2>1 DEF Extend, Buffer
<1>5. CASE ~(v.fhp > 0 /\ lastSDU.len > 0)
  <2>1. savePartialPacketEnd(v) = lastSDU
    BY <1>5 DEF savePartialPacketEnd
  <2> QED
    BY <1>3, <2>1
<1> QED
  BY <1>4, <1>5

(* An SDU made of the buffer is good only if the buffer began as one. *)
LEMMA CarriedOrigin ==
    ASSUME Safe, NEW v \in Frame,
           LET buf == savePartialPacketEnd(v) IN
              buf.len > HdrLen /\ \E fill \in ReadsAsFill(buf) : ~fill
    PROVE  LET x == Carried(savePartialPacketEnd(v)) IN
           /\ x \in SDU
           /\ x.good => lastSDU.intact > 0 /\ x.from = lastSDU.from /\ x.from \in Data
<1> DEFINE buf == savePartialPacketEnd(v)
           x == Carried(buf)
<1>1. buf \in Buffer /\ (buf.intact > 0 => lastSDU.intact > 0 /\ buf.from = lastSDU.from)
  BY PartialEndOrigin
<1>2. buf.len > HdrLen /\ (\E fill \in ReadsAsFill(buf) : ~fill) /\ HdrLen \in Nat \ {0}
  BY DemuxAssumption
<1>3. x = [from |-> buf.from,
           good |-> buf.intact = buf.len /\ buf.from \in Start
                    /\ buf.len = stream.size[buf.from]]
  BY DEF Carried
<1> HIDE DEF buf, x
<1>4. x \in SDU
  BY <1>1, <1>3 DEF SDU, Buffer
<1>5. ASSUME x.good
      PROVE  lastSDU.intact > 0 /\ x.from = lastSDU.from /\ x.from \in Data
  <2>1. buf.intact = buf.len /\ buf.from \in Start /\ x.from = buf.from
    BY <1>3, <1>5
  <2>2. buf.intact > 0 /\ buf.intact >= HdrLen
    BY <1>1, <1>2, <2>1 DEF Buffer
  <2>3. buf.from \notin stream.fill
    BY <1>2, <2>2 DEF ReadsAsFill
  <2> QED
    BY <1>1, <2>1, <2>2, <2>3 DEF Data
<1> QED
  BY <1>4, <1>5 DEF buf, x
-----------------------------------------------------------------------------
(* Good SDUs are handed over in order. *)

(* At most one SDU joins those handed over, behind all of them. *)
Joins(x) ==
    /\ x \in SDU
    /\ Handed' = Append(Handed, x)
    /\ x.good => /\ x.from \in Data
                 /\ x.from < Limit'
                 /\ \A s \in Good(Handed) : s < x.from

(* The part of OrderInv about SDUs survives a step that hands over nothing, *)
(* or one SDU that Joins.                                                   *)
LEMMA OrderKept ==
    ASSUME Safe, OrderInv, stream' = stream, Limit \in Nat, Limit' \in Nat, Limit <= Limit',
           Handed' = Handed \/ \E x : Joins(x)
    PROVE  /\ Stream!InOrder(Handed)'
           /\ \A s \in Good(Handed') : s < Limit'
           /\ Handed' = Handed => Good(Handed') = Good(Handed)
<1>1. Handed \in Seq(SDU)
  BY ConcatProperties DEF Handed, Safe, TypeOK
<1>2. Stream!InOrder(Handed) /\ \A s \in Good(Handed) : s < Limit /\ s \in Nat
  BY <1>1, GoodType DEF OrderInv
<1>3. Stream!InOrder(Handed)' <=> Stream!InOrder(Handed')
  BY DEF Stream!InOrder, Data, Start
<1>4. CASE Handed' = Handed
  BY <1>2, <1>3, <1>4
<1>5. ASSUME NEW x, Joins(x)
      PROVE  Stream!InOrder(Handed') /\ \A s \in Good(Handed') : s < Limit'
  <2>1. Stream!InOrder(Handed')
    BY <1>1, <1>2, <1>5, InOrderAppend DEF Joins
  <2>2. Good(Handed') = Good(Handed) \cup (IF x.good THEN {x.from} ELSE {})
    BY <1>1, <1>5, GoodAppend DEF Joins
  <2> QED
    BY <1>2, <1>5, <2>1, <2>2 DEF Joins
<1> QED
  BY <1>3, <1>4, <1>5

(* OrderInv is preserved by the part of ParseMSDUs before its loop. *)
LEMMA OrderArrive ==
    ASSUME Repeats = FALSE, Safe, OrderInv, NEW n \in Arrivals, NEW v \in FramesFor(n),
           saveContinuationPacket(v) \/ RejectPointer(v) \/ StartScan(v)
    PROVE  OrderInv'
<1>1. Arrive(v)
  BY DEF saveContinuationPacket, RejectPointer, StartScan
<1>2. /\ n \in Nat /\ Base(n) \in Nat /\ Base(next) \in Nat /\ ZoneLen \in Nat
      /\ Base(next) <= Base(n) /\ Base(n + 1) = Base(n) + ZoneLen
      /\ Limit = Base(next) /\ Handed = out
  BY <1>1, ArriveLimit
<1>3. v \in Frame /\ v.n = n /\ pc = "idle" /\ next' = n + 1 /\ stream' = stream
  BY <1>1, ArriveFacts DEF Safe
<1>4. /\ lastSDU \in Buffer /\ lastSDU.intact <= lastSDU.len /\ ret = << >>
      /\ out \in Seq(SDU) /\ v.fhp \in Nat /\ v.clean \in BOOLEAN
  BY <1>3, DemuxAssumption DEF Safe, TypeOK, BufferInv, Frame
<1>5. /\ lastSDU.intact > 0 =>
           lastSDU.from < Base(next) /\ \A s \in Good(out) : s < lastSDU.from
  BY <1>2 DEF OrderInv
<1>6. CASE saveContinuationPacket(v) \/ RejectPointer(v)
  <2>1. UNCHANGED <<pc, ret, out>>
    BY <1>6 DEF saveContinuationPacket, RejectPointer, parse
  <2>2. Limit' = Base(n) + ZoneLen /\ Handed' = Handed
    BY <1>2, <1>3, <2>1 DEF Limit, Handed
  <2>3. lastSDU'.intact > 0 => lastSDU.intact > 0 /\ lastSDU'.from = lastSDU.from
    BY <1>2, <1>3, <1>4, <1>6
    DEF saveContinuationPacket, RejectPointer, Extend, Buffer
  <2>4. /\ Stream!InOrder(Handed)' /\ Good(Handed') = Good(Handed)
        /\ \A s \in Good(Handed') : s < Limit'
    BY <1>2, <1>3, <2>2, OrderKept
  <2>5. lastSDU'.intact > 0 => lastSDU'.from < Limit'
    BY <1>2, <1>4, <1>5, <2>2, <2>3 DEF Buffer
  <2> QED
    BY <1>2, <1>5, <2>3, <2>4, <2>5 DEF OrderInv, Good
<1>7. CASE StartScan(v)
  <2> DEFINE buf == savePartialPacketEnd(v)
             x == Carried(buf)
  <2>1. /\ lastSDU' = Empty /\ vcdu' = v /\ at' = v.fhp /\ pc' = "scan"
        /\ out' = out /\ v.fhp <= ZoneLen - 1
    BY <1>7 DEF StartScan
  <2>2. Limit' \in Nat /\ Base(n) <= Limit'
    <3>1. Limit' = IF v.clean THEN Base(n) + v.fhp ELSE Base(n + 1)
      BY <1>3, <2>1 DEF Limit, Here
    <3> QED
      BY <1>2, <1>4, <3>1
  <2>3. CASE ret' = << >>
    <3>1. Handed' = Handed
      BY <1>4, <2>1, <2>3 DEF Handed
    <3> QED
      BY <1>2, <1>3, <2>1, <2>2, <3>1, OrderKept DEF OrderInv, Empty
  <2>4. CASE ret' # << >>
    <3>1. ret' = <<x>> /\ buf.len > HdrLen /\ \E fill \in ReadsAsFill(buf) : ~fill
      BY <1>7, <2>4 DEF StartScan
    <3>2. x \in SDU /\ (x.good => lastSDU.intact > 0 /\ x.from = lastSDU.from /\ x.from \in Data)
      BY <1>3, <3>1, CarriedOrigin
    <3> HIDE DEF x
    <3>3. Handed' = Append(Handed, x)
      BY <1>2, <1>4, <2>1, <3>1, <3>2 DEF Handed
    <3>4. x.good => x.from < Limit'
      BY <1>2, <1>4, <1>5, <2>2, <3>2 DEF Buffer
    <3>5. Joins(x)
      BY <1>2, <1>5, <3>2, <3>3, <3>4 DEF Joins
    <3> QED
      BY <1>2, <1>3, <2>1, <2>2, <3>5, OrderKept DEF OrderInv, Empty
  <2> QED
    BY <2>3, <2>4
<1> QED
  BY <1>6, <1>7

(* Where the parser stands inside the loop, before and after a step of it. *)
LEMMA ScanLimit ==
    ASSUME Safe, pc = "scan"
    PROVE  /\ vcdu \in Frame /\ vcdu.n \in Nat /\ vcdu.clean \in BOOLEAN
           /\ Base(vcdu.n) \in Nat /\ ZoneLen \in Nat
           /\ next = vcdu.n + 1 /\ Base(next) = Base(vcdu.n) + ZoneLen
           /\ at \in 0..ZoneLen /\ Here = Base(vcdu.n) + at /\ Left = ZoneLen - at
           /\ Limit = (IF vcdu.clean THEN Here ELSE Base(next))
           /\ Limit \in Nat /\ Limit <= Base(next)
<1>1. vcdu \in Frame /\ at \in 0..ZoneLen /\ next = vcdu.n + 1
  BY DEF Safe, TypeOK, BufferInv
<1>2. vcdu.n \in Nat /\ vcdu.clean \in BOOLEAN /\ ZoneLen \in Nat
  BY <1>1, DemuxAssumption DEF Frame
<1>3. Base(vcdu.n) \in Nat /\ Base(next) = Base(vcdu.n) + ZoneLen
  BY <1>1, <1>2, BaseType
<1>4. Here = Base(vcdu.n) + at /\ Left = ZoneLen - at
  BY DEF Here, Left
<1>5. Limit = (IF vcdu.clean THEN Here ELSE Base(next))
  BY DEF Limit
<1> QED
  BY <1>1, <1>2, <1>3, <1>4, <1>5

(* OrderInv is preserved by every turn of ParseMSDUs' loop. *)
LEMMA OrderLoop ==
    ASSUME Safe, OrderInv, Scanning, NEW h \in HeaderHere,
           SkipFill(h) \/ FillPastEnd(h) \/ SavePartial(h) \/ TakePacket(h)
    PROVE  OrderInv'
<1>1. /\ pc = "scan" /\ Left > HdrLen /\ HdrLen \in Nat \ {0}
      /\ UNCHANGED <<stream, next, pc, vcdu, out>>
      /\ TypeOK /\ AlignedScan /\ IsLayout(stream) /\ out \in Seq(SDU) /\ ret \in Seq(SDU)
  BY DemuxAssumption
  DEF Scanning, SkipFill, FillPastEnd, SavePartial, TakePacket, link, Safe, TypeOK
<1>2. /\ vcdu \in Frame /\ vcdu.n \in Nat /\ vcdu.clean \in BOOLEAN
      /\ Base(vcdu.n) \in Nat /\ ZoneLen \in Nat
      /\ next = vcdu.n + 1 /\ Base(next) = Base(vcdu.n) + ZoneLen
      /\ at \in 0..ZoneLen /\ Here = Base(vcdu.n) + at /\ Left = ZoneLen - at
      /\ Limit = (IF vcdu.clean THEN Here ELSE Base(next))
      /\ Limit \in Nat /\ Limit <= Base(next)
  BY <1>1, ScanLimit
<1>3. vcdu.clean => Here \in Start
  BY <1>1, ScanFacts
<1>4. Safe' /\ pc' = "scan"
  BY <1>1, SafeLoop
<1>5. /\ at' \in 0..ZoneLen /\ Here' = Base(vcdu.n) + at' /\ Base(next') = Base(next)
      /\ Limit' = (IF vcdu.clean THEN Here' ELSE Base(next))
      /\ Limit' \in Nat
  <2>1. at' \in 0..ZoneLen
    BY <1>4 DEF Safe, TypeOK
  <2>2. Here' = Base(vcdu.n) + at' /\ Base(next') = Base(next)
    BY <1>1 DEF Here
  <2>3. Limit' = (IF vcdu.clean THEN Here' ELSE Base(next))
    BY <1>1, <1>4, <2>2 DEF Limit
  <2> QED
    BY <1>2, <2>1, <2>2, <2>3
<1>6. /\ h.plen \in Nat
      /\ vcdu.clean => h.fill = (Here \in stream.fill)
  BY <1>1, <1>2, <1>3, HeaderHereFacts
<1>7. lastSDU = Empty
  BY <1>1, <1>2 DEF Safe, BufferInv
<1>8. at < at'
  <2>1. at' = at + HdrLen + h.plen \/ at' = ZoneLen
    BY DEF SkipFill, FillPastEnd, SavePartial, TakePacket
  <2> QED
    BY <1>1, <1>2, <1>6, <2>1
<1>9. Limit <= Limit' /\ (vcdu.clean => Limit < Limit')
  BY <1>2, <1>5, <1>8
<1>10. CASE TakePacket(h)
  <2> DEFINE x == [from |-> Here, good |-> vcdu.clean]
  <2>1. ret' = Append(ret, x) /\ lastSDU' = lastSDU /\ ~h.fill
    BY <1>10 DEF TakePacket
  <2>2. x \in SDU /\ x.from = Here /\ x.good = vcdu.clean
    BY <1>2 DEF SDU
  <2> HIDE DEF x
  <2>3. Handed' = Append(Handed, x)
    BY <1>1, <2>1, <2>2, HandedAppend DEF Handed
  <2>4. x.good => x.from \in Data /\ x.from < Limit' /\ \A s \in Good(Handed) : s < x.from
    BY <1>2, <1>3, <1>6, <1>9, <2>1, <2>2 DEF Data, OrderInv
  <2>5. Joins(x)
    BY <2>2, <2>3, <2>4 DEF Joins
  <2> QED
    BY <1>1, <1>2, <1>5, <1>7, <1>9, <2>1, <2>5, OrderKept DEF OrderInv, Empty
<1>11. CASE SkipFill(h) \/ FillPastEnd(h)
  <2>1. ret' = ret /\ lastSDU' = lastSDU
    BY <1>11 DEF SkipFill, FillPastEnd
  <2>2. Handed' = Handed
    BY <1>1, <2>1 DEF Handed
  <2> QED
    BY <1>1, <1>2, <1>5, <1>7, <1>9, <2>1, <2>2, OrderKept DEF OrderInv, Empty
<1>12. CASE SavePartial(h)
  <2>1. ret' = ret /\ lastSDU' = Extend(lastSDU, Here, Left, vcdu.clean)
    BY <1>12 DEF SavePartial
  <2>2. Handed' = Handed
    BY <1>1, <2>1 DEF Handed
  <2>3. lastSDU' = [from |-> Here, len |-> Left, intact |-> IF vcdu.clean THEN Left ELSE 0]
    BY <1>2, <1>7, <2>1 DEF Extend, Empty
  <2>4. lastSDU'.from = Here /\ (lastSDU'.intact > 0 => vcdu.clean)
    BY <2>3
  <2>5. /\ Stream!InOrder(Handed)' /\ Good(Handed') = Good(Handed)
        /\ \A s \in Good(Handed') : s < Limit'
    BY <1>1, <1>2, <1>5, <1>9, <2>2, OrderKept
  <2>6. vcdu.clean => \A s \in Good(Handed) : s < Here
    BY <1>2 DEF OrderInv
  <2> QED
    BY <1>2, <1>9, <2>4, <2>5, <2>6 DEF OrderInv, Good
<1> QED
  BY <1>10, <1>11, <1>12

(* OrderInv is preserved by the end of ParseMSDUs. *)
LEMMA OrderEnd ==
    ASSUME Safe, OrderInv, EndScan
    PROVE  OrderInv'
<1>1. /\ pc = "scan" /\ out' = out \o ret /\ ret' = << >> /\ pc' = "idle"
      /\ UNCHANGED <<stream, next>>
      /\ out \in Seq(SDU) /\ ret \in Seq(SDU)
      /\ lastSDU' = IF Left > 0 THEN Extend(lastSDU, Here, Left, vcdu.clean) ELSE lastSDU
  BY DEF EndScan, link, Safe, TypeOK
<1>2. /\ vcdu.n \in Nat /\ vcdu.clean \in BOOLEAN
      /\ Base(vcdu.n) \in Nat /\ ZoneLen \in Nat
      /\ next = vcdu.n + 1 /\ Base(next) = Base(vcdu.n) + ZoneLen
      /\ at \in 0..ZoneLen /\ Here = Base(vcdu.n) + at /\ Left = ZoneLen - at
      /\ Limit = (IF vcdu.clean THEN Here ELSE Base(next))
      /\ Limit \in Nat /\ Limit <= Base(next)
  BY <1>1, ScanLimit
<1>3. Handed' = Handed
  BY <1>1, ConcatProperties, ConcatEmptySeq DEF Handed
<1>4. Limit' = Base(next) /\ Limit' \in Nat /\ Limit <= Limit'
  BY <1>1, <1>2 DEF Limit
<1>5. /\ Stream!InOrder(Handed)' /\ Good(Handed') = Good(Handed)
      /\ \A s \in Good(Handed') : s < Limit'
  BY <1>1, <1>2, <1>3, <1>4, OrderKept
<1>6. CASE Left > 0
  <2>1. lastSDU = Empty
    BY <1>1, <1>2, <1>6 DEF Safe, BufferInv
  <2>2. lastSDU' = [from |-> Here, len |-> Left, intact |-> IF vcdu.clean THEN Left ELSE 0]
    BY <1>1, <1>2, <1>6, <2>1 DEF Extend, Empty
  <2>3. lastSDU'.from = Here /\ (lastSDU'.intact > 0 => vcdu.clean)
    BY <2>2
  <2>4. vcdu.clean => \A s \in Good(Handed) : s < Here
    BY <1>2 DEF OrderInv
  <2> QED
    BY <1>2, <1>4, <1>5, <1>6, <2>3, <2>4 DEF OrderInv, Good
<1>7. CASE ~(Left > 0)
  <2>1. lastSDU' = lastSDU /\ lastSDU.from \in Nat
    BY <1>1, <1>7 DEF Safe, TypeOK, Buffer
  <2>2. lastSDU.intact > 0 => lastSDU.from < Limit /\ \A s \in Good(Handed) : s < lastSDU.from
    BY DEF OrderInv
  <2>3. lastSDU.intact > 0 => lastSDU.from < Limit'
    BY <1>2, <1>4, <2>1, <2>2
  <2> QED
    BY <1>5, <2>1, <2>2, <2>3 DEF OrderInv
<1> QED
  BY <1>6, <1>7

(* OrderInv is inductive under Safe when no frame is repeated. *)
LEMMA OrderInvariant ==
    ASSUME Repeats = FALSE
    PROVE  Spec => []OrderInv
<1>1. Init => OrderInv
  <2> SUFFICES ASSUME Init PROVE OrderInv
    OBVIOUS
  <2>1. Handed = << >>
    BY ConcatEmptySeq DEF Init, Handed
  <2> QED
    BY <2>1 DEF Init, OrderInv, Empty, Good, Stream!InOrder
<1>2. Safe /\ OrderInv /\ [Next]_vars => OrderInv'
  <2> SUFFICES ASSUME Safe, OrderInv, [Next]_vars PROVE OrderInv'
    OBVIOUS
  <2>1. ASSUME NEW n \in Arrivals, NEW v \in FramesFor(n),
               saveContinuationPacket(v) \/ RejectPointer(v) \/ StartScan(v)
        PROVE  OrderInv'
    BY <2>1, OrderArrive
  <2>2. ASSUME Scanning, NEW h \in HeaderHere,
               SkipFill(h) \/ FillPastEnd(h) \/ SavePartial(h) \/ TakePacket(h)
        PROVE  OrderInv'
    BY <2>2, OrderLoop
  <2>3. CASE EndScan
    BY <2>3, OrderEnd
  <2>4. CASE UNCHANGED vars
    <3>1. UNCHANGED <<stream, next, pc, vcdu, at, ret, out, lastSDU>>
      BY <2>4 DEF vars, link, parse
    <3>2. Handed' = Handed /\ Limit' = Limit /\ Data' = Data /\ Good(Handed)' = Good(Handed)
      BY <3>1 DEF Handed, Limit, Here, Data, Start, Good
    <3>3. Stream!InOrder(Handed)' <=> Stream!InOrder(Handed)
      BY <3>1, <3>2 DEF Stream!InOrder
    <3> QED
      BY <3>1, <3>2, <3>3 DEF OrderInv
  <2> QED
    BY <2>1, <2>2, <2>3, <2>4 DEF Next
<1> QED
  BY <1>1, <1>2, SafeInvariant, PTL DEF Spec

(* A step hands over SDUs without touching earlier ones. *)
LEMMA HandOverStep ==
    ASSUME Safe, Safe', OrderInv', [Next]_vars
    PROVE  [Stream!HandOver]_<<Data, out>>
<1>1. out \in Seq(SDU) /\ ret \in Seq(SDU) /\ out' \in Seq(SDU) /\ ret' \in Seq(SDU)
  BY DEF Safe, TypeOK
<1>2. stream' = stream
  BY DEF Next, vars, link, saveContinuationPacket, RejectPointer, StartScan, Arrive, SkipFill,
         FillPastEnd, SavePartial, TakePacket, EndScan
<1>3. Data' = Data
  BY <1>2 DEF Data, Start
<1>4. CASE EndScan
  <2>1. out' = out \o ret /\ ret' = << >>
    BY <1>4 DEF EndScan
  <2>2. /\ Len(out) \in Nat /\ Len(ret) \in Nat /\ DOMAIN out = 1..Len(out)
        /\ Len(out') = Len(out) + Len(ret)
        /\ \A i \in 1..Len(out) : out'[i] = out[i]
    BY <1>1, <2>1, ConcatProperties, LenProperties
  <2>3. Handed' = out'
    BY <1>1, <2>1, ConcatEmptySeq DEF Handed
  <2>4. Stream!InOrder(out')
    BY <1>3, <2>3 DEF OrderInv, Stream!InOrder
  <2>5. Stream!SDU = SDU
    BY DEF Stream!SDU, SDU
  <2> QED
    BY <1>1, <1>3, <2>2, <2>4, <2>5 DEF Stream!HandOver, Stream!InOrder
<1>5. CASE ~EndScan
  <2>1. out' = out
    BY <1>5 DEF Next, vars, saveContinuationPacket, RejectPointer, StartScan, SkipFill,
         FillPastEnd, SavePartial, TakePacket
  <2> QED
    BY <1>3, <2>1
<1> QED
  BY <1>4, <1>5

(***************************************************************************)
(* ParseMSDUs implements SduStream: whatever is lost or damaged, the good  *)
(* SDUs it hands over are packets that were sent, each once and in order.  *)
(***************************************************************************)
THEOREM ImplementsSduStream ==
    ASSUME Repeats = FALSE
    PROVE  Spec => StreamSpec
<1>1. Init => Stream!Init
  <2> SUFFICES ASSUME Init PROVE out = << >> /\ Data \subseteq Nat
    BY DEF Stream!Init
  <2>1. IsLayout(stream)
    BY DemuxAssumption DEF Init
  <2> QED
    BY <2>1 DEF Init, Data, Start, IsLayout
<1>2. Safe /\ Safe' /\ OrderInv' /\ [Next]_vars => [Stream!HandOver]_<<Data, out>>
  BY HandOverStep
<1> QED
  BY <1>1, <1>2, SafeInvariant, OrderInvariant, PTL DEF Spec, StreamSpec, Stream!Spec
=============================================================================
