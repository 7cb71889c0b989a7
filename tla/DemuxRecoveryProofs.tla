------------------------ MODULE DemuxRecoveryProofs ------------------------
(***************************************************************************)
(* What Demux makes of lost frames.  It loses no packet whose frames all   *)
(* arrived undamaged, provided the link repeats no frame; a loss is        *)
(* reported when the counters show it, and costs at most one SDU that was  *)
(* never sent.                                                             *)
(***************************************************************************)
EXTENDS DemuxProofs, FiniteSetTheorems

(* Every octet before frame n is in one of the frames before it. *)
LEMMA FrameOf ==
    ASSUME NEW n \in Nat, NEW s \in Nat, s < Base(n)
    PROVE  \E k \in 0..n-1 : Base(k) <= s /\ s < Base(k + 1)
<1> DEFINE S == {k \in Nat : s < Base(k)}
<1>1. PICK m \in S : \A k \in S : m <= k
  BY LeastElement
<1>2. m \in Nat /\ s < Base(m) /\ m <= n
  BY <1>1
<1>3. Base(0) = 0
  BY DemuxAssumption DEF Base
<1>4. m > 0
  BY <1>2, <1>3
<1>5. m - 1 \in Nat /\ m - 1 \notin S
  BY <1>1, <1>2, <1>4
<1>6. Base(m - 1) \in Nat
  BY <1>5, BaseType
<1>7. ~(s < Base(m - 1))
  BY <1>5
<1>8. Base(m - 1) <= s /\ (m - 1) + 1 = m /\ m - 1 \in 0..n-1
  BY <1>2, <1>4, <1>5, <1>6, <1>7
<1> QED
  BY <1>2, <1>8

(* What a layout says of its packets. *)
LEMMA LayoutFacts ==
    ASSUME IsLayout(stream), NEW s \in Start
    PROVE  /\ s \in Nat /\ stream.size[s] \in Nat /\ After(s) = s + stream.size[s]
           /\ After(s) \in Nat /\ After(s) > s + HdrLen
           /\ \A t \in Start : s < t => After(s) <= t
           /\ After(s) < Base(MaxFrame + 1) => After(s) \in Start
BY DemuxAssumption DEF IsLayout, Start, After

(***************************************************************************)
(* What an arrival of frame n finds of a packet that began before it and   *)
(* none of whose frames was lost: it was handed over, or n is the frame    *)
(* that is due and undamaged, and the buffer holds the packet up to n.     *)
(***************************************************************************)
Pending(s, n) ==
    /\ n = next /\ n \in seen'
    /\ After(s) >= Base(n)
    /\ lastSDU = [from |-> s, len |-> Base(n) - s, intact |-> Base(n) - s]

(* When frame n arrives, a packet from before it that has lost nothing so *)
(* far is handed over, or waits in the buffer.                            *)
LEMMA ArrivePending ==
    ASSUME Repeats = FALSE, Safe, RecoveryInv,
           NEW n \in Arrivals, NEW v \in FramesFor(n), Arrive(v),
           NEW s \in Data, s < Base(n), SeenSoFar(s)'
    PROVE  s \in Good(out) \/ Pending(s, n)
<1>1. /\ n \in Nat /\ next \in Nat /\ next <= n
      /\ Base(n) \in Nat /\ Base(next) \in Nat /\ ZoneLen \in Nat
      /\ Base(next) <= Base(n) /\ Base(n + 1) = Base(n) + ZoneLen
      /\ next < n => Base(next + 1) <= Base(n)
      /\ Limit = Base(next) /\ Handed = out
  BY ArriveLimit
<1>2. /\ v.n = n /\ pc = "idle" /\ next' = n + 1 /\ stream' = stream
      /\ n \in 0..MaxFrame /\ MaxFrame \in Nat
  BY ArriveFacts, DemuxAssumption DEF Safe
<1>3. seen' \subseteq seen \cup {n} /\ seen \subseteq seen' /\ seen \subseteq 0..next-1
  BY <1>2 DEF Arrive, Safe, TypeOK
<1>4. s \in Nat /\ After(s) \in Nat /\ s < After(s) /\ After(s)' = After(s)
  <2>1. IsLayout(stream) /\ s \in Start /\ HdrLen \in Nat
    BY DemuxAssumption DEF Safe, TypeOK, Data
  <2>2. s \in Nat /\ After(s) \in Nat /\ After(s) > s + HdrLen
    BY <2>1, LayoutFacts
  <2>3. After(s)' = After(s)
    BY <1>2 DEF After
  <2> QED
    BY <2>1, <2>2, <2>3
<1>5. \A k \in 0..MaxFrame :
         k < n + 1 /\ Base(k) <= After(s) /\ s < Base(k + 1) => k \in seen'
  BY <1>2, <1>4 DEF SeenSoFar, After
<1>6. s < Base(next)
  <2> SUFFICES ASSUME ~(s < Base(next)) PROVE FALSE
    OBVIOUS
  <2>1. PICK k \in 0..n-1 : Base(k) <= s /\ s < Base(k + 1)
    BY <1>1, <1>4, FrameOf
  <2>2. Base(k) \in Nat /\ k \in 0..MaxFrame /\ k < n
    BY <1>1, <1>2, <2>1, BaseType
  <2>3. k \in seen'
    BY <1>2, <1>4, <1>5, <2>1, <2>2
  <2>4. k < next
    BY <1>1, <1>3, <2>2, <2>3
  <2>5. Base(k + 1) <= Base(next)
    <3>1. k + 1 \in Nat /\ (k + 1 = next \/ k + 1 < next)
      BY <1>1, <2>2, <2>4
    <3>2. k + 1 < next => Base(k + 1) + ZoneLen <= Base(next)
      BY <1>1, <3>1, BaseOrder
    <3> QED
      BY <1>1, <3>1, <3>2, BaseType
  <2>6. Base(k + 1) \in Nat
    BY <2>2, BaseType
  <2> QED
    BY <1>1, <1>4, <2>1, <2>5, <2>6
<1>7. SeenSoFar(s)
  <2> SUFFICES ASSUME NEW k \in 0..MaxFrame,
                      k < next /\ Base(k) <= After(s) /\ s < Base(k + 1)
               PROVE  k \in seen
    BY DEF SeenSoFar
  <2>1. k < n + 1 /\ k # n
    BY <1>1, <1>2
  <2> QED
    BY <1>3, <1>5, <2>1
<1>8. \/ s \in Good(out)
      \/ /\ After(s) >= Base(next)
         /\ lastSDU = [from |-> s, len |-> Base(next) - s, intact |-> Base(next) - s]
  BY <1>1, <1>6, <1>7 DEF RecoveryInv
<1>9. ASSUME After(s) >= Base(next)
      PROVE  n = next /\ n \in seen'
  <2>1. Base(next + 1) = Base(next) + ZoneLen
    BY <1>1, BaseType
  <2>2. next \in 0..MaxFrame /\ next < n + 1 /\ s < Base(next + 1)
    BY <1>1, <1>2, <1>4, <1>6, <2>1
  <2>3. next \in seen'
    BY <1>5, <1>9, <1>1, <1>4, <2>2
  <2> QED
    BY <1>1, <1>3, <2>3
<1> QED
  BY <1>8, <1>9 DEF Pending

(* No frame ends behind the last one. *)
LEMMA BaseEnd ==
    ASSUME NEW n \in 0..MaxFrame
    PROVE  Base(n) + ZoneLen <= Base(MaxFrame + 1) /\ Base(MaxFrame + 1) \in Nat
<1>1. n \in Nat /\ MaxFrame + 1 \in Nat /\ n < MaxFrame + 1
  BY DemuxAssumption
<1> QED
  BY <1>1, BaseOrder, BaseType

(* Packets end where the next one starts, so no end is inside a zone       *)
(* without a packet header.                                                *)
LEMMA EndInZone ==
    ASSUME IsLayout(stream), NEW s \in Start, NEW n \in 0..MaxFrame,
           Base(n) <= After(s), After(s) < Base(n) + ZoneLen
    PROVE  After(s) \in HeadersIn(n)
<1>1. n \in Nat /\ ZoneLen \in Nat
  BY DemuxAssumption
<1>2. /\ Base(n) \in Nat /\ Base(n) + ZoneLen <= Base(MaxFrame + 1)
      /\ Base(MaxFrame + 1) \in Nat /\ After(s) \in Nat
  BY <1>1, BaseType, BaseEnd, LayoutFacts
<1>3. After(s) < Base(MaxFrame + 1)
  BY <1>1, <1>2
<1> QED
  BY <1>3, LayoutFacts DEF HeadersIn

(* Of the packets that reach frame n, an arriving damaged n spares none.   *)
LEMMA ArriveBefore ==
    ASSUME Repeats = FALSE, Safe, NEW n \in Arrivals, NEW v \in FramesFor(n), Arrive(v),
           NEW s \in Data, s < Base(n + 1), SeenSoFar(s)'
    PROVE  /\ ~v.clean => n \notin seen' /\ s < Base(n)
           /\ v.clean /\ HeadersIn(n) = {} => s < Base(n)
           /\ v.clean /\ s < Base(n) + v.fhp => s < Base(n)
<1>1. /\ n \in Nat /\ next \in Nat /\ next <= n /\ Base(n) \in Nat /\ ZoneLen \in Nat
      /\ Base(n + 1) = Base(n) + ZoneLen
  BY ArriveLimit
<1>2. /\ v.n = n /\ pc = "idle" /\ next' = n + 1 /\ stream' = stream /\ n \in 0..MaxFrame
      /\ v \in Frame
      /\ v.clean => v.fhp = FirstHeader(n)
  BY ArriveFacts DEF Safe
<1>3. IsLayout(stream) /\ s \in Start /\ HdrLen \in Nat
  BY DemuxAssumption DEF Safe, TypeOK, Data
<1>4. s \in Nat /\ After(s) \in Nat /\ After(s) > s + HdrLen /\ After(s)' = After(s)
  BY <1>2, <1>3, LayoutFacts DEF After
<1>5. Base(n) <= After(s) => n \in seen'
  BY <1>1, <1>2, <1>4 DEF SeenSoFar
<1>6. ~v.clean => n \notin seen'
  BY <1>1, <1>2 DEF Arrive, Safe, TypeOK
<1>7. ~(s < Base(n)) => s \in HeadersIn(n)
  BY <1>1, <1>3, <1>4 DEF HeadersIn
<1>8. ~v.clean => s < Base(n)
  BY <1>1, <1>3, <1>4, <1>5, <1>6
<1>9. ASSUME v.clean, s < Base(n) + v.fhp, s \in HeadersIn(n)
      PROVE  FALSE
  <2>1. CASE FirstHeader(n) < ZoneLen
    <3>1. Base(n) + FirstHeader(n) <= s /\ FirstHeader(n) \in Nat
      BY <1>1, <1>3, <1>9, <2>1, FirstHeaderFacts
    <3> QED
      BY <1>1, <1>2, <1>4, <1>9, <3>1
  <2>2. CASE FirstHeader(n) >= ZoneLen
    BY <1>1, <1>3, <1>9, <2>2, FirstHeaderFacts
  <2>3. FirstHeader(n) \in 0..NoHeader
    BY <1>1, <1>3, FirstHeaderFacts
  <2> QED
    BY <1>1, <2>1, <2>2, <2>3
<1> QED
  BY <1>6, <1>7, <1>8, <1>9

(* RecoveryInv is preserved by frames without a usable header pointer. *)
LEMMA RecoverIdle ==
    ASSUME Repeats = FALSE, Safe, RecoveryInv, NEW n \in Arrivals, NEW v \in FramesFor(n),
           saveContinuationPacket(v) \/ RejectPointer(v)
    PROVE  RecoveryInv'
<1>1. Arrive(v) /\ UNCHANGED <<pc, ret, out>>
  BY DEF saveContinuationPacket, RejectPointer, parse
<1>2. /\ n \in Nat /\ next \in Nat /\ next <= n /\ Base(n) \in Nat /\ ZoneLen \in Nat
      /\ Base(n + 1) = Base(n) + ZoneLen /\ Handed = out
  BY <1>1, ArriveLimit
<1>3. /\ v.n = n /\ pc = "idle" /\ next' = n + 1 /\ stream' = stream /\ n \in 0..MaxFrame
      /\ v \in Frame
      /\ v.clean => v.fhp = FirstHeader(n)
  BY <1>1, ArriveFacts DEF Safe
<1>4. Limit' = Base(n + 1) /\ Handed' = out /\ Data' = Data /\ pc' = "idle"
  BY <1>1, <1>2, <1>3 DEF Limit, Handed, Data, Start
<1>5. v.clean /\ v.fhp >= ZoneLen => v.fhp = NoHeader /\ HeadersIn(n) = {}
  BY <1>2, <1>3, FirstHeaderFacts DEF Safe, TypeOK
<1>6. v.fhp >= ZoneLen /\ (RejectPointer(v) => ~v.clean)
  BY <1>2, <1>3, <1>5, DemuxAssumption DEF saveContinuationPacket, RejectPointer, Frame
<1>7. ASSUME NEW s \in Data, s < Base(n + 1), SeenSoFar(s)'
      PROVE  \/ s \in Good(out)
             \/ /\ After(s)' >= Base(n + 1)
                /\ lastSDU' = [from |-> s, len |-> Base(n + 1) - s, intact |-> Base(n + 1) - s]
  <2>1. s < Base(n) /\ (~v.clean => n \notin seen')
    BY <1>1, <1>5, <1>6, <1>7, ArriveBefore
  <2>2. s \in Good(out) \/ Pending(s, n)
    BY <1>1, <1>7, <2>1, ArrivePending
  <2>3. ASSUME Pending(s, n)
        PROVE  /\ After(s)' >= Base(n + 1)
               /\ lastSDU' = [from |-> s, len |-> Base(n + 1) - s, intact |-> Base(n + 1) - s]
    <3>1. v.clean /\ HeadersIn(n) = {} /\ saveContinuationPacket(v)
      BY <1>5, <1>6, <2>1, <2>3 DEF Pending
    <3>2. IsLayout(stream) /\ s \in Start
      BY DEF Safe, TypeOK, Data
    <3>3. After(s) \in Nat /\ s \in Nat /\ After(s)' = After(s)
      BY <1>3, <3>2, LayoutFacts DEF After
    <3>4. After(s) >= Base(n)
      BY <2>3 DEF Pending
    <3>5. ~(After(s) < Base(n) + ZoneLen)
      BY <1>3, <3>1, <3>2, <3>4, EndInZone
    <3>6. lastSDU.len > 0 /\ lastSDU = [from |-> s, len |-> Base(n) - s, intact |-> Base(n) - s]
      BY <1>2, <2>1, <2>3, <3>3 DEF Pending
    <3>7. lastSDU' = Extend(lastSDU, Base(n), ZoneLen, TRUE)
      BY <1>3, <3>1, <3>6, DemuxAssumption DEF saveContinuationPacket, Frame
    <3>8. lastSDU' = [from |-> s, len |-> Base(n) - s + ZoneLen, intact |-> Base(n) - s + ZoneLen]
      BY <1>2, <2>1, <3>3, <3>6, <3>7 DEF Extend
    <3> QED
      BY <1>2, <3>3, <3>5, <3>8
  <2> QED
    BY <2>2, <2>3
<1> QED
  BY <1>3, <1>4, <1>7 DEF RecoveryInv

(* The buffer that held a packet up to frame n holds all of it when the    *)
(* octets before n's first header have joined it.                          *)
LEMMA PacketEnds ==
    ASSUME Repeats = FALSE, Safe, NEW n \in Arrivals, NEW v \in FramesFor(n), Arrive(v),
           v.fhp <= ZoneLen - 1, v.clean,
           NEW s \in Start, s < Base(n), After(s) >= Base(n),
           lastSDU = [from |-> s, len |-> Base(n) - s, intact |-> Base(n) - s]
    PROVE  savePartialPacketEnd(v) =
              [from |-> s, len |-> stream.size[s], intact |-> stream.size[s]]
<1> DEFINE buf == savePartialPacketEnd(v)
<1>1. /\ n \in Nat /\ Base(n) \in Nat /\ ZoneLen \in Nat
      /\ Base(n + 1) = Base(n) + ZoneLen
  BY ArriveLimit
<1>2. /\ v.n = n /\ n \in 0..MaxFrame /\ v.fhp = FirstHeader(n)
  BY ArriveFacts DEF Safe
<1>3. IsLayout(stream)
  BY DEF Safe, TypeOK
<1>4. /\ s \in Nat /\ After(s) \in Nat
      /\ stream.size[s] \in Nat /\ After(s) = s + stream.size[s]
      /\ \A t \in Start : s < t => After(s) <= t
  BY <1>3, LayoutFacts
<1>5. FirstHeader(n) \in Nat /\ FirstHeader(n) < ZoneLen
  <2>1. FirstHeader(n) \in 0..NoHeader
    BY <1>1, <1>3, FirstHeaderFacts
  <2> QED
    BY <1>1, <1>2, <2>1, DemuxAssumption
<1>6. /\ Base(n) + FirstHeader(n) \in Start
      /\ \A t \in HeadersIn(n) : Base(n) + FirstHeader(n) <= t
  BY <1>1, <1>3, <1>5, FirstHeaderFacts
<1>7. After(s) <= Base(n) + FirstHeader(n)
  BY <1>1, <1>4, <1>5, <1>6
<1>8. Base(n) <= After(s) /\ After(s) < Base(n) + ZoneLen
  BY <1>1, <1>4, <1>5, <1>7
<1>9. After(s) = Base(n) + v.fhp
  <2>1. After(s) \in HeadersIn(n)
    BY <1>2, <1>3, <1>8, EndInZone
  <2> QED
    BY <1>1, <1>2, <1>4, <1>5, <1>6, <1>7, <2>1
<1>10. stream.size[s] = Base(n) - s + v.fhp /\ Base(n) - s > 0 /\ v.fhp \in Nat
  BY <1>1, <1>2, <1>4, <1>5, <1>9
<1>11. CASE v.fhp = 0
  <2>1. buf = lastSDU
    BY <1>11 DEF savePartialPacketEnd
  <2> QED
    BY <1>1, <1>4, <1>10, <1>11, <2>1
<1>12. CASE v.fhp > 0
  <2>1. buf = Extend(lastSDU, Base(n), v.fhp, TRUE)
    BY <1>1, <1>2, <1>4, <1>10, <1>12 DEF savePartialPacketEnd
  <2> QED
    BY <1>1, <1>4, <1>10, <1>12, <2>1 DEF Extend
<1> QED
  BY <1>10, <1>11, <1>12

(* A packet that a frame completes is handed over, and is as it was sent.  *)
LEMMA PendingCompletes ==
    ASSUME Repeats = FALSE, Safe, NEW n \in Arrivals, NEW v \in FramesFor(n), Arrive(v),
           v.fhp <= ZoneLen - 1, v.clean,
           NEW s \in Data, s < Base(n), Pending(s, n)
    PROVE  LET buf == savePartialPacketEnd(v) IN
           /\ buf.len > HdrLen
           /\ \A fill \in ReadsAsFill(buf) : ~fill
           /\ Carried(buf) = [from |-> s, good |-> TRUE]
<1> DEFINE buf == savePartialPacketEnd(v)
<1>1. IsLayout(stream) /\ s \in Start /\ s \notin stream.fill /\ HdrLen \in Nat \ {0}
  BY DemuxAssumption DEF Safe, TypeOK, Data
<1>2. stream.size[s] \in Nat /\ stream.size[s] > HdrLen
  BY <1>1, LayoutFacts DEF IsLayout, Start
<1>3. buf = [from |-> s, len |-> stream.size[s], intact |-> stream.size[s]]
  BY <1>1, PacketEnds DEF Pending
<1> HIDE DEF buf
<1>4. buf.intact >= HdrLen /\ buf.from = s /\ buf.len > HdrLen
  BY <1>1, <1>2, <1>3
<1>5. Carried(buf) = [from |-> s, good |-> TRUE]
  BY <1>1, <1>3 DEF Carried
<1> QED
  BY <1>1, <1>4, <1>5 DEF ReadsAsFill, buf

(* RecoveryInv is preserved when the packet in the buffer is completed. *)
LEMMA RecoverStart ==
    ASSUME Repeats = FALSE, Safe, RecoveryInv, NEW n \in Arrivals, NEW v \in FramesFor(n),
           StartScan(v)
    PROVE  RecoveryInv'
<1> DEFINE buf == savePartialPacketEnd(v)
<1>1. /\ Arrive(v) /\ out' = out /\ vcdu' = v /\ pc' = "scan" /\ at' = v.fhp
      /\ v.fhp <= ZoneLen - 1
      /\ \E fill \in ReadsAsFill(buf) :
            ret' = IF buf.len > HdrLen /\ ~fill THEN <<Carried(buf)>> ELSE << >>
  BY DEF StartScan
<1>2. /\ n \in Nat /\ Base(n) \in Nat /\ ZoneLen \in Nat
      /\ Base(n + 1) = Base(n) + ZoneLen /\ Handed = out
  BY <1>1, ArriveLimit
<1>3. /\ v.n = n /\ pc = "idle" /\ next' = n + 1 /\ stream' = stream /\ v \in Frame
  BY <1>1, ArriveFacts DEF Safe
<1>4. /\ v.fhp \in Nat /\ v.clean \in BOOLEAN /\ lastSDU \in Buffer
      /\ out \in Seq(SDU) /\ ret = << >>
  BY <1>3, DemuxAssumption DEF Frame, Safe, TypeOK, BufferInv
<1>5. Limit' = (IF v.clean THEN Base(n) + v.fhp ELSE Base(n + 1)) /\ Data' = Data
  BY <1>1, <1>3 DEF Limit, Here, Data, Start
<1>6. Carried(buf) \in SDU
  BY <1>3, <1>4, PartialEndFacts, CarriedType
<1>7. Handed' = out \/ (ret' = <<Carried(buf)>> /\ Handed' = Append(out, Carried(buf)))
  <2>1. CASE ret' = << >>
    BY <1>1, <1>4, <2>1, ConcatEmptySeq DEF Handed
  <2>2. CASE ret' = <<Carried(buf)>>
    <3> HIDE DEF buf
    <3>1. out \o <<Carried(buf)>> = Append(out, Carried(buf))
      BY <1>4, <1>6
    <3> QED
      BY <1>1, <2>2, <3>1 DEF Handed
  <2> QED
    BY <1>1, <2>1, <2>2
<1>8. Good(out) \subseteq Good(Handed')
  BY <1>4, <1>6, <1>7, GoodAppend
<1>9. ASSUME ~v.clean
      PROVE  n \notin seen'
  <2>1. next \in Nat /\ next <= n /\ seen \subseteq 0..next-1
    BY <1>1, ArriveLimit DEF Safe, TypeOK
  <2> QED
    BY <1>1, <1>2, <1>9, <2>1 DEF Arrive
<1>10. ASSUME NEW s \in Data, s < Limit', SeenSoFar(s)'
       PROVE  s \in Good(Handed')
  <2>1. s \in Nat /\ s < Base(n + 1)
    <3>1. s \in Nat
      BY LayoutFacts DEF Safe, TypeOK, Data
    <3> QED
      BY <1>1, <1>2, <1>4, <1>5, <1>10, <3>1
  <2>2. s < Base(n) /\ (~v.clean => n \notin seen')
    BY <1>1, <1>2, <1>4, <1>5, <1>10, <2>1, ArriveBefore
  <2>3. s \in Good(out) \/ Pending(s, n)
    BY <1>1, <1>10, <2>2, ArrivePending
  <2>4. ASSUME Pending(s, n)
        PROVE  s \in Good(Handed')
    <3>1. v.clean
      BY <1>4, <2>2, <2>4 DEF Pending
    <3>2. /\ buf.len > HdrLen /\ \A fill \in ReadsAsFill(buf) : ~fill
          /\ Carried(buf) = [from |-> s, good |-> TRUE]
      BY <1>1, <2>2, <2>4, <3>1, PendingCompletes
    <3> HIDE DEF buf
    <3>3. ret' = <<Carried(buf)>>
      BY <1>1, <3>2
    <3>4. Handed' = Append(out, Carried(buf))
      BY <1>1, <1>4, <1>6, <3>3 DEF Handed
    <3> QED
      BY <1>4, <1>6, <3>2, <3>4, GoodAppend
  <2> QED
    BY <1>8, <2>3, <2>4
<1> QED
  BY <1>1, <1>3, <1>5, <1>9, <1>10 DEF RecoveryInv

(* RecoveryInv is preserved by every turn of ParseMSDUs' loop. *)
LEMMA RecoverLoop ==
    ASSUME Safe, RecoveryInv, Scanning, NEW h \in HeaderHere,
           SkipFill(h) \/ FillPastEnd(h) \/ SavePartial(h) \/ TakePacket(h)
    PROVE  RecoveryInv'
<1>1. /\ pc = "scan" /\ Left > HdrLen /\ HdrLen \in Nat \ {0}
      /\ UNCHANGED <<stream, next, seen, pc, vcdu, out>>
      /\ TypeOK /\ AlignedScan /\ IsLayout(stream) /\ out \in Seq(SDU) /\ ret \in Seq(SDU)
  BY DemuxAssumption
  DEF Scanning, SkipFill, FillPastEnd, SavePartial, TakePacket, link, Safe, TypeOK
<1>2. /\ vcdu \in Frame /\ vcdu.n \in Nat /\ vcdu.clean \in BOOLEAN
      /\ Base(vcdu.n) \in Nat /\ ZoneLen \in Nat
      /\ next = vcdu.n + 1 /\ Base(next) = Base(vcdu.n) + ZoneLen
      /\ at \in 0..ZoneLen /\ Here = Base(vcdu.n) + at /\ Left = ZoneLen - at
      /\ Limit = (IF vcdu.clean THEN Here ELSE Base(next))
      /\ Limit \in Nat /\ Limit <= Base(next)
  BY <1>1, ScanLimit
<1>3. vcdu.clean => Here \in Start
  BY <1>1, ScanFacts
<1>4. /\ h.plen \in Nat
      /\ vcdu.clean => h.plen = stream.size[Here] - HdrLen /\ h.fill = (Here \in stream.fill)
  BY <1>1, <1>2, <1>3, HeaderHereFacts
<1>5. /\ Limit' = (IF vcdu.clean THEN Base(vcdu.n) + at' ELSE Base(next))
      /\ Data' = Data /\ Base(next)' = Base(next)
  BY <1>1 DEF Limit, Here, Data, Start, Base
<1>6. \A s \in Data : SeenSoFar(s)' = SeenSoFar(s) /\ After(s)' = After(s)
  BY <1>1 DEF SeenSoFar, After
<1>7. /\ lastSDU = Empty /\ at # ZoneLen
      /\ HdrLen \in Nat /\ Here \in Nat /\ Left \in Nat /\ Here + Left = Base(next)
  BY <1>1, <1>2 DEF Safe, BufferInv
<1>8. \A s \in Data : s < Limit /\ SeenSoFar(s) => s \in Good(Handed)
  BY <1>1, <1>7 DEF RecoveryInv
<1>9. Handed \in Seq(SDU)
  BY <1>1, ConcatProperties DEF Handed
<1>10. Good(Handed) \subseteq Good(Handed')
  <2>1. CASE ret' = ret
    BY <1>1, <2>1 DEF Handed
  <2>2. CASE TakePacket(h)
    <3> DEFINE x == [from |-> Here, good |-> vcdu.clean]
    <3>1. x \in SDU /\ ret' = Append(ret, x)
      BY <1>2, <2>2 DEF SDU, TakePacket
    <3> HIDE DEF x
    <3>2. Handed' = Append(Handed, x)
      BY <1>1, <3>1, HandedAppend DEF Handed
    <3> QED
      BY <1>9, <3>1, <3>2, GoodAppend
  <2> QED
    BY <2>1, <2>2 DEF SkipFill, FillPastEnd, SavePartial
<1>11. ASSUME vcdu.clean, NEW s \in Data, s < Limit', Here <= s
       PROVE  \/ s \in Good(Handed')
              \/ /\ After(s) >= Base(next) /\ at' = ZoneLen
                 /\ lastSDU' = [from |-> s, len |-> Base(next) - s, intact |-> Base(next) - s]
  <2>1. /\ Here \in Start /\ After(Here) = Here + HdrLen + h.plen /\ After(Here) \in Nat
        /\ \A t \in Start : Here < t => After(Here) <= t
    BY <1>1, <1>3, <1>4, <1>11, LayoutFacts
  <2>2. s \in Nat /\ s \in Start /\ s \notin stream.fill
    BY <1>1, LayoutFacts DEF Data
  <2>3. Here = s \/ After(Here) <= s
    BY <1>2, <2>1, <2>2, <1>11
  <2>4. CASE SkipFill(h)
    <3>1. Limit' = After(Here) /\ h.fill
      BY <1>2, <1>4, <1>5, <1>7, <1>11, <2>1, <2>4 DEF SkipFill
    <3>2. Here = s
      BY <1>11, <2>1, <2>2, <2>3, <3>1
    <3> QED
      BY <1>4, <1>11, <2>2, <3>1, <3>2
  <2>5. CASE FillPastEnd(h)
    <3>1. Limit' = Base(next) /\ h.fill /\ ~(h.plen <= Left - HdrLen)
      BY <1>2, <1>5, <1>11, <2>5 DEF FillPastEnd, Fits
    <3>2. After(Here) > Base(next) /\ s < Base(next)
      BY <1>4, <1>7, <1>11, <2>1, <3>1
    <3>3. Here = s
      BY <1>7, <2>1, <2>2, <2>3, <3>2
    <3> QED
      BY <1>4, <1>11, <2>2, <3>1, <3>3
  <2>6. CASE SavePartial(h)
    <3>1. /\ Limit' = Base(next) /\ ~(h.plen <= Left - HdrLen) /\ at' = ZoneLen
          /\ lastSDU' = Extend(lastSDU, Here, Left, TRUE)
      BY <1>2, <1>5, <1>11, <2>6 DEF SavePartial, Fits
    <3>2. After(Here) > Base(next) /\ s < Base(next)
      BY <1>4, <1>7, <1>11, <2>1, <3>1
    <3>3. Here = s /\ After(s) >= Base(next) /\ Left = Base(next) - s
      BY <1>7, <2>1, <2>2, <2>3, <3>2
    <3>4. lastSDU' = [from |-> s, len |-> Left, intact |-> Left]
      BY <1>2, <1>7, <3>1, <3>3 DEF Extend, Empty
    <3> QED
      BY <3>1, <3>3, <3>4
  <2>7. CASE TakePacket(h)
    <3> DEFINE x == [from |-> Here, good |-> vcdu.clean]
    <3>1. Limit' = After(Here) /\ ret' = Append(ret, x)
      <4>1. at' = at + HdrLen + h.plen
        BY <2>7 DEF TakePacket
      <4>2. Limit' = Base(vcdu.n) + at'
        BY <1>5, <1>11
      <4>3. After(Here) = Here + HdrLen + h.plen /\ Here = Base(vcdu.n) + at
        BY <1>2, <2>1
      <4>4. at \in Nat /\ Base(vcdu.n) \in Nat /\ h.plen \in Nat /\ HdrLen \in Nat
        BY <1>2, <1>4, <1>7
      <4>5. Limit' = After(Here)
        BY <4>1, <4>2, <4>3, <4>4
      <4> QED
        BY <2>7, <4>5 DEF TakePacket
    <3>2. Here = s
      BY <1>11, <2>1, <2>2, <2>3, <3>1
    <3>3. x \in SDU /\ x.good = TRUE /\ x.from = s
      BY <1>2, <1>11, <3>2 DEF SDU
    <3> HIDE DEF x
    <3>4. Handed' = Append(Handed, x)
      BY <1>1, <3>1, <3>3, HandedAppend DEF Handed
    <3> QED
      BY <1>9, <3>3, <3>4, GoodAppend
  <2> QED
    BY <2>4, <2>5, <2>6, <2>7
<1>12. \A s \in Data : s \in Nat
  BY <1>1, LayoutFacts DEF Data
<1>13. \A s \in Data : s < Limit' => s < Limit \/ (vcdu.clean /\ Here <= s)
  BY <1>2, <1>5, <1>12
<1>14. pc' = "scan" /\ ~vcdu'.clean => vcdu'.n \notin seen'
  BY <1>1 DEF RecoveryInv
<1>15. ASSUME NEW s \in Data, s < Limit', SeenSoFar(s)
       PROVE  \/ s \in Good(Handed')
              \/ /\ After(s) >= Base(next) /\ at' = ZoneLen
                 /\ lastSDU' = [from |-> s, len |-> Base(next) - s, intact |-> Base(next) - s]
  BY <1>8, <1>10, <1>11, <1>13, <1>15
<1> QED
  BY <1>5, <1>6, <1>14, <1>15 DEF RecoveryInv

(* RecoveryInv is preserved by the end of ParseMSDUs. *)
LEMMA RecoverEnd ==
    ASSUME Safe, RecoveryInv, EndScan
    PROVE  RecoveryInv'
<1>1. /\ pc = "scan" /\ Left <= HdrLen /\ out' = out \o ret /\ ret' = << >> /\ pc' = "idle"
      /\ UNCHANGED <<stream, next, seen>>
      /\ out \in Seq(SDU) /\ ret \in Seq(SDU) /\ IsLayout(stream) /\ HdrLen \in Nat \ {0}
      /\ lastSDU' = IF Left > 0 THEN Extend(lastSDU, Here, Left, vcdu.clean) ELSE lastSDU
  BY DemuxAssumption DEF EndScan, link, Safe, TypeOK
<1>2. /\ vcdu \in Frame /\ vcdu.n \in Nat /\ vcdu.clean \in BOOLEAN
      /\ Base(vcdu.n) \in Nat /\ ZoneLen \in Nat
      /\ next = vcdu.n + 1 /\ Base(next) = Base(vcdu.n) + ZoneLen
      /\ at \in 0..ZoneLen /\ Here = Base(vcdu.n) + at /\ Left = ZoneLen - at
      /\ Limit = (IF vcdu.clean THEN Here ELSE Base(next))
      /\ Limit \in Nat /\ Limit <= Base(next)
  BY <1>1, ScanLimit
<1>3. Here \in Nat /\ Left \in Nat /\ Here + Left = Base(next)
  BY <1>2
<1>4. Handed' = Handed /\ Limit' = Base(next) /\ Data' = Data /\ Base(next)' = Base(next)
  BY <1>1, ConcatProperties, ConcatEmptySeq DEF Handed, Limit, Data, Start, Base
<1>5. \A s \in Data : SeenSoFar(s)' = SeenSoFar(s) /\ After(s)' = After(s)
  BY <1>1 DEF SeenSoFar, After
<1>6. \A s \in Data : s \in Nat /\ After(s) \in Nat /\ After(s) > s + HdrLen /\ s \in Start
  BY <1>1, LayoutFacts DEF Data
<1>7. ASSUME NEW s \in Data, s < Base(next), SeenSoFar(s)
      PROVE  \/ s \in Good(Handed)
             \/ /\ After(s) >= Base(next)
                /\ lastSDU' = [from |-> s, len |-> Base(next) - s, intact |-> Base(next) - s]
  <2>1. CASE s < Limit
    <3>1. \/ s \in Good(Handed)
          \/ /\ After(s) >= Base(next) /\ at = ZoneLen
             /\ lastSDU = [from |-> s, len |-> Base(next) - s, intact |-> Base(next) - s]
      BY <1>1, <1>7, <2>1 DEF RecoveryInv
    <3>2. at = ZoneLen => lastSDU' = lastSDU
      BY <1>1, <1>2
    <3> QED
      BY <3>1, <3>2
  <2>2. CASE ~(s < Limit)
    <3>1. vcdu.clean /\ Here <= s /\ Left > 0
      BY <1>2, <1>6, <1>7, <2>2
    <3>2. Here \in Start
      BY <1>1, <3>1 DEF Safe, AlignedScan
    <3>3. Here = s
      <4>1. Here < s => After(Here) <= s
        BY <1>1, <1>6, <3>2, LayoutFacts
      <4>2. After(Here) > Here + HdrLen /\ After(Here) \in Nat
        BY <1>1, <3>2, LayoutFacts
      <4> QED
        BY <1>1, <1>3, <1>6, <1>7, <3>1, <4>1, <4>2
    <3>4. lastSDU = Empty
      BY <1>1, <1>2, <3>1 DEF Safe, BufferInv
    <3>5. lastSDU' = [from |-> s, len |-> Left, intact |-> Left]
      BY <1>1, <1>2, <3>1, <3>3, <3>4 DEF Extend, Empty
    <3>6. Left = Base(next) - s /\ After(s) >= Base(next)
      BY <1>1, <1>3, <1>6, <3>3
    <3> QED
      BY <3>5, <3>6
  <2> QED
    BY <2>1, <2>2
<1> QED
  BY <1>1, <1>4, <1>5, <1>7 DEF RecoveryInv

(***************************************************************************)
(* A loss costs only the packets it touches: RecoveryInv is inductive      *)
(* under Safe, and says it of the frames between two arrivals.             *)
(***************************************************************************)
THEOREM LossIsLocal ==
    ASSUME Repeats = FALSE
    PROVE  Spec => []NothingElseLost
<1>1. Init => RecoveryInv
  <2> SUFFICES ASSUME Init PROVE RecoveryInv
    OBVIOUS
  <2>1. IsLayout(stream) /\ Base(0) = 0
    BY DemuxAssumption DEF Init, Base
  <2>2. Limit = 0 /\ \A s \in Data : s \in Nat
    BY <2>1, LayoutFacts DEF Init, Limit, Data
  <2> QED
    BY <2>2 DEF Init, RecoveryInv
<1>2. Safe /\ RecoveryInv /\ [Next]_vars => RecoveryInv'
  <2> SUFFICES ASSUME Safe, RecoveryInv, [Next]_vars PROVE RecoveryInv'
    OBVIOUS
  <2>1. ASSUME NEW n \in Arrivals, NEW v \in FramesFor(n),
               saveContinuationPacket(v) \/ RejectPointer(v) \/ StartScan(v)
        PROVE  RecoveryInv'
    BY <2>1, RecoverIdle, RecoverStart
  <2>2. ASSUME Scanning, NEW h \in HeaderHere,
               SkipFill(h) \/ FillPastEnd(h) \/ SavePartial(h) \/ TakePacket(h)
        PROVE  RecoveryInv'
    BY <2>2, RecoverLoop
  <2>3. CASE EndScan
    BY <2>3, RecoverEnd
  <2>4. CASE UNCHANGED vars
    BY <2>4 DEF vars, link, parse, RecoveryInv, Limit, Here, Base, Data, Start, SeenSoFar,
                After, Handed, Good
  <2> QED
    BY <2>1, <2>2, <2>3, <2>4 DEF Next
<1>3. Safe /\ RecoveryInv => NothingElseLost
  <2> SUFFICES ASSUME Safe, RecoveryInv, pc = "idle",
                      NEW s \in Data, After(s) < Base(next), SeenSoFar(s)
               PROVE  s \in Good(out)
    BY DEF NothingElseLost
  <2>1. /\ IsLayout(stream) /\ s \in Start /\ next \in Nat /\ out \in Seq(SDU) /\ ret = << >>
        /\ HdrLen \in Nat
    BY DemuxAssumption DEF Safe, TypeOK, BufferInv, Data
  <2>2. s \in Nat /\ After(s) \in Nat /\ After(s) > s + HdrLen /\ Base(next) \in Nat
    BY <2>1, LayoutFacts, BaseType
  <2>3. Limit = Base(next) /\ Handed = out
    BY <2>1, ConcatEmptySeq DEF Limit, Handed
  <2>4. s < Limit /\ ~(After(s) >= Base(next))
    BY <2>1, <2>2, <2>3
  <2> QED
    BY <2>3, <2>4 DEF RecoveryInv
<1> QED
  BY <1>1, <1>2, <1>3, SafeInvariant, PTL DEF Spec

-----------------------------------------------------------------------------
(* A remainder is determined by the division it is left by. *)
LEMMA RemainderUnique ==
    ASSUME NEW m \in Nat \ {0}, NEW q \in Int, NEW r \in 0..m-1, NEW x \in Int,
           x = m * q + r
    PROVE  x % m = r
<1> DEFINE p == x \div m
           s == x % m
<1>1. p \in Int /\ s \in 0..m-1 /\ x = m * p + s
  OBVIOUS
<1> HIDE DEF p, s
<1>2. ASSUME p = q
      PROVE  s = r
  BY <1>1, <1>2
<1>3. ASSUME NEW k \in Int, NEW l \in Int, k > l
      PROVE  m * k >= m * l + m
  <2> DEFINE d == k - l - 1
  <2>1. d \in Nat /\ k = l + 1 + d
    BY <1>3
  <2>2. m * d \in Nat
    BY <2>1
  <2>3. m * (l + 1 + d) = m * l + m + m * d
    BY <2>1
  <2> QED
    BY <2>1, <2>2, <2>3
<1>4. m * p \in Int /\ m * q \in Int
  BY <1>1
<1>5. p > q => m * p >= m * q + m
  BY <1>1, <1>3
<1>6. q > p => m * q >= m * p + m
  BY <1>1, <1>3
<1>7. p = q
  BY <1>1, <1>4, <1>5, <1>6
<1> QED
  BY <1>1, <1>2, <1>7 DEF s

(* Between the counters of two frames, the later one ahead by what the     *)
(* frames are apart, counted modulo the counter's range.                   *)
LEMMA CounterDistance ==
    ASSUME NEW m \in Nat \ {0}, NEW a \in Nat, NEW b \in Nat, a <= b
    PROVE  CounterDiff(m, a % m, b % m) = (b - a) % m
<1> DEFINE p == a \div m
           q == b \div m
           r == a % m
           t == b % m
<1>1. /\ p \in Int /\ q \in Int /\ r \in 0..m-1 /\ t \in 0..m-1
      /\ a = m * p + r /\ b = m * q + t
  OBVIOUS
<1> HIDE DEF p, q, r, t
<1>2. m * (q - p) = m * q - m * p /\ m * (q - p - 1) = m * q - m * p - m
  BY <1>1
<1>3. m * p \in Int /\ m * q \in Int
  BY <1>1
<1>4. CASE r <= t
  <2> DEFINE x == b - a
             k == q - p
             l == t - r
  <2>1. x = m * k + l /\ l \in 0..m-1 /\ k \in Int /\ x \in Int
    BY <1>1, <1>2, <1>3, <1>4
  <2> HIDE DEF x, k, l
  <2>2. x % m = l
    BY <2>1, RemainderUnique
  <2> USE DEF x, l
  <2> QED
    BY <1>1, <1>4, <2>2 DEF CounterDiff, r, t
<1>5. CASE t < r
  <2> DEFINE x == b - a
             k == q - p - 1
             l == m - r + t
  <2>1. x = m * k + l /\ l \in 0..m-1 /\ k \in Int /\ x \in Int
    BY <1>1, <1>2, <1>3, <1>5
  <2> HIDE DEF x, k, l
  <2>2. x % m = l
    BY <2>1, RemainderUnique
  <2> USE DEF x, l
  <2> QED
    BY <1>1, <1>5, <2>2 DEF CounterDiff, r, t
<1> QED
  BY <1>1, <1>4, <1>5
-----------------------------------------------------------------------------
(* The frames the parser remembers arrived before, with their own counter  *)
(* if they are undamaged.                                                  *)
LEMMA CounterArrive ==
    ASSUME Safe, CounterInv, NEW n \in Arrivals, NEW v \in FramesFor(n),
           saveContinuationPacket(v) \/ RejectPointer(v) \/ StartScan(v)
    PROVE  /\ Arrived = v /\ v \in Frame /\ v.n = n /\ next <= n + 1
           /\ v.clean => v.counter = n % CounterMod
           /\ report' = checkForSkippedVCDU(v)
           /\ CounterInv'
<1>1. Arrive(v)
  BY DEF saveContinuationPacket, RejectPointer, StartScan
<1>2. v \in Frame /\ v.n = n /\ n \in Nat /\ pc = "idle" /\ next' = n + 1
  BY <1>1, ArriveFacts, DemuxAssumption DEF Safe
<1>3. next \in Nat /\ next <= n + 1 /\ v # Nil /\ vcdu = Nil
  BY <1>2, DemuxAssumption DEF Arrivals, Safe, TypeOK
<1>4. v.clean => v.counter = n % CounterMod
  <2>1. CASE v = CleanFrame(n)
    BY <2>1 DEF CleanFrame
  <2>2. CASE v \in DamagedFrames(n)
    BY <2>2 DEF DamagedFrames
  <2> QED
    BY <2>1, <2>2 DEF FramesFor
<1>5. lastVCDU # Nil => lastVCDU \in Frame /\ lastVCDU.n \in Nat
  BY DemuxAssumption DEF Safe, TypeOK, Frame
<1>6. CASE saveContinuationPacket(v) \/ RejectPointer(v)
  <2>1. lastVCDU' = v /\ vcdu' = Nil /\ pc' = "idle"
    BY <1>2, <1>3, <1>6 DEF saveContinuationPacket, RejectPointer, parse
  <2> QED
    BY <1>1, <1>2, <1>3, <1>4, <2>1 DEF CounterInv, Arrived, Arrive
<1>7. CASE StartScan(v)
  <2>1. lastVCDU' = lastVCDU /\ vcdu' = v /\ pc' = "scan"
    BY <1>7 DEF StartScan
  <2> QED
    BY <1>1, <1>2, <1>3, <1>4, <1>5, <2>1 DEF CounterInv, Arrived, Arrive
<1> QED
  BY <1>6, <1>7

(* CounterInv is preserved by every turn of ParseMSDUs' loop and its end. *)
LEMMA CounterScan ==
    ASSUME Safe, CounterInv,
           \/ \E h \in HeaderHere : SkipFill(h) \/ FillPastEnd(h) \/ SavePartial(h) \/ TakePacket(h)
           \/ EndScan,
           pc = "scan"
    PROVE  CounterInv'
<1>1. vcdu \in Frame /\ vcdu.n \in Nat /\ next = vcdu.n + 1
  BY ScanLimit
<1>2. lastVCDU' \in {lastVCDU, vcdu} /\ vcdu' \in {vcdu, Nil} /\ next' = next
  BY DEF SkipFill, FillPastEnd, SavePartial, TakePacket, EndScan, link
<1> QED
  BY <1>1, <1>2 DEF CounterInv

(* CounterInv is inductive under Safe. *)
LEMMA CounterInvariant == Spec => []CounterInv
<1>1. Init => CounterInv
  BY DEF Init, CounterInv
<1>2. Safe /\ CounterInv /\ [Next]_vars => CounterInv'
  <2> SUFFICES ASSUME Safe, CounterInv, [Next]_vars PROVE CounterInv'
    OBVIOUS
  <2>1. ASSUME NEW n \in Arrivals, NEW v \in FramesFor(n),
               saveContinuationPacket(v) \/ RejectPointer(v) \/ StartScan(v)
        PROVE  CounterInv'
    BY <2>1, CounterArrive
  <2>2. CASE \/ Scanning /\ \E h \in HeaderHere :
                  SkipFill(h) \/ FillPastEnd(h) \/ SavePartial(h) \/ TakePacket(h)
             \/ EndScan
    BY <2>2, CounterScan DEF Scanning, EndScan
  <2>3. CASE UNCHANGED vars
    BY <2>3 DEF vars, link, parse, CounterInv
  <2> QED
    BY <2>1, <2>2, <2>3 DEF Next
<1> QED
  BY <1>1, <1>2, SafeInvariant, PTL DEF Spec

(* What a step between frames reports of an undamaged frame. *)
LEMMA GapStep ==
    ASSUME Safe, CounterInv, [Next]_vars, ~UNCHANGED vars,
           pc = "idle", lastVCDU # Nil, lastVCDU.clean, Arrived.clean
    PROVE  report' # "ok" <=> (Arrived.n - lastVCDU.n) % CounterMod > 1
<1>1. PICK n \in Arrivals : \E v \in FramesFor(n) :
              saveContinuationPacket(v) \/ RejectPointer(v) \/ StartScan(v)
  BY DEF Next, Scanning, EndScan
<1>2. PICK v \in FramesFor(n) : saveContinuationPacket(v) \/ RejectPointer(v) \/ StartScan(v)
  BY <1>1
<1>3. /\ Arrived = v /\ v \in Frame /\ v.n = n /\ next <= n + 1
      /\ v.clean => v.counter = n % CounterMod
      /\ report' = checkForSkippedVCDU(v)
  BY <1>2, CounterArrive
<1> DEFINE m == lastVCDU.n
<1>4. lastVCDU \in Frame /\ m \in Nat /\ n \in Nat /\ next \in Nat
  BY <1>1, DemuxAssumption DEF Safe, TypeOK, Frame, Arrivals
<1>5. m < next /\ lastVCDU.counter = m % CounterMod
  BY <1>4 DEF CounterInv
<1>6. m <= n /\ v.counter = n % CounterMod /\ CounterMod \in Nat \ {0}
  BY <1>3, <1>4, <1>5, DemuxAssumption
<1> HIDE DEF m
<1>7. CounterDiff(CounterMod, lastVCDU.counter, v.counter) = (n - m) % CounterMod
  BY <1>4, <1>5, <1>6, CounterDistance
<1>8. report' # "ok" <=> CounterDiff(CounterMod, lastVCDU.counter, v.counter) > 1
  BY <1>3 DEF checkForSkippedVCDU
<1> QED
  BY <1>3, <1>7, <1>8 DEF m

(* A loss between undamaged frames is reported exactly when the wrapped    *)
(* counters of the frames on its two sides show one, whatever was lost,    *)
(* damaged or repeated before.                                             *)
THEOREM ReportsGaps == Spec => GapReported
<1>1. /\ Safe /\ CounterInv /\ [Next]_vars
      => [pc = "idle" /\ lastVCDU # Nil /\ lastVCDU.clean /\ Arrived.clean =>
             (report' # "ok" <=> (Arrived.n - lastVCDU.n) % CounterMod > 1)]_vars
  BY GapStep
<1> QED
  BY <1>1, SafeInvariant, CounterInvariant, PTL DEF Spec, GapReported
-----------------------------------------------------------------------------
(* Counting bad SDUs and gaps. *)

(* Both are numbers. *)
LEMMA CountType ==
    ASSUME Safe
    PROVE  /\ IsFiniteSet(Bad(Handed)) /\ Cardinality(Bad(Handed)) \in Nat
           /\ IsFiniteSet(Gaps) /\ Cardinality(Gaps) \in Nat
<1>1. out \in Seq(SDU) /\ ret \in Seq(SDU) /\ seen \subseteq 0..next-1 /\ next \in Nat
  BY DemuxAssumption DEF Safe, TypeOK
<1>2. DOMAIN Handed = 1..Len(Handed) /\ Len(Handed) \in Nat
  BY <1>1, ConcatProperties, LenProperties DEF Handed
<1>3. IsFiniteSet(1..Len(Handed)) /\ IsFiniteSet(0..next-1)
  BY <1>1, <1>2, FS_Interval
<1>4. Bad(Handed) \subseteq 1..Len(Handed) /\ Gaps \subseteq 0..next-1
  BY <1>1, <1>2 DEF Bad, Gaps
<1> QED
  BY <1>3, <1>4, FS_Subset, FS_CardinalityType

(* An SDU that joins adds one to the bad ones, unless it is good. *)
LEMMA BadAppend ==
    ASSUME NEW q \in Seq(SDU), NEW x \in SDU
    PROVE  /\ Cardinality(Bad(q)) \in Nat
           /\ Cardinality(Bad(Append(q, x))) =
                 Cardinality(Bad(q)) + (IF x.good THEN 0 ELSE 1)
<1>1. /\ Len(q) \in Nat /\ DOMAIN q = 1..Len(q)
      /\ DOMAIN Append(q, x) = 1..Len(q)+1
      /\ \A i \in 1..Len(q) : Append(q, x)[i] = q[i]
      /\ Append(q, x)[Len(q)+1] = x
  BY AppendProperties, LenProperties
<1>2. Bad(Append(q, x)) = Bad(q) \cup (IF x.good THEN {} ELSE {Len(q)+1})
  BY <1>1 DEF Bad
<1>3. IsFiniteSet(Bad(q)) /\ Len(q)+1 \notin Bad(q)
  <2>1. IsFiniteSet(1..Len(q))
    BY <1>1, FS_Interval
  <2>2. Bad(q) \subseteq 1..Len(q)
    BY <1>1 DEF Bad
  <2> QED
    BY <1>1, <2>1, <2>2, FS_Subset
<1>4. Cardinality(Bad(q)) \in Nat
  BY <1>3, FS_CardinalityType
<1>5. CASE x.good
  <2>1. Bad(Append(q, x)) = Bad(q)
    BY <1>2, <1>5
  <2> QED
    BY <1>4, <1>5, <2>1
<1>6. CASE ~x.good
  <2>1. Bad(Append(q, x)) = Bad(q) \cup {Len(q)+1}
    BY <1>2, <1>6
  <2>2. Cardinality(Bad(q) \cup {Len(q)+1}) = Cardinality(Bad(q)) + 1
    BY <1>3, FS_AddElement
  <2> QED
    BY <1>4, <1>6, <2>1, <2>2
<1> QED
  BY <1>5, <1>6

(* The number of gaps, and how an undamaged arrival changes it. *)
LEMMA GapsArrive ==
    ASSUME Repeats = FALSE, Safe, next > 0 => next - 1 \in seen,
           NEW n \in Arrivals, NEW v \in FramesFor(n), Arrive(v), v.clean
    PROVE  /\ Cardinality(Gaps) \in Nat
           /\ Cardinality(Gaps)' =
                 Cardinality(Gaps) + (IF 0 < next /\ next < n THEN 1 ELSE 0)
<1>1. n \in Nat /\ next \in Nat /\ next <= n /\ seen \subseteq 0..next-1
  BY ArriveLimit DEF Safe, TypeOK
<1>2. seen' = seen \cup {n}
  BY ArriveFacts DEF Safe, Arrive
<1>3. n \notin Gaps
  BY <1>1 DEF Gaps
<1>4. IsFiniteSet(Gaps) /\ Cardinality(Gaps) \in Nat
  BY CountType
<1>5. \A k \in seen : k \in Gaps' <=> k \in Gaps
  BY <1>1, <1>2 DEF Gaps
<1>6. n \in Gaps' <=> 0 < next /\ next < n
  <2>1. n \in Gaps' <=> n - 1 \notin seen /\ \E j \in seen : j < n
    BY <1>1, <1>2 DEF Gaps
  <2>2. n = next /\ 0 < next => n - 1 \in seen
    OBVIOUS
  <2>3. next = 0 => seen = {}
    BY <1>1
  <2>4. 0 < next /\ next < n => n - 1 \notin seen /\ next - 1 < n
    BY <1>1
  <2> QED
    BY <1>1, <2>1, <2>2, <2>3, <2>4
<1>7. Gaps' \subseteq seen \cup {n} /\ Gaps \subseteq seen
  BY <1>2 DEF Gaps
<1>8. CASE 0 < next /\ next < n
  <2>1. Gaps' = Gaps \cup {n}
    BY <1>5, <1>6, <1>7, <1>8
  <2>2. Cardinality(Gaps \cup {n}) = Cardinality(Gaps) + 1
    BY <1>3, <1>4, FS_AddElement
  <2> QED
    BY <1>4, <1>8, <2>1, <2>2
<1>9. CASE ~(0 < next /\ next < n)
  <2>1. Gaps' = Gaps
    BY <1>5, <1>6, <1>7, <1>9
  <2> QED
    BY <1>4, <1>9, <2>1
<1> QED
  BY <1>8, <1>9
-----------------------------------------------------------------------------
(* Each bad SDU is accounted for by a gap. *)

(* The account that SpliceInv keeps of bad SDUs, a spoilt buffer and gaps. *)
Balanced == Cardinality(Bad(Handed)) + (IF Spoilt THEN 1 ELSE 0) <= Cardinality(Gaps)

(* When undamaged frame n arrives and the buffer is not empty, a gap has   *)
(* made room for a bad SDU, or the buffer holds the packet that reaches n. *)
LEMMA SpliceCases ==
    ASSUME Repeats = FALSE, Safe, SpliceInv, NEW n \in Arrivals, NEW v \in FramesFor(n),
           Arrive(v), damaged' = {}
    PROVE  /\ damaged = {} /\ v.clean /\ Balanced
           /\ next' > 0 /\ next' - 1 \in seen'
           /\ Cardinality(Bad(Handed)) \in Nat
           /\ Cardinality(Gaps) \in Nat /\ Cardinality(Gaps)' \in Nat
           /\ Cardinality(Gaps) <= Cardinality(Gaps)'
           /\ lastSDU.len > 0 =>
                 \/ Cardinality(Bad(Handed)) + 1 <= Cardinality(Gaps)'
                 \/ n = next /\ Whole
<1>1. n \in Nat /\ next \in Nat /\ next <= n /\ Handed = out
  BY ArriveLimit
<1>2. next' = n + 1 /\ v.n = n /\ v \in Frame
  BY ArriveFacts DEF Safe
<1>3. damaged = {} /\ v.clean
  BY <1>2 DEF Arrive, Frame
<1>4. /\ next > 0 => next - 1 \in seen
      /\ lastSDU.len > 0 => next > 0
      /\ Balanced
  BY <1>3 DEF SpliceInv, Balanced
<1>5. /\ Cardinality(Gaps) \in Nat
      /\ Cardinality(Gaps)' = Cardinality(Gaps) + (IF 0 < next /\ next < n THEN 1 ELSE 0)
  BY <1>3, <1>4, GapsArrive
<1>6. Cardinality(Bad(Handed)) \in Nat
  BY CountType
<1>7. next' > 0 /\ next' - 1 \in seen'
  BY <1>1, <1>2, <1>3 DEF Arrive
<1> HIDE DEF Balanced
<1>8. ASSUME lastSDU.len > 0
      PROVE  \/ Cardinality(Bad(Handed)) + 1 <= Cardinality(Gaps)'
             \/ n = next /\ Whole
  <2>1. CASE Spoilt
    BY <1>4, <1>5, <1>6, <2>1 DEF Balanced
  <2>2. CASE n # next
    BY <1>1, <1>4, <1>5, <1>6, <1>8, <2>2 DEF Balanced
  <2> QED
    BY <1>8, <2>1, <2>2 DEF Spoilt
<1> QED
  BY <1>3, <1>4, <1>5, <1>6, <1>7, <1>8

(* SpliceInv is preserved by frames without a usable header pointer. *)
LEMMA SpliceIdle ==
    ASSUME Repeats = FALSE, Safe, SpliceInv, NEW n \in Arrivals, NEW v \in FramesFor(n),
           saveContinuationPacket(v) \/ RejectPointer(v)
    PROVE  SpliceInv'
<1> SUFFICES ASSUME damaged' = {}
             PROVE  /\ pc' = "idle" /\ next' - 1 \in seen' /\ next' > 0
                    /\ Balanced'
  BY DEF SpliceInv, Balanced
<1>1. Arrive(v) /\ UNCHANGED <<pc, ret, out>>
  BY DEF saveContinuationPacket, RejectPointer, parse
<1>2. /\ n \in Nat /\ next \in Nat /\ Base(n) \in Nat /\ ZoneLen \in Nat
      /\ Base(n + 1) = Base(n) + ZoneLen /\ Handed' = Handed
  BY <1>1, ArriveLimit DEF Handed
<1>3. /\ v.n = n /\ pc = "idle" /\ next' = n + 1 /\ stream' = stream /\ n \in 0..MaxFrame
      /\ v \in Frame
      /\ v.clean => v.fhp = FirstHeader(n)
  BY <1>1, ArriveFacts DEF Safe
<1>4. /\ v.clean /\ Balanced
      /\ next' > 0 /\ next' - 1 \in seen'
      /\ Cardinality(Bad(Handed)) \in Nat
      /\ Cardinality(Gaps) \in Nat /\ Cardinality(Gaps)' \in Nat
      /\ Cardinality(Gaps) <= Cardinality(Gaps)'
      /\ lastSDU.len > 0 =>
            \/ Cardinality(Bad(Handed)) + 1 <= Cardinality(Gaps)'
            \/ n = next /\ Whole
  BY <1>1, SpliceCases
<1>5. IsLayout(stream) /\ lastSDU \in Buffer
  BY DEF Safe, TypeOK
<1>6. saveContinuationPacket(v) /\ v.fhp = NoHeader /\ HeadersIn(n) = {}
  <2>1. v.fhp >= ZoneLen
    BY <1>2, <1>3, DemuxAssumption DEF saveContinuationPacket, RejectPointer, Frame
  <2>2. v.fhp = NoHeader /\ HeadersIn(n) = {}
    BY <1>2, <1>3, <1>4, <1>5, <2>1, FirstHeaderFacts
  <2> QED
    BY <2>2 DEF RejectPointer
<1>7. Cardinality(Bad(Handed))' = Cardinality(Bad(Handed))
  BY <1>2 DEF Bad
<1>8. CASE lastSDU.len = 0
  <2>1. lastSDU' = lastSDU
    BY <1>6, <1>8 DEF saveContinuationPacket
  <2>2. ~Spoilt'
    BY <1>8, <2>1 DEF Spoilt
  <2>3. Cardinality(Bad(Handed)) <= Cardinality(Gaps)
    BY <1>4 DEF Balanced
  <2> QED
    BY <1>1, <1>3, <1>4, <1>7, <2>2, <2>3 DEF Balanced
<1>9. CASE lastSDU.len > 0 /\ n = next /\ Whole
  <2> DEFINE s == lastSDU.from
  <2>1. s \in Start /\ s < Base(n) /\ Base(n) <= After(s) /\ s \in Nat
        /\ lastSDU.len = Base(n) - s /\ lastSDU.intact = lastSDU.len
    BY <1>5, <1>9, LayoutFacts DEF Whole
  <2>2. After(s) \in Nat /\ s' \in Nat /\ Start' = Start
    BY <1>3, <1>5, <2>1, LayoutFacts, <1>6, <1>9, <1>2 DEF Start, saveContinuationPacket, Extend
  <2>3. ~(After(s) < Base(n) + ZoneLen)
    BY <1>3, <1>5, <1>6, <2>1, EndInZone
  <2>4. lastSDU' = Extend(lastSDU, Base(n), ZoneLen, TRUE)
    BY <1>3, <1>4, <1>6, <1>9 DEF saveContinuationPacket, Frame
  <2>5. lastSDU' = [from |-> s, len |-> Base(n) - s + ZoneLen, intact |-> Base(n) - s + ZoneLen]
    BY <1>2, <1>9, <2>1, <2>4 DEF Extend
  <2>6. After(s)' = After(s) /\ Base(next)' = Base(n) + ZoneLen
    BY <1>2, <1>3, <2>5 DEF After
  <2>7. Whole'
    BY <1>2, <2>1, <2>2, <2>3, <2>5, <2>6 DEF Whole
  <2>8. Cardinality(Bad(Handed)) <= Cardinality(Gaps)
    BY <1>4 DEF Balanced
  <2> QED
    BY <1>1, <1>3, <1>4, <1>7, <2>7, <2>8 DEF Balanced, Spoilt
<1>10. CASE Cardinality(Bad(Handed)) + 1 <= Cardinality(Gaps)'
  BY <1>1, <1>3, <1>4, <1>7, <1>10 DEF Balanced
<1> QED
  BY <1>4, <1>5, <1>8, <1>9, <1>10 DEF Buffer

(* SpliceInv is preserved when the packet in the buffer is completed. *)
LEMMA SpliceStart ==
    ASSUME Repeats = FALSE, Safe, SpliceInv, NEW n \in Arrivals, NEW v \in FramesFor(n),
           StartScan(v)
    PROVE  SpliceInv'
<1> SUFFICES ASSUME damaged' = {}
             PROVE  /\ vcdu'.clean /\ next' - 1 \in seen' /\ next' > 0
                    /\ Balanced'
  BY DEF SpliceInv, Balanced
<1> DEFINE buf == savePartialPacketEnd(v)
           x == Carried(buf)
<1>1. /\ Arrive(v) /\ out' = out /\ vcdu' = v /\ v.fhp <= ZoneLen - 1 /\ lastSDU' = Empty
      /\ ret' = << >> \/ (buf.len > HdrLen /\ ret' = <<x>>)
  BY DEF StartScan
<1>2. n \in Nat /\ Handed = out /\ Base(n) \in Nat
  BY <1>1, ArriveLimit
<1>3. v.n = n /\ v \in Frame /\ v.clean \in BOOLEAN
  BY <1>1, ArriveFacts DEF Safe, Frame
<1>4. /\ v.clean /\ Balanced
      /\ next' > 0 /\ next' - 1 \in seen'
      /\ Cardinality(Bad(Handed)) \in Nat
      /\ Cardinality(Gaps) \in Nat /\ Cardinality(Gaps)' \in Nat
      /\ Cardinality(Gaps) <= Cardinality(Gaps)'
      /\ lastSDU.len > 0 =>
            \/ Cardinality(Bad(Handed)) + 1 <= Cardinality(Gaps)'
            \/ n = next /\ Whole
  BY <1>1, SpliceCases
<1>5. IsLayout(stream) /\ lastSDU \in Buffer /\ out \in Seq(SDU) /\ HdrLen \in Nat
  BY DemuxAssumption DEF Safe, TypeOK
<1>6. x \in SDU
  BY <1>3, <1>5, PartialEndFacts, CarriedType
<1>11. x = [from |-> buf.from,
            good |-> buf.intact = buf.len /\ buf.from \in Start
                     /\ buf.len = stream.size[buf.from]]
  BY DEF Carried
<1>12. lastSDU.len = 0 => buf = lastSDU
  BY DEF savePartialPacketEnd
<1> HIDE DEF x, buf
<1>7. ~Spoilt'
  BY <1>1 DEF Spoilt, Empty
<1>8. Cardinality(Bad(Handed)) <= Cardinality(Gaps)
  BY <1>4 DEF Balanced
<1>9. CASE ret' = << >>
  <2>1. Handed' = Handed
    BY <1>1, <1>2, <1>5, <1>9, ConcatEmptySeq DEF Handed
  <2>2. Cardinality(Bad(Handed))' = Cardinality(Bad(Handed))
    BY <2>1 DEF Bad
  <2> QED
    BY <1>1, <1>4, <1>7, <1>8, <2>2 DEF Balanced
<1>10. CASE ret' # << >>
  <2>1. ret' = <<x>> /\ buf.len > HdrLen
    BY <1>1, <1>10
  <2>2. Handed' = Append(Handed, x)
    BY <1>1, <1>2, <1>5, <1>6, <2>1 DEF Handed
  <2>3. Cardinality(Bad(Handed))' = Cardinality(Bad(Handed)) + (IF x.good THEN 0 ELSE 1)
    <3>1. Bad(Handed)' = Bad(Append(Handed, x))
      BY <2>2 DEF Bad
    <3> QED
      BY <1>2, <1>5, <1>6, <3>1, BadAppend
  <2>4. lastSDU.len > 0
    BY <1>5, <1>12, <2>1 DEF Buffer
  <2>5. CASE Cardinality(Bad(Handed)) + 1 <= Cardinality(Gaps)'
    BY <1>1, <1>4, <1>7, <2>3, <2>5 DEF Balanced
  <2>6. CASE n = next /\ Whole
    <3> DEFINE s == lastSDU.from
    <3>1. s \in Start /\ s < Base(n) /\ After(s) >= Base(n)
      <4>1. After(s) \in Nat
        BY <1>5, <2>6, LayoutFacts DEF Whole
      <4> QED
        BY <1>2, <2>6, <4>1 DEF Whole
    <3>2. lastSDU = [from |-> s, len |-> Base(n) - s, intact |-> Base(n) - s]
      BY <1>5, <2>6 DEF Whole, Buffer
    <3>3. buf = [from |-> s, len |-> stream.size[s], intact |-> stream.size[s]]
      BY <1>1, <1>4, <3>1, <3>2, PacketEnds DEF buf
    <3>4. x.good
      BY <1>11, <3>1, <3>3
    <3> QED
      BY <1>1, <1>4, <1>7, <1>8, <2>3, <3>4 DEF Balanced
  <2> QED
    BY <1>4, <2>4, <2>5, <2>6
<1> QED
  BY <1>9, <1>10

(* SpliceInv is preserved by every turn of ParseMSDUs' loop. *)
LEMMA SpliceLoop ==
    ASSUME Safe, SpliceInv, Scanning, NEW h \in HeaderHere,
           SkipFill(h) \/ FillPastEnd(h) \/ SavePartial(h) \/ TakePacket(h)
    PROVE  SpliceInv'
<1>1. /\ pc = "scan" /\ Left > HdrLen /\ HdrLen \in Nat \ {0}
      /\ UNCHANGED <<stream, next, seen, damaged, pc, vcdu, out>>
      /\ TypeOK /\ AlignedScan /\ IsLayout(stream) /\ out \in Seq(SDU) /\ ret \in Seq(SDU)
  BY DemuxAssumption
  DEF Scanning, SkipFill, FillPastEnd, SavePartial, TakePacket, link, Safe, TypeOK
<1> SUFFICES ASSUME damaged = {}, vcdu.clean,
                    Cardinality(Bad(Handed)) + (IF Spoilt THEN 1 ELSE 0) <= Cardinality(Gaps)
             PROVE  Balanced' /\ (lastSDU'.len > 0 => next > 0)
  BY <1>1 DEF SpliceInv, Balanced
<1>2. /\ vcdu \in Frame /\ vcdu.n \in Nat
      /\ Base(vcdu.n) \in Nat /\ ZoneLen \in Nat
      /\ next = vcdu.n + 1 /\ Base(next) = Base(vcdu.n) + ZoneLen
      /\ at \in 0..ZoneLen /\ Here = Base(vcdu.n) + at /\ Left = ZoneLen - at
  BY <1>1, ScanLimit
<1>3. Here \in Start /\ h.plen \in Nat /\ h.plen = stream.size[Here] - HdrLen
  BY <1>1, <1>2, ScanFacts, HeaderHereFacts
<1>4. lastSDU = Empty
  BY <1>1, <1>2 DEF Safe, BufferInv
<1>5. /\ Cardinality(Bad(Handed)) \in Nat /\ Cardinality(Gaps) \in Nat
      /\ Cardinality(Bad(Handed)) <= Cardinality(Gaps) /\ next > 0
  BY <1>2, <1>4, CountType DEF Spoilt, Empty
<1>6. Gaps' = Gaps
  BY <1>1 DEF Gaps
<1>7. Handed \in Seq(SDU)
  BY <1>1, ConcatProperties DEF Handed
<1>8. CASE TakePacket(h)
  <2> DEFINE x == [from |-> Here, good |-> vcdu.clean]
  <2>1. ret' = Append(ret, x) /\ lastSDU' = lastSDU
    BY <1>8 DEF TakePacket
  <2>2. x \in SDU /\ x.good
    BY <1>2 DEF SDU, Frame
  <2> HIDE DEF x
  <2>3. Handed' = Append(Handed, x)
    BY <1>1, <2>1, <2>2, HandedAppend DEF Handed
  <2>4. Bad(Handed)' = Bad(Append(Handed, x))
    BY <2>3 DEF Bad
  <2>5. Cardinality(Bad(Handed))' = Cardinality(Bad(Handed))
    BY <1>7, <2>2, <2>4, BadAppend
  <2> QED
    BY <1>1, <1>4, <1>5, <1>6, <2>1, <2>5 DEF Balanced, Spoilt, Empty
<1>9. CASE SkipFill(h) \/ FillPastEnd(h)
  <2>1. ret' = ret /\ lastSDU' = lastSDU
    BY <1>9 DEF SkipFill, FillPastEnd
  <2>2. Bad(Handed)' = Bad(Handed)
    BY <1>1, <2>1 DEF Handed, Bad
  <2> QED
    BY <1>1, <1>4, <1>5, <1>6, <2>1, <2>2 DEF Balanced, Spoilt, Empty
<1>10. CASE SavePartial(h)
  <2>1. ret' = ret /\ lastSDU' = Extend(lastSDU, Here, Left, vcdu.clean) /\ h.plen > Left - HdrLen
    BY <1>1, <1>2, <1>3, <1>10 DEF SavePartial, Fits
  <2>2. lastSDU' = [from |-> Here, len |-> Left, intact |-> Left]
    BY <1>2, <1>4, <2>1 DEF Extend, Empty
  <2>3. Bad(Handed)' = Bad(Handed)
    BY <1>1, <2>1 DEF Handed, Bad
  <2>4. Start' = Start /\ Base(next)' = Base(next) /\ After(lastSDU.from)' = After(Here)
    BY <1>1, <2>2 DEF Start, After
  <2>5. After(Here) = Here + stream.size[Here] /\ stream.size[Here] \in Nat /\ Here \in Nat
    BY <1>1, <1>3, LayoutFacts
  <2>6. Base(next) - Here = Left /\ Here < Base(next) /\ Base(next) <= After(Here)
    <3>1. Left > HdrLen /\ HdrLen \in Nat /\ h.plen > Left - HdrLen
      BY <1>1, <2>1
    <3>2. Left \in Nat /\ Left > 0 /\ stream.size[Here] > Left
      BY <1>2, <1>3, <2>5, <3>1
    <3> QED
      BY <1>2, <2>5, <3>2
  <2>7. Whole'
    BY <1>3, <2>2, <2>4, <2>6 DEF Whole
  <2> QED
    BY <1>5, <1>6, <2>3, <2>7 DEF Balanced, Spoilt
<1> QED
  BY <1>8, <1>9, <1>10

(* SpliceInv is preserved by the end of ParseMSDUs. *)
LEMMA SpliceEnd ==
    ASSUME Safe, SpliceInv, EndScan
    PROVE  SpliceInv'
<1>1. /\ pc = "scan" /\ out' = out \o ret /\ ret' = << >> /\ pc' = "idle"
      /\ UNCHANGED <<stream, next, seen, damaged>>
      /\ IsLayout(stream) /\ out \in Seq(SDU) /\ ret \in Seq(SDU)
      /\ lastSDU' = IF Left > 0 THEN Extend(lastSDU, Here, Left, vcdu.clean) ELSE lastSDU
      /\ Left <= HdrLen /\ AlignedScan
  BY DEF EndScan, link, Safe, TypeOK
<1> SUFFICES ASSUME damaged = {}, vcdu.clean,
                    Cardinality(Bad(Handed)) + (IF Spoilt THEN 1 ELSE 0) <= Cardinality(Gaps)
             PROVE  Balanced' /\ (lastSDU'.len > 0 => next > 0)
  BY <1>1 DEF SpliceInv, Balanced
<1>2. /\ vcdu.n \in Nat
      /\ Base(vcdu.n) \in Nat /\ ZoneLen \in Nat /\ HdrLen \in Nat
      /\ next = vcdu.n + 1 /\ Base(next) = Base(vcdu.n) + ZoneLen
      /\ at \in 0..ZoneLen /\ Here = Base(vcdu.n) + at /\ Left = ZoneLen - at
  BY <1>1, ScanLimit, DemuxAssumption
<1>3. Handed' = Handed
  BY <1>1, ConcatProperties, ConcatEmptySeq DEF Handed
<1>4. Bad(Handed)' = Bad(Handed) /\ Gaps' = Gaps
  BY <1>1, <1>3 DEF Gaps, Bad
<1>5. CASE Left > 0
  <2>1. lastSDU = Empty /\ Here \in Start
    BY <1>1, <1>2, <1>5 DEF Safe, BufferInv, AlignedScan
  <2>2. lastSDU' = [from |-> Here, len |-> Left, intact |-> Left]
    BY <1>1, <1>2, <1>5, <2>1 DEF Extend, Empty
  <2>3. Start' = Start /\ Base(next)' = Base(next) /\ After(lastSDU.from)' = After(Here)
    <3>1. stream' = stream /\ next' = next
      BY <1>1
    <3>2. lastSDU'.from = Here
      BY <2>2
    <3> QED
      BY <3>1, <3>2 DEF Start, After
  <2>4. After(Here) \in Nat /\ After(Here) > Here + HdrLen
    BY <1>1, <2>1, LayoutFacts
  <2>5. Base(next) - Here = Left /\ Here < Base(next) /\ Base(next) <= After(Here)
    BY <1>1, <1>2, <1>5, <2>4
  <2>6. Whole'
    BY <2>1, <2>2, <2>3, <2>5 DEF Whole
  <2>7. /\ Cardinality(Bad(Handed)) \in Nat /\ Cardinality(Gaps) \in Nat
        /\ Cardinality(Bad(Handed)) <= Cardinality(Gaps) /\ next > 0
    BY <1>2, <2>1, CountType DEF Spoilt, Empty
  <2> QED
    BY <1>4, <2>6, <2>7 DEF Balanced, Spoilt
<1>6. CASE ~(Left > 0)
  <2>1. lastSDU' = lastSDU /\ next > 0
    BY <1>1, <1>2, <1>6
  <2>2. Spoilt' = Spoilt
    BY <1>1, <2>1 DEF Spoilt, Whole, Start, After, Base
  <2> QED
    BY <1>4, <2>1, <2>2 DEF Balanced
<1> QED
  BY <1>5, <1>6

(* SpliceInv is inductive under Safe when no frame is repeated. *)
LEMMA SpliceInvariant ==
    ASSUME Repeats = FALSE
    PROVE  Spec => []SpliceInv
<1>1. Init => SpliceInv
  <2> SUFFICES ASSUME Init PROVE SpliceInv
    OBVIOUS
  <2>1. Handed = << >>
    BY ConcatEmptySeq DEF Init, Handed
  <2>2. Bad(Handed) = {} /\ Gaps = {}
    BY <2>1 DEF Init, Bad, Gaps
  <2> QED
    BY <2>2, FS_EmptySet DEF Init, SpliceInv, Spoilt, Empty
<1>2. Safe /\ SpliceInv /\ [Next]_vars => SpliceInv'
  <2> SUFFICES ASSUME Safe, SpliceInv, [Next]_vars PROVE SpliceInv'
    OBVIOUS
  <2>1. ASSUME NEW n \in Arrivals, NEW v \in FramesFor(n),
               saveContinuationPacket(v) \/ RejectPointer(v) \/ StartScan(v)
        PROVE  SpliceInv'
    BY <2>1, SpliceIdle, SpliceStart
  <2>2. ASSUME Scanning, NEW h \in HeaderHere,
               SkipFill(h) \/ FillPastEnd(h) \/ SavePartial(h) \/ TakePacket(h)
        PROVE  SpliceInv'
    BY <2>2, SpliceLoop
  <2>3. CASE EndScan
    BY <2>3, SpliceEnd
  <2>4. CASE UNCHANGED vars
    <3>1. UNCHANGED <<stream, next, seen, damaged, pc, vcdu, ret, out, lastSDU>>
      BY <2>4 DEF vars, link, parse
    <3>2. Bad(Handed)' = Bad(Handed) /\ Gaps' = Gaps /\ Spoilt' = Spoilt
      BY <3>1 DEF Handed, Bad, Gaps, Spoilt, Whole, Start, After, Base
    <3> QED
      BY <3>1, <3>2 DEF SpliceInv
  <2> QED
    BY <2>1, <2>2, <2>3, <2>4 DEF Next
<1> QED
  BY <1>1, <1>2, SafeInvariant, PTL DEF Spec

(* SpliceInv bounds the bad SDUs handed over so far by the gaps. *)
LEMMA SpliceBound ==
    ASSUME Safe, SpliceInv
    PROVE  OneSplicePerGap
<1> SUFFICES ASSUME damaged = {} PROVE Cardinality(Bad(out)) <= Cardinality(Gaps)
  BY DEF OneSplicePerGap
<1>1. /\ DOMAIN out = 1..Len(out) /\ Len(out) \in Nat /\ Len(ret) \in Nat
      /\ DOMAIN Handed = 1..Len(Handed) /\ Len(Handed) = Len(out) + Len(ret)
      /\ \A i \in 1..Len(out) : Handed[i] = out[i]
  BY ConcatProperties, LenProperties DEF Handed, Safe, TypeOK
<1>2. Bad(out) \subseteq Bad(Handed)
  BY <1>1 DEF Bad
<1>3. /\ IsFiniteSet(Bad(Handed)) /\ Cardinality(Bad(Handed)) \in Nat
      /\ Cardinality(Gaps) \in Nat
  BY CountType
<1>4. /\ Cardinality(Bad(out)) <= Cardinality(Bad(Handed))
      /\ Cardinality(Bad(out)) \in Nat
  BY <1>2, <1>3, FS_Subset, FS_CardinalityType
<1> QED
  BY <1>3, <1>4 DEF SpliceInv

(***************************************************************************)
(* A loss costs at most one SDU that was never sent: as long as no frame   *)
(* arrives damaged, ParseMSDUs hands over no more splices of two packets   *)
(* than there were gaps in the frames that arrived.                        *)
(***************************************************************************)
THEOREM SplicesBounded ==
    ASSUME Repeats = FALSE
    PROVE  Spec => []OneSplicePerGap
BY SafeInvariant, SpliceInvariant, SpliceBound, PTL
=============================================================================
