--------------------------- MODULE FilePathProofs ---------------------------
(***************************************************************************)
(* Proofs about the way of a file to the application, for all files, APIDs *)
(* and streams, every cut into frames, every loss and damage, and whatever *)
(* files write over one another's SDUs: the types, and that a file whose   *)
(* own SDUs arrive undisturbed reaches it whole.                           *)
(***************************************************************************)
EXTENDS FilePath, LritFileProofs

-----------------------------------------------------------------------------
(* Type correctness. *)

(* A place in the stream, its SDU and its counter. *)
LEMMA PlaceFacts ==
    ASSUME stream \in Streams, NEW k \in 1..Len(stream)
    PROVE  /\ Len(stream) \in Nat /\ DOMAIN stream = 1..Len(stream) /\ k \in DOMAIN stream
           /\ stream[k][1] \in Sent /\ stream[k][2] \in 1..Parts(stream[k][1])
           /\ stream[k] = <<stream[k][1], stream[k][2]>>
           /\ ApidOf(k) = Meta[stream[k][1]].apid /\ ApidOf(k) \in Apids
           /\ Ctr(k) \in 0..CtrMod-1
           /\ GoodSDU(k) \in MSDU /\ GoodSDU(k).file # Nil
<1>1. stream \in Seq(Nat \X Nat) /\ IsStream(stream)
  BY AssemblerAssumption
<1>2. Len(stream) \in Nat /\ DOMAIN stream = 1..Len(stream) /\ k \in DOMAIN stream
  BY <1>1
<1>3. stream[k][1] \in Sent /\ stream[k][2] \in 1..Parts(stream[k][1])
  BY <1>1, <1>2 DEF IsStream
<1>4. stream[k] = <<stream[k][1], stream[k][2]>>
  BY <1>1, <1>2
<1>5. ApidOf(k) = Meta[stream[k][1]].apid /\ ApidOf(k) \in Apids
  BY <1>3, MetaFacts DEF ApidOf
<1>6. Ctr(k) \in 0..CtrMod-1
  <2> DEFINE ahead == {j \in 1..k-1 : ApidOf(j) = ApidOf(k)}
  <2>1. IsFiniteSet(1..k-1)
    BY FS_Interval
  <2>2. IsFiniteSet(ahead)
    BY <2>1, FS_Subset
  <2>3. Cardinality(ahead) \in Nat
    BY <2>2, FS_CardinalityType
  <2>4. Ctr(k) = Cardinality(ahead) % CtrMod
    BY DEF Ctr
  <2>5. CtrMod \in Nat /\ CtrMod > 1
    BY AssemblerAssumption
  <2> HIDE DEF ahead
  <2> QED
    BY <2>3, <2>4, <2>5
<1>7. GoodSDU(k) \in MSDU /\ GoodSDU(k).file = stream[k][1]
  BY <1>3, <1>6 DEF GoodSDU, MSDU
<1> QED
  BY <1>2, <1>3, <1>4, <1>5, <1>6, <1>7, MetaFacts

(* What the headers of bad SDUs say. *)
LEMMA BadHeadersType ==
    ASSUME NEW bad \in BadHeaders
    PROVE  bad \subseteq Apids \X (0..CtrMod-1)
<1>1. PICK n \in 0..MaxBad - bads : bad \in {ToSet(b) : b \in [1..n -> Apids \X (0..CtrMod-1)]}
  BY DEF BadHeaders
<1>2. PICK b \in [1..n -> Apids \X (0..CtrMod-1)] : bad = ToSet(b)
  BY <1>1
<1> QED
  BY <1>2 DEF ToSet

(* Which places lie in a file's way, and whose file is exposed. *)
LEMMA InTheWayFacts ==
    ASSUME stream \in Streams, NEW zone \in SUBSET (1..Len(stream)), NEW j, NEW k,
           InTheWay(zone, j, k)
    PROVE  /\ j \in zone /\ k \in zone /\ j < k /\ stream[j][2] = 1
           /\ stream[j][1] \in Sent /\ stream[j][2] \in Nat
           /\ stream[k][1] \in Sent /\ stream[k] \in Sent \X Nat
           /\ stream[k][1] \in Exposed(zone)
           /\ stream[k][2] = 1 => stream[j][1] \in Exposed(zone)
<1>1. j \in zone /\ k \in zone /\ j < k /\ stream[j][2] = 1
  BY DEF InTheWay
<1>2. j \in 1..Len(stream) /\ k \in 1..Len(stream)
  BY <1>1
<1>3. stream[j][1] \in Sent /\ stream[k][1] \in Sent
      /\ stream[k] = <<stream[k][1], stream[k][2]>>
      /\ stream[k][2] \in 1..Parts(stream[k][1])
  BY <1>2, PlaceFacts
<1>4. stream[k][2] \in Nat
  BY <1>3, MetaFacts
<1>5. stream[k][1] \in Exposed(zone) /\ (stream[k][2] = 1 => stream[j][1] \in Exposed(zone))
  BY <1>1, <1>3 DEF Exposed
<1>6. stream[k] \in Sent \X Nat
  <2> DEFINE f == stream[k][1]
             p == stream[k][2]
  <2>1. stream[k] = <<f, p>> /\ f \in Sent /\ p \in Nat
    BY <1>3, <1>4
  <2> HIDE DEF f, p
  <2> QED
    BY <2>1
<1>7. stream[j][2] \in Nat
  BY <1>1
<1> QED
  BY <1>1, <1>3, <1>5, <1>6, <1>7

(* A frame. *)
LEMMA TypeDeliver ==
    ASSUME TypeOK, UNCHANGED <<lf, LRITOutput, received>>,
           NEW now \in pos+1 .. Len(stream), NEW come \in SUBSET (pos+1..now), NEW carried,
           NEW bad \in BadHeaders, Deliver(come, carried, now, bad)
    PROVE  TypeOK'
<1>1. stream \in Streams /\ pos \in 0..Len(stream) /\ Len(stream) \in Nat
  <2>1. stream \in Streams /\ pos \in 0..Len(stream)
    BY DEF TypeOK, AssemblerTypeOK
  <2> QED
    BY <2>1, PlacesOf, AssemblerAssumption
<1>2. now \in Nat /\ now \in 0..Len(stream) /\ come \subseteq 1..Len(stream)
  BY <1>1
<1>3. \A k \in 1..Len(stream) : GoodSDU(k) \in MSDU /\ stream[k][1] \in Sent
  BY <1>1, PlaceFacts
<1>4. \A b \in bad : BadSDU(b[2]) \in MSDU
  <2>1. \A b \in bad : b[2] \in 0..CtrMod-1
    BY BadHeadersType
  <2> QED
    BY <2>1 DEF BadSDU, MSDU
<1>5. APIDs' \in [Apids -> SUBSET MSDU]
  <2>1. \A a \in Apids : {GoodSDU(k) : k \in {k \in come : ApidOf(k) = a}}
                           \cup {BadSDU(b[2]) : b \in {b \in bad : b[1] = a}} \in SUBSET MSDU
    BY <1>2, <1>3, <1>4
  <2> QED
    BY <2>1 DEF Deliver
<1>6. hurt' \subseteq Sent /\ exposed' \subseteq Sent
  <2>1. (pos+1..now) \ come \subseteq 1..Len(stream)
    BY <1>1, <1>2
  <2>2. Suffering(come, now, bad) \subseteq Sent
    BY <1>2, <1>3, <2>1 DEF Suffering
  <2>3. Exposed(come \ carried) \subseteq Sent
    BY DEF Exposed
  <2> QED
    BY <2>2, <2>3 DEF Deliver, TypeOK, AssemblerTypeOK
<1>7. spoilt' \subseteq Sent \X Nat /\ inWay' \subseteq Sent \X (Sent \X Nat)
  <2>1. come \ carried \in SUBSET (1..Len(stream))
    BY <1>2
  <2>2. ASSUME NEW p \in come \X come, InTheWay(come \ carried, p[1], p[2])
        PROVE  <<stream[p[1]][1], stream[p[2]]>> \in Sent \X (Sent \X Nat)
    <3>1. stream[p[1]][1] \in Sent /\ stream[p[2]] \in Sent \X Nat
      BY <1>1, <2>1, <2>2, InTheWayFacts
    <3> QED
      BY <3>1
  <2>3. inWay' = {<<stream[p[1]][1], stream[p[2]]>> :
                    p \in {p \in come \X come : InTheWay(come \ carried, p[1], p[2])}}
        /\ spoilt' = {}
    BY DEF Deliver
  <2> QED
    BY <2>2, <2>3
<1>8. stream' = stream /\ pos' = now /\ UNCHANGED <<cur, lastAppliedSDU, Files, TransportOutput>>
  BY DEF Deliver
<1> QED
  BY <1>1, <1>2, <1>5, <1>6, <1>7, <1>8 DEF TypeOK, AssemblerTypeOK

(* The gap in front of an SDU is a number. *)
LEMMA SkippedType ==
    ASSUME TypeOK, cur \in Apids, NEW s \in MSDU, lastAppliedSDU[cur] # Nil, Sent # {}
    PROVE  Skipped(s) \in Nat
<1>1. lastAppliedSDU[cur] \in 0..CtrMod-1 /\ s.ctr \in 0..CtrMod-1
  BY DEF TypeOK, AssemblerTypeOK, MSDU
<1>2. CtrMod \in Nat
  BY AssemblerAssumption
<1>3. CounterDiff(CtrMod, lastAppliedSDU[cur], s.ctr) - 1 \in Int
  BY <1>1, <1>2 DEF CounterDiff
<1> QED
  BY <1>3, WordFacts, Zenon DEF Skipped

(* The open file behind a gap. *)
LEMMA ProcessSkippedType ==
    ASSUME TypeOK, cur \in Apids, NEW s \in MSDU
    PROVE  processAnySkippedSDU(s) \in FileType \cup {Nil}
<1>1. Files[cur] \in FileType \cup {Nil}
  BY DEF TypeOK, AssemblerTypeOK
<1>2. CASE Files[cur] = Nil \/ lastAppliedSDU[cur] = Nil
  BY <1>1, <1>2 DEF processAnySkippedSDU
<1>3. CASE Files[cur] \in FileType /\ lastAppliedSDU[cur] # Nil
  <2>1. Sent # {}
    BY <1>3 DEF FileType
  <2>2. Skipped(s) \in Nat
    BY <1>3, <2>1, SkippedType
  <2>3. Fill(Files[cur], Skipped(s)) \in FileType
    BY <1>3, <2>2, FillType
  <2> QED
    BY <1>1, <2>3 DEF processAnySkippedSDU
<1> QED
  BY <1>1, <1>2, <1>3

(* Sending a file that is closed. *)
LEMMA SendType ==
    ASSUME TypeOK, NEW f \in FileType, Send(f)
    PROVE  TransportOutput' \in Seq(FileType) /\ Len(TransportOutput') <= BufferSize
<1>1. Close(f) \in FileType
  BY CloseType
<1>2. TransportOutput \in Seq(FileType) /\ BufferSize \in Nat
  BY AssemblerAssumption DEF TypeOK, AssemblerTypeOK
<1> QED
  BY <1>1, <1>2 DEF Send

(* Applying an SDU. *)
LEMMA AppliesFacts ==
    ASSUME TypeOK, NEW s, Applies(s)
    PROVE  /\ cur \in Apids /\ s \in MSDU /\ s \in APIDs[cur]
           /\ s.ctr \in 0..CtrMod-1 /\ s.file \in Sent \cup {Nil}
           /\ s.file # Nil => s.part \in 1..Parts(s.file) /\ SentChunk(s.file, s.part) \in Chunk
           /\ APIDs' \in [Apids -> SUBSET MSDU]
           /\ APIDs' = [APIDs EXCEPT ![cur] = @ \ {s}]
           /\ UNCHANGED <<stream, pos, inWay, exposed, cur>>
<1>1. cur \in Apids /\ s \in APIDs[cur] /\ APIDs \in [Apids -> SUBSET MSDU]
  BY DEF Applies, TypeOK, AssemblerTypeOK
<1>2. s \in MSDU
  BY <1>1
<1>3. s.ctr \in 0..CtrMod-1 /\ s.file \in Sent \cup {Nil} /\ (s.file # Nil => s.part \in 1..Parts(s.file))
  BY <1>2 DEF MSDU
<1>4. s.file # Nil => SentChunk(s.file, s.part) \in Chunk
  BY <1>3, SentChunkType
<1>5. APIDs' = [APIDs EXCEPT ![cur] = @ \ {s}] /\ UNCHANGED <<stream, pos, inWay, exposed, cur>>
  BY DEF Applies, link
<1>6. APIDs' \in [Apids -> SUBSET MSDU]
  <2>1. APIDs[cur] \ {s} \in SUBSET MSDU
    BY <1>1
  <2> QED
    BY <1>1, <1>5, <2>1
<1> QED
  BY <1>1, <1>2, <1>3, <1>4, <1>5, <1>6

(* Files write over SDUs in their way only. *)
LEMMA OverType ==
    ASSUME NEW f, NEW g
    PROVE  Over(f, g) \subseteq {w[2] : w \in inWay}
BY DEF Over

(* Applying an SDU, whatever it is. *)
ApplyStep(s) ==
    \/ SkipShort(s) \/ BadCRC(s)
    \/ ContinueFile(s) \/ StartFile(s) \/ FinishFile(s) \/ SingleFile(s)

(* What may be written over with it. *)
LEMMA SpoiltBy ==
    ASSUME NEW s, ApplyStep(s)
    PROVE  spoilt' \subseteq spoilt \cup {w[2] : w \in inWay}
<1>1. ASSUME NEW f, NEW g, WrittenOver(f, g)
      PROVE  spoilt' \subseteq spoilt \cup {w[2] : w \in inWay}
  BY <1>1, OverType DEF WrittenOver
<1>2. CASE SkipShort(s)
  BY <1>2 DEF SkipShort
<1>3. CASE BadCRC(s)
  BY <1>1, <1>3 DEF BadCRC
<1>4. CASE ContinueFile(s)
  BY <1>1, <1>4 DEF ContinueFile
<1>5. CASE StartFile(s)
  BY <1>1, <1>5 DEF StartFile
<1>6. CASE FinishFile(s)
  BY <1>1, <1>6 DEF FinishFile
<1>7. CASE SingleFile(s)
  <2>1. spoilt' \subseteq spoilt \cup Over(Files[cur], processAnySkippedSDU(s))
                              \cup Over(OpenNew(s.file), Close(OpenNew(s.file)))
    BY <1>7 DEF SingleFile
  <2> QED
    BY <2>1, OverType
<1> QED
  BY <1>2, <1>3, <1>4, <1>5, <1>6, <1>7 DEF ApplyStep

(* A file with one more SDU. *)
LEMMA AppendedType ==
    ASSUME NEW f \in FileType, NEW s \in MSDU, s.file # Nil,
           NEW parses \in BOOLEAN, NEW decodes \in BOOLEAN
    PROVE  /\ f.file \in Sent
           /\ Appended(f, s, parses, decodes) \in FileType
           /\ Appended(f, s, parses, decodes).file = f.file
<1> DEFINE chunk == SentChunk(s.file, s.part)
           d == f.data \o NonEmpty(chunk)
<1>1. f.file \in Sent /\ f.data \in Seq(Chunk)
  BY DEF FileType
<1>2. s.file \in Sent /\ s.part \in 1..Parts(s.file)
  BY DEF MSDU
<1>3. chunk \in Chunk
  BY <1>2, SentChunkType
<1>4. d \in Seq(Chunk)
  <2>1. NonEmpty(chunk) \in Seq(Chunk)
    BY <1>3, NonEmptyType
  <2> QED
    BY <1>1, <2>1
<1> HIDE DEF chunk
<1>5. AppendSDU(f, chunk, decodes) \in FileType /\ AppendSDU(f, chunk, decodes).file = f.file
  BY <1>1, <1>3, AppendType DEF AppendSDU, FileType
<1>6. [f EXCEPT !.data = d] \in FileType /\ [f EXCEPT !.data = d].file = f.file
  <2> HIDE DEF d
  <2> QED
    BY <1>4 DEF FileType
<1>7. Appended(f, s, parses, decodes) \in {AppendSDU(f, chunk, decodes), [f EXCEPT !.data = d]}
  BY DEF Appended, chunk
<1> QED
  BY <1>1, <1>5, <1>6, <1>7

(* What the steps that apply an SDU write. *)
LEMMA TypeWritten ==
    ASSUME TypeOK, UNCHANGED <<lf, LRITOutput, received>>, NEW s, Applies(s),
           ApplyStep(s), hurt' \subseteq Sent,
           \/ UNCHANGED <<lastAppliedSDU, Files>>
           \/ \E f \in FileType \cup {Nil} : DropThen(f) \/ Applied(s, f),
           TransportOutput' \in Seq(FileType) /\ Len(TransportOutput') <= BufferSize
    PROVE  TypeOK'
<1>1. cur \in Apids /\ s.ctr \in 0..CtrMod-1 /\ APIDs' \in [Apids -> SUBSET MSDU]
      /\ UNCHANGED <<stream, pos, inWay, exposed, cur>>
  BY AppliesFacts
<1>2. Files \in [Apids -> FileType \cup {Nil}] /\ lastAppliedSDU \in [Apids -> (0..CtrMod-1) \cup {Nil}]
  BY DEF TypeOK, AssemblerTypeOK
<1>3. Files' \in [Apids -> FileType \cup {Nil}] /\ lastAppliedSDU' \in [Apids -> (0..CtrMod-1) \cup {Nil}]
  <2>1. CASE UNCHANGED <<lastAppliedSDU, Files>>
    BY <1>2, <2>1
  <2>2. CASE \E f \in FileType \cup {Nil} : DropThen(f) \/ Applied(s, f)
    <3>1. PICK f \in FileType \cup {Nil} : DropThen(f) \/ Applied(s, f)
      BY <2>2
    <3>2. Files' = [Files EXCEPT ![cur] = f]
      BY <3>1 DEF DropThen, Applied
    <3>3. lastAppliedSDU' = [lastAppliedSDU EXCEPT ![cur] = Nil]
          \/ lastAppliedSDU' = [lastAppliedSDU EXCEPT ![cur] = s.ctr]
      BY <3>1 DEF DropThen, Applied
    <3> QED
      BY <1>1, <1>2, <3>2, <3>3
  <2> QED
    BY <2>1, <2>2
<1>4. spoilt' \subseteq Sent \X Nat
  <2>1. spoilt \subseteq Sent \X Nat /\ \A w \in inWay : w[2] \in Sent \X Nat
    BY DEF TypeOK, AssemblerTypeOK
  <2> QED
    BY <2>1, SpoiltBy
<1> QED
  BY <1>1, <1>3, <1>4 DEF TypeOK, AssemblerTypeOK

(* Applying an SDU, whatever it is, keeps the types. *)
LEMMA TypeApply ==
    ASSUME TypeOK, UNCHANGED <<lf, LRITOutput, received>>, cur # Nil, NEW s \in APIDs[cur],
           ApplyStep(s)
    PROVE  TypeOK'
<1>1. Applies(s)
  BY DEF ApplyStep, SkipShort, BadCRC, ContinueFile, StartFile, FinishFile, SingleFile
<1>2. /\ cur \in Apids /\ s \in MSDU /\ s.file \in Sent \cup {Nil}
      /\ s.file # Nil => SentChunk(s.file, s.part) \in Chunk
  BY <1>1, AppliesFacts
<1>3. hurt \subseteq Sent /\ TransportOutput \in Seq(FileType) /\ Len(TransportOutput) <= BufferSize
  BY DEF TypeOK, AssemblerTypeOK
<1>4. CASE SkipShort(s) \/ BadCRC(s)
  BY <1>1, <1>3, <1>4, TypeWritten DEF SkipShort, BadCRC
<1>5. CASE ContinueFile(s)
  <2> DEFINE f == processAnySkippedSDU(s)
  <2>0. s.file # Nil
    BY <1>5 DEF ContinueFile
  <2>1. f \in FileType \cup {Nil}
    BY <1>2, ProcessSkippedType
  <2>2. CASE /\ f = Nil /\ Applied(s, Nil) /\ UNCHANGED <<hurt, spoilt, TransportOutput>>
    <3>1. \E g \in FileType \cup {Nil} : DropThen(g) \/ Applied(s, g)
      BY <2>2
    <3>2. hurt' \subseteq Sent /\ TransportOutput' \in Seq(FileType) /\ Len(TransportOutput') <= BufferSize
      BY <1>3, <2>2
    <3> QED
      BY <1>1, <3>1, <3>2, TypeWritten
  <2>3. CASE /\ f # Nil
             /\ \E parses, decodes \in BOOLEAN :
                 \E g \in {Appended(f, s, parses, decodes)} :
                   /\ Appending(s, f, parses, decodes)
                   /\ WrittenOver(Files[cur], g)
                   /\ Applied(s, g)
             /\ UNCHANGED TransportOutput
    <3>1. PICK parses \in BOOLEAN, decodes \in BOOLEAN :
             /\ Appending(s, f, parses, decodes)
             /\ Applied(s, Appended(f, s, parses, decodes))
      BY <2>3
    <3>2. f \in FileType /\ f.file \in Sent /\ Appended(f, s, parses, decodes) \in FileType
      <4>1. f \in FileType
        BY <2>1, <2>3
      <4> HIDE DEF f
      <4> QED
        BY <1>2, <2>0, <4>1, AppendedType
    <3>3. hurt' \subseteq Sent
      BY <1>2, <1>3, <2>0, <3>1, <3>2 DEF Appending
    <3>4. \E g \in FileType \cup {Nil} : DropThen(g) \/ Applied(s, g)
      BY <3>1, <3>2
    <3>5. TransportOutput' \in Seq(FileType) /\ Len(TransportOutput') <= BufferSize
      BY <1>3, <2>3
    <3> QED
      BY <1>1, <3>3, <3>4, <3>5, TypeWritten
  <2> QED
    BY <1>5, <2>2, <2>3 DEF ContinueFile
<1>6. CASE StartFile(s)
  <2>1. s.file \in Sent
    BY <1>2, <1>6 DEF StartFile, FirstPart
  <2>2. OpenNew(s.file) \in FileType
    BY <2>1, OpenNewType
  <2>3. \E g \in FileType \cup {Nil} : DropThen(g) \/ Applied(s, g)
    BY <1>6, <2>2 DEF StartFile
  <2>4. hurt' \subseteq Sent /\ TransportOutput' \in Seq(FileType) /\ Len(TransportOutput') <= BufferSize
    BY <1>3, <1>6 DEF StartFile
  <2> QED
    BY <1>1, <2>3, <2>4, TypeWritten
<1>7. CASE FinishFile(s)
  <2> DEFINE f == processAnySkippedSDU(s)
  <2>0. s.file # Nil
    BY <1>7 DEF FinishFile, LastPart
  <2>1. f \in FileType \cup {Nil}
    BY <1>2, ProcessSkippedType
  <2>2. CASE /\ f = Nil /\ Applied(s, Nil) /\ UNCHANGED <<hurt, spoilt, TransportOutput>>
    <3>1. \E g \in FileType \cup {Nil} : DropThen(g) \/ Applied(s, g)
      BY <2>2
    <3>2. hurt' \subseteq Sent /\ TransportOutput' \in Seq(FileType) /\ Len(TransportOutput') <= BufferSize
      BY <1>3, <2>2
    <3> QED
      BY <1>1, <3>1, <3>2, TypeWritten
  <2>3. CASE /\ f # Nil
             /\ \E parses, decodes \in BOOLEAN :
                 \E g \in {Appended(f, s, parses, decodes)} :
                   /\ Appending(s, f, parses, decodes)
                   /\ WrittenOver(Files[cur], g)
                   /\ IF HeadersPopulated(g) THEN Send(g) ELSE UNCHANGED TransportOutput
             /\ DropThen(Nil)
    <3>1. PICK parses \in BOOLEAN, decodes \in BOOLEAN :
                 \E g \in {Appended(f, s, parses, decodes)} :
                   /\ Appending(s, f, parses, decodes)
                   /\ IF HeadersPopulated(g) THEN Send(g) ELSE UNCHANGED TransportOutput
      BY <2>3
    <3> DEFINE g == Appended(f, s, parses, decodes)
    <3>2. f.file \in Sent /\ g \in FileType
      <4>1. f \in FileType
        BY <2>1, <2>3
      <4> HIDE DEF f
      <4> QED
        BY <1>2, <2>0, <4>1, AppendedType
    <3>3. hurt' \subseteq Sent
      BY <1>2, <1>3, <2>0, <3>1, <3>2 DEF Appending
    <3>4. \E e \in FileType \cup {Nil} : DropThen(e) \/ Applied(s, e)
      BY <2>3
    <3>5. Send(g) \/ UNCHANGED TransportOutput
      BY <3>1
    <3>6. TransportOutput' \in Seq(FileType) /\ Len(TransportOutput') <= BufferSize
      <4> HIDE DEF g
      <4> QED
        BY <1>3, <3>2, <3>5, SendType
    <3> QED
      BY <1>1, <3>3, <3>4, <3>6, TypeWritten
  <2> QED
    BY <1>7, <2>2, <2>3 DEF FinishFile
<1>8. CASE SingleFile(s)
  <2>1. s.file \in Sent
    BY <1>2, <1>8 DEF SingleFile, FirstPart
  <2>2. OpenNew(s.file) \in FileType
    BY <2>1, OpenNewType
  <2>3. \E g \in FileType \cup {Nil} : DropThen(g) \/ Applied(s, g)
    BY <1>8 DEF SingleFile
  <2>4. Send(OpenNew(s.file)) \/ UNCHANGED TransportOutput
    BY <1>8 DEF SingleFile
  <2>5. hurt' \subseteq Sent /\ TransportOutput' \in Seq(FileType) /\ Len(TransportOutput') <= BufferSize
    BY <1>3, <1>8, <2>2, <2>4, SendType DEF SingleFile
  <2> QED
    BY <1>1, <2>3, <2>5, TypeWritten
<1> QED
  BY <1>4, <1>5, <1>6, <1>7, <1>8 DEF ApplyStep

(* The types hold at the start, *)
LEMMA TypeInit == Init => TypeOK
<1> SUFFICES ASSUME Init PROVE TypeOK
  OBVIOUS
<1>1. stream \in Streams /\ pos = 0 /\ hurt = {} /\ cur = Nil /\ TransportOutput = << >>
      /\ inWay = {} /\ spoilt = {} /\ exposed = {}
  BY DEF Init, AssemblerInit
<1>2. Len(stream) \in Nat /\ BufferSize \in Nat
  BY <1>1, AssemblerAssumption
<1>3. /\ APIDs \in [Apids -> SUBSET MSDU]
      /\ lastAppliedSDU \in [Apids -> (0..CtrMod-1) \cup {Nil}]
      /\ Files \in [Apids -> FileType \cup {Nil}]
  BY DEF Init, AssemblerInit
<1>4. lf = Nil /\ LRITOutput = << >> /\ received = << >>
  BY DEF Init, Layer!SessionInit
<1> QED
  BY <1>1, <1>2, <1>3, <1>4 DEF TypeOK, AssemblerTypeOK

(* and every step keeps them. *)
LEMMA TypeNext == TypeOK /\ [Next]_vars => TypeOK'
<1> SUFFICES ASSUME TypeOK, [Next]_vars PROVE TypeOK'
  OBVIOUS
<1>1. CASE Frames /\ UNCHANGED <<lf, LRITOutput, received>>
  BY <1>1, TypeDeliver DEF Frames
<1>2. ASSUME NEW a \in Apids, PickAPID(a), UNCHANGED <<lf, LRITOutput, received>>
      PROVE  TypeOK'
  BY <1>2 DEF PickAPID, TypeOK, AssemblerTypeOK, link, shared
<1>3. ASSUME EndAPID, UNCHANGED <<lf, LRITOutput, received>>
      PROVE  TypeOK'
  BY <1>3 DEF EndAPID, TypeOK, AssemblerTypeOK, link, shared
<1>4. CASE ProcessAllAPIDs /\ UNCHANGED <<lf, LRITOutput, received>>
  <2>1. CASE \E s \in (IF cur = Nil THEN {} ELSE APIDs[cur]) :
                \/ SkipShort(s) \/ BadCRC(s)
                \/ ContinueFile(s) \/ StartFile(s) \/ FinishFile(s) \/ SingleFile(s)
    BY <1>4, <2>1, TypeApply DEF ApplyStep
  <2> QED
    BY <1>2, <1>3, <1>4, <2>1 DEF ProcessAllAPIDs
<1>5. CASE SessionStep
  <2>1. UNCHANGED <<stream, pos, hurt, inWay, spoilt, exposed, APIDs, cur, lastAppliedSDU, Files, received>>
    BY <1>5 DEF SessionStep, link, assembly, Layer!ProcessTransportFile, Layer!SendFile
  <2>2. /\ lf = Nil \/ lf \in FileType
        /\ LRITOutput \in Seq(FileType) /\ Len(LRITOutput) <= BufferSize
        /\ TransportOutput \in Seq(FileType) /\ Len(TransportOutput) <= BufferSize
        /\ BufferSize \in Nat
    BY AssemblerAssumption DEF TypeOK, AssemblerTypeOK
  <2>3. CASE Layer!ProcessTransportFile
    <3>1. /\ TransportOutput # << >> /\ TransportOutput' = Tail(TransportOutput)
          /\ lf' \in {Head(TransportOutput), Nil} /\ LRITOutput' = LRITOutput
      BY <2>3 DEF Layer!ProcessTransportFile
    <3>2. Head(TransportOutput) \in FileType /\ Tail(TransportOutput) \in Seq(FileType)
          /\ Len(Tail(TransportOutput)) <= BufferSize
      BY <2>2, <3>1
    <3> QED
      BY <2>1, <2>2, <3>1, <3>2 DEF TypeOK, AssemblerTypeOK
  <2>4. CASE Layer!SendFile
    <3>1. /\ lf # Nil /\ Len(LRITOutput) < BufferSize /\ LRITOutput' = Append(LRITOutput, lf)
          /\ lf' = Nil /\ TransportOutput' = TransportOutput
      BY <2>4 DEF Layer!SendFile
    <3>2. LRITOutput' \in Seq(FileType) /\ Len(LRITOutput') <= BufferSize
      BY <2>2, <3>1
    <3> QED
      BY <2>1, <2>2, <3>1, <3>2 DEF TypeOK, AssemblerTypeOK
  <2> QED
    BY <1>5, <2>3, <2>4 DEF SessionStep
<1>6. CASE Consume
  <2>1. /\ LRITOutput # << >> /\ received' = Append(received, Head(LRITOutput))
        /\ LRITOutput' = Tail(LRITOutput)
        /\ UNCHANGED <<stream, pos, hurt, inWay, spoilt, exposed, APIDs, cur, lastAppliedSDU, Files,
                       TransportOutput, lf>>
    BY <1>6 DEF Consume, assemblerVars, link, shared, assembly
  <2>2. LRITOutput \in Seq(FileType) /\ Len(LRITOutput) <= BufferSize /\ received \in Seq(FileType)
        /\ BufferSize \in Nat
    BY AssemblerAssumption DEF TypeOK
  <2>3. LRITOutput' \in Seq(FileType) /\ Len(LRITOutput') <= BufferSize /\ received' \in Seq(FileType)
    BY <2>1, <2>2
  <2> QED
    BY <2>1, <2>3 DEF TypeOK, AssemblerTypeOK
<1>7. CASE UNCHANGED vars
  BY <1>7 DEF vars, assemblerVars, link, shared, assembly, TypeOK, AssemblerTypeOK
<1> QED
  BY <1>1, <1>4, <1>5, <1>6, <1>7 DEF Next, TransportStep

(* The way of the files keeps its types. *)
THEOREM FilePathTypes == Spec => []TypeOK
<1> QED
  BY TypeInit, TypeNext, PTL DEF Spec

-----------------------------------------------------------------------------
(* The order of the stream. *)

(* What the stream says of a place and the places ahead of it. *)
LEMMA StreamAt ==
    ASSUME stream \in Streams, NEW k \in 1..Len(stream)
    PROVE  \/ \E j \in 1..k-1 :
                 /\ ApidOf(j) = ApidOf(k)
                 /\ \A i \in 1..k-1 : ApidOf(i) = ApidOf(k) => i <= j
                 /\ stream[k] = <<stream[j][1], stream[j][2] + 1>>
           \/ /\ stream[k][2] = 1
              /\ \A j \in 1..k-1 : ApidOf(j) = ApidOf(k) => stream[j][1] < stream[k][1]
<1>1. IsStream(stream) /\ stream \in Seq(Nat \X Nat)
  BY AssemblerAssumption
<1> QED
  BY <1>1, PlacesOf DEF ApidOf

(* Of two SDUs of an APID, the later one is a later part or file. *)
LEMMA StreamAscends ==
    ASSUME stream \in Streams, NEW k \in 1..Len(stream)
    PROVE  \A i \in 1..k-1 : ApidOf(i) = ApidOf(k) =>
              \/ stream[i][1] < stream[k][1]
              \/ stream[i][1] = stream[k][1] /\ stream[i][2] < stream[k][2]
<1>1. IsStream(stream) /\ stream \in Seq(Nat \X Nat)
  BY AssemblerAssumption
<1> QED
  BY <1>1, Ascends DEF ApidOf

(* An SDU is sent once. *)
LEMMA PlaceUnique ==
    ASSUME stream \in Streams, NEW j \in 1..Len(stream), NEW k \in 1..Len(stream),
           stream[j] = stream[k]
    PROVE  j = k
<1>1. IsStream(stream) /\ stream \in Seq(Nat \X Nat)
  BY AssemblerAssumption
<1> QED
  BY <1>1, SentOnce

(* Two places with the same SDU are one. *)
LEMMA GoodUnique ==
    ASSUME stream \in Streams, NEW j \in 1..Len(stream), NEW k \in 1..Len(stream),
           GoodSDU(j) = GoodSDU(k)
    PROVE  j = k
<1>1. stream[j][1] = stream[k][1] /\ stream[j][2] = stream[k][2]
  BY DEF GoodSDU
<1>2. stream[j] = stream[k]
  BY <1>1, PlaceFacts
<1> QED
  BY <1>2, PlaceUnique

(* A remainder is determined by the division it is left by. *)
LEMMA RemainderUnique ==
    ASSUME NEW m \in Nat \ {0}, NEW q \in Int, NEW r \in 0..m-1, NEW x \in Int,
           x = m * q + r
    PROVE  x % m = r
<1> DEFINE p == x \div m
           s == x % m
<1>1. p \in Int /\ s \in 0..m-1 /\ x = m * p + s
  OBVIOUS
<1> HIDE DEF p, s
<1>2. ASSUME p = q
      PROVE  s = r
  BY <1>1, <1>2
<1>3. ASSUME NEW k \in Int, NEW l \in Int, k > l
      PROVE  m * k >= m * l + m
  <2> DEFINE d == k - l - 1
  <2>1. d \in Nat /\ k = l + 1 + d
    BY <1>3
  <2>2. m * d \in Nat
    BY <2>1
  <2>3. m * (l + 1 + d) = m * l + m + m * d
    BY <2>1
  <2> QED
    BY <2>1, <2>2, <2>3
<1>4. m * p \in Int /\ m * q \in Int
  BY <1>1
<1>5. p > q => m * p >= m * q + m
  BY <1>1, <1>3
<1>6. q > p => m * q >= m * p + m
  BY <1>1, <1>3
<1>7. p = q
  BY <1>1, <1>4, <1>5, <1>6
<1> QED
  BY <1>1, <1>2, <1>7 DEF s

(* The part ahead of a later part: nothing of the APID lies between the    *)
(* two, and their counters are neighbours.                                 *)
LEMMA PartAhead ==
    ASSUME stream \in Streams, NEW k \in 1..Len(stream), stream[k][2] # 1
    PROVE  \E i \in 1..k-1 :
              /\ stream[i][1] = stream[k][1] /\ stream[k][2] = stream[i][2] + 1
              /\ ApidOf(i) = ApidOf(k)
              /\ \A m \in i+1..k-1 : ApidOf(m) # ApidOf(k)
              /\ CounterDiff(CtrMod, Ctr(i), Ctr(k)) = 1
<1>1. PICK i \in 1..k-1 :
         /\ ApidOf(i) = ApidOf(k)
         /\ \A m \in 1..k-1 : ApidOf(m) = ApidOf(k) => m <= i
         /\ stream[k] = <<stream[i][1], stream[i][2] + 1>>
  BY StreamAt
<1>2. stream[i][1] = stream[k][1] /\ stream[k][2] = stream[i][2] + 1
  BY <1>1
<1>3. Len(stream) \in Nat
  BY PlaceFacts
<1>4. \A m \in i+1..k-1 : ApidOf(m) # ApidOf(k)
  BY <1>1, <1>3
<1>5. CounterDiff(CtrMod, Ctr(i), Ctr(k)) = 1
  <2> DEFINE ahead == {j \in 1..i-1 : ApidOf(j) = ApidOf(i)}
  <2> DEFINE all == {j \in 1..k-1 : ApidOf(j) = ApidOf(k)}
  <2>1. all = ahead \cup {i} /\ i \notin ahead
    BY <1>1, <1>3, <1>4
  <2>2. IsFiniteSet(ahead)
    <3>1. IsFiniteSet(1..i-1)
      BY FS_Interval
    <3> QED
      BY <3>1, FS_Subset
  <2>3. Ctr(i) = Cardinality(ahead) % CtrMod /\ Ctr(k) = Cardinality(all) % CtrMod
    BY DEF Ctr
  <2> HIDE DEF ahead, all
  <2>4. Cardinality(ahead) \in Nat /\ Cardinality(all) = Cardinality(ahead) + 1
    BY <2>1, <2>2, FS_CardinalityType, FS_AddElement
  <2>5. CtrMod \in Nat /\ CtrMod > 1
    BY AssemblerAssumption
  <2>6. ASSUME NEW n \in Nat
        PROVE  CounterDiff(CtrMod, n % CtrMod, (n + 1) % CtrMod) = 1
    <3>1. n % CtrMod \in 0..CtrMod-1
      BY <2>5
    <3>2. CASE n % CtrMod < CtrMod - 1
      <4>1. (n + 1) % CtrMod = (n % CtrMod) + 1
        <5> DEFINE q == n \div CtrMod
                   r == n % CtrMod
        <5>1. q \in Int /\ n = CtrMod * q + r
          BY <2>5
        <5>2. r \in 0..CtrMod-1 /\ r < CtrMod - 1
          BY <3>1, <3>2
        <5> HIDE DEF q, r
        <5>3. CtrMod * q \in Int
          BY <2>5, <5>1
        <5>4. n + 1 = CtrMod * q + (r + 1) /\ n + 1 \in Int /\ r + 1 \in 0..CtrMod-1
          BY <2>5, <5>1, <5>2, <5>3
        <5>5. CtrMod \in Nat \ {0}
          BY <2>5
        <5>6. (n + 1) % CtrMod = r + 1
          <6> DEFINE t == r + 1
          <6>1. t \in 0..CtrMod-1 /\ n + 1 \in Int /\ n + 1 = CtrMod * q + t /\ q \in Int
            BY <5>1, <5>4
          <6> HIDE DEF t
          <6>2. (n + 1) % CtrMod = t
            BY <5>5, <6>1, RemainderUnique
          <6> QED
            BY <6>2 DEF t
        <5> QED
          BY <5>6 DEF r
      <4> QED
        BY <2>5, <3>1, <3>2, <4>1 DEF CounterDiff
    <3>3. CASE n % CtrMod = CtrMod - 1
      <4>1. (n + 1) % CtrMod = 0
        <5> DEFINE q == n \div CtrMod
        <5>1. q \in Int /\ n = CtrMod * q + (n % CtrMod)
          BY <2>5
        <5> HIDE DEF q
        <5>2. CtrMod * (q + 1) = CtrMod * q + CtrMod /\ CtrMod * q \in Int
          BY <2>5, <5>1
        <5>3. n + 1 = CtrMod * (q + 1) + 0 /\ q + 1 \in Int /\ n + 1 \in Int
          BY <2>5, <3>3, <5>1, <5>2
        <5>4. 0 \in 0..CtrMod-1 /\ CtrMod \in Nat \ {0}
          BY <2>5
        <5> QED
          BY <5>3, <5>4, RemainderUnique
      <4> QED
        BY <2>5, <3>1, <3>3, <4>1 DEF CounterDiff
    <3> QED
      BY <2>5, <3>1, <3>2, <3>3
  <2> QED
    BY <2>3, <2>4, <2>6
<1> QED
  BY <1>1, <1>2, <1>4, <1>5

(* The part behind an earlier part. *)
LEMMA NextPart ==
    ASSUME stream \in Streams, NEW k \in 1..Len(stream), NEW j \in 1..Len(stream),
           stream[j][1] = stream[k][1], stream[j][2] = stream[k][2] + 1
    PROVE  /\ k < j /\ ApidOf(k) = ApidOf(j)
           /\ \A m \in k+1..j-1 : ApidOf(m) # ApidOf(j)
           /\ CounterDiff(CtrMod, Ctr(k), Ctr(j)) = 1
<1>1. stream[k][2] \in Nat /\ stream[k][2] >= 1 /\ Len(stream) \in Nat
  <2>1. stream[k][1] \in Sent /\ stream[k][2] \in 1..Parts(stream[k][1])
    BY PlaceFacts
  <2> QED
    BY <2>1, MetaFacts, PlaceFacts
<1>2. PICK i \in 1..j-1 :
         /\ stream[i][1] = stream[j][1] /\ stream[j][2] = stream[i][2] + 1
         /\ ApidOf(i) = ApidOf(j)
         /\ \A m \in i+1..j-1 : ApidOf(m) # ApidOf(j)
         /\ CounterDiff(CtrMod, Ctr(i), Ctr(j)) = 1
  BY <1>1, PartAhead
<1>3. i \in 1..Len(stream) /\ i < j
  BY <1>1
<1>4. stream[i][2] \in Nat
  <2>1. stream[i][1] \in Sent /\ stream[i][2] \in 1..Parts(stream[i][1])
    BY <1>3, PlaceFacts
  <2> QED
    BY <2>1, MetaFacts
<1>5. stream[i] = stream[k]
  <2>1. stream[i] = <<stream[i][1], stream[i][2]>> /\ stream[k] = <<stream[k][1], stream[k][2]>>
    BY <1>3, PlaceFacts
  <2>2. stream[i][1] = stream[k][1] /\ stream[i][2] = stream[k][2]
    BY <1>1, <1>2, <1>4
  <2> QED
    BY <2>1, <2>2
<1>6. i = k
  BY <1>3, <1>5, PlaceUnique
<1> QED
  BY <1>2, <1>3, <1>6

-----------------------------------------------------------------------------
(* A file that is opened on its first SDU. *)
LEMMA PartialOpen ==
    ASSUME NEW f \in Sent, Deliverable(f)
    PROVE  OpenNew(f) = Partial(f, 1)
<1> DEFINE r == Parsed(f, 1)
<1>1. 1 \in 1..Parts(f) /\ Meta[f].flagged \in BOOLEAN /\ Meta[f].packed \in BOOLEAN
  BY MetaFacts
<1>2. NonEmpty(SentChunk(f, 1)) = Pieces(f, 1, FALSE)
  <2>1. Unpacked(SentChunk(f, 1), FALSE) = SentChunk(f, 1)
    BY DEF Unpacked
  <2>2. NonEmpty(SentChunk(f, 1)) \in Seq(Chunk)
    BY <1>1, SentChunkType, NonEmptyType
  <2>3. [i \in 1..1-1 |-> Unpacked(SentChunk(f, i + 1), FALSE)] = << >>
    OBVIOUS
  <2>4. Pieces(f, 1, FALSE) = NonEmpty(SentChunk(f, 1)) \o << >>
    BY <2>1, <2>3, Zenon DEF Pieces
  <2>5. \A d \in Seq(Chunk) : d \o << >> = d
    OBVIOUS
  <2> QED
    BY <2>2, <2>4, <2>5, Zenon
<1>3. r <=> (Meta[f].flagged /\ MakeSecondaryHeaders(NonEmpty(SentChunk(f, 1))))
  <2>1. MakeSecondaryHeaders(Pieces(f, 1, FALSE)) <=> (1 >= 2 \/ Meta[f].lens[1] > 0)
    BY <1>1, PiecesOctets
  <2>2. r = (Meta[f].flagged /\ Meta[f].lens[1] > 0)
    BY DEF Parsed
  <2>3. MakeSecondaryHeaders(NonEmpty(SentChunk(f, 1))) <=> Meta[f].lens[1] > 0
    <3>1. ~(1 >= 2)
      OBVIOUS
    <3> QED
      BY <1>2, <2>1, <3>1, Zenon
  <2> HIDE DEF r
  <2> QED
    BY <2>2, <2>3, Zenon
<1>4. Pieces(f, 1, r) = Pieces(f, 1, FALSE)
  <2>1. r \in BOOLEAN
    BY <1>1 DEF Parsed
  <2>2. CASE r = FALSE
    BY <2>2
  <2>3. CASE r = TRUE
    <3>1. ~Meta[f].packed
      BY <2>3 DEF Parsed, Deliverable
    <3> QED
      BY <1>1, <2>3, <3>1, PlainPieces
  <2> QED
    BY <2>1, <2>2, <2>3
<1>5. r = (Meta[f].flagged /\ MakeSecondaryHeaders(NonEmpty(SentChunk(f, 1))))
  <2>1. r \in BOOLEAN
    BY <1>1 DEF Parsed
  <2>2. MakeSecondaryHeaders(NonEmpty(SentChunk(f, 1))) \in BOOLEAN
    BY DEF MakeSecondaryHeaders
  <2> HIDE DEF r
  <2> QED
    BY <1>1, <1>3, <2>1, <2>2, Zenon
<1>6. Partial(f, 1) = [file |-> f, ready |-> r, data |-> Pieces(f, 1, r)]
  BY Zenon DEF Partial, Pieces
<1>7. OpenNew(f) = [file |-> f,
                    ready |-> Meta[f].flagged /\ MakeSecondaryHeaders(NonEmpty(SentChunk(f, 1))),
                    data |-> NonEmpty(SentChunk(f, 1))]
  BY Zenon DEF OpenNew
<1> HIDE DEF r
<1> QED
  BY <1>2, <1>4, <1>5, <1>6, <1>7, Zenon

(* And one to which the next part is appended and decodes. *)
LEMMA PartialAppend ==
    ASSUME NEW f \in Sent, NEW p \in 1..Parts(f), p + 1 \in 1..Parts(f), Deliverable(f)
    PROVE  AppendSDU(Partial(f, p), SentChunk(f, p + 1), TRUE) = Partial(f, p + 1)
<1> DEFINE g == Partial(f, p)
           c == SentChunk(f, p + 1)
           r == Parsed(f, p)
           q == Parsed(f, p + 1)
           P == Pieces(f, p, r)
<1>1. /\ p \in Nat /\ p >= 1 /\ p + 1 # 1 /\ (p + 1 > 2 <=> p >= 2)
      /\ Meta[f].flagged \in BOOLEAN /\ Meta[f].packed \in BOOLEAN
      /\ Meta[f].lens[1] \in Nat
  BY MetaFacts
<1>2. r \in BOOLEAN /\ q \in BOOLEAN /\ (r => q)
  <2>1. q = (p >= 2 \/ Meta[f].lens[1] > 0)
    BY <1>1 DEF Parsed
  <2>2. CASE p = 1
    <3>1. r = (Meta[f].flagged /\ Meta[f].lens[1] > 0)
      BY <2>2 DEF Parsed
    <3> HIDE DEF r, q
    <3> QED
      BY <1>1, <2>1, <3>1
  <2>3. CASE p # 1
    <3>1. r = (p > 2 \/ Meta[f].lens[1] > 0)
      BY <2>3 DEF Parsed
    <3> HIDE DEF r, q
    <3> QED
      BY <1>1, <2>1, <3>1
  <2> QED
    BY <2>2, <2>3
<1>3. g.file = f /\ g.ready = r /\ g.data = P
  <2>1. g = [file |-> f, ready |-> r, data |-> P]
    BY Zenon DEF Partial, Pieces
  <2> HIDE DEF g, r, P
  <2> QED
    BY <2>1
<1>4. (r \/ MakeSecondaryHeaders(P)) = q
  <2>1. MakeSecondaryHeaders(P) <=> (p >= 2 \/ Meta[f].lens[1] > 0)
    BY <1>2, PiecesOctets
  <2>2. q <=> (p >= 2 \/ Meta[f].lens[1] > 0)
    BY <1>1 DEF Parsed
  <2>3. MakeSecondaryHeaders(P) \in BOOLEAN
    BY DEF MakeSecondaryHeaders
  <2> HIDE DEF r, q, P
  <2> QED
    BY <1>2, <2>1, <2>2, <2>3
<1> DEFINE Joined(e) == IF q /\ Meta[f].packed THEN Unpacked(e, TRUE) ELSE e
           old == IF r THEN P ELSE [i \in DOMAIN P |-> Joined(P[i])]
<1>5. AppendSDU(g, c, TRUE) = [g EXCEPT !.ready = q, !.data = old \o NonEmpty(Joined(c))]
  <2>1. (g.ready \/ MakeSecondaryHeaders(g.data)) = q
    BY <1>3, <1>4
  <2> HIDE DEF g, c, r, q, P
  <2> QED
    BY <1>3, <2>1, Zenon DEF AppendSDU
<1>6. old = Pieces(f, p, q)
  <2>1. CASE r
    <3>1. r = q
      BY <1>2, <2>1
    <3> HIDE DEF r, q
    <3> QED
      BY <2>1, <3>1
  <2>2. CASE ~r /\ ~q
    <3>1. r = FALSE /\ q = FALSE
      BY <1>2, <2>2
    <3>2. old = [i \in DOMAIN P |-> P[i]]
      BY <2>2
    <3>3. P \in Seq(Chunk)
      <4> HIDE DEF r
      <4> QED
        BY <1>2, PiecesAre
    <3>4. [i \in DOMAIN P |-> P[i]] = P
      <4> HIDE DEF P
      <4> QED
        BY <3>3
    <3> HIDE DEF r, q
    <3> QED
      BY <3>1, <3>2, <3>4
  <2>3. CASE ~r /\ q
    <3>1. r = FALSE /\ q = TRUE
      BY <1>2, <2>3
    <3>2. P = Pieces(f, p, FALSE) /\ P \in Seq(Chunk)
      <4> HIDE DEF r
      <4> QED
        BY <3>1, PiecesAre
    <3>3. CASE Meta[f].packed
      <4>1. old = [i \in DOMAIN P |-> Unpacked(P[i], TRUE)]
        <5> HIDE DEF r, q, P
        <5> QED
          BY <2>3, <3>3
      <4> HIDE DEF r, q, P, old
      <4> QED
        BY <3>1, <3>2, <4>1, PiecesUnpacked
    <3>4. CASE ~Meta[f].packed
      <4>1. old = [i \in DOMAIN P |-> P[i]]
        <5> HIDE DEF r, q, P
        <5> QED
          BY <2>3, <3>4
      <4>2. [i \in DOMAIN P |-> P[i]] = P
        <5>1. P \in Seq(Chunk)
          BY <3>2
        <5> HIDE DEF P
        <5> QED
          BY <5>1
      <4> HIDE DEF r, q, P, old
      <4> QED
        BY <3>1, <3>2, <3>4, <4>1, <4>2, PlainPieces
    <3> QED
      BY <3>3, <3>4
  <2> QED
    BY <2>1, <2>2, <2>3
<1>7. Joined(c) = Unpacked(c, q)
  <2>1. CASE Meta[f].packed /\ q
    <3>1. q = TRUE
      BY <1>2, <2>1
    <3> HIDE DEF q, c
    <3> QED
      BY <2>1, <3>1
  <2>2. CASE Meta[f].packed /\ ~q
    <3>1. q = FALSE
      BY <1>2, <2>2
    <3>2. Unpacked(c, FALSE) = c
      BY DEF Unpacked
    <3> HIDE DEF q, c
    <3> QED
      BY <2>2, <3>1, <3>2
  <2>3. CASE ~Meta[f].packed
    <3>1. Unpacked(c, q) = c
      BY <2>3, PlainPieces
    <3> HIDE DEF q, c
    <3> QED
      BY <2>3, <3>1
  <2> QED
    BY <1>1, <2>1, <2>2, <2>3
<1>8. Pieces(f, p, q) \o NonEmpty(Unpacked(c, q)) = Pieces(f, p + 1, q)
  <2> HIDE DEF q
  <2> QED
    BY <1>2, PiecesGrow
<1>9. Partial(f, p + 1) = [file |-> f, ready |-> q, data |-> Pieces(f, p + 1, q)]
  BY Zenon DEF Partial, Pieces
<1>10. [g EXCEPT !.ready = q, !.data = Pieces(f, p + 1, q)] = [file |-> f, ready |-> q, data |-> Pieces(f, p + 1, q)]
  <2>1. g = [file |-> f, ready |-> r, data |-> P]
    BY Zenon DEF Partial, Pieces
  <2> DEFINE d == Pieces(f, p + 1, q)
  <2> HIDE DEF g, r, q, P, d
  <2> DEFINE h == [g EXCEPT !.ready = q]
  <2>2. h = [file |-> f, ready |-> q, data |-> P]
    BY <2>1
  <2>3. [h EXCEPT !.data = d] = [file |-> f, ready |-> q, data |-> d]
    <3> HIDE DEF h
    <3> QED
      BY <2>2
  <2>4. [g EXCEPT !.ready = q, !.data = d] = [file |-> f, ready |-> q, data |-> d]
    BY <2>3
  <2> QED
    BY <2>4 DEF d
<1> HIDE DEF r, q, P, Joined, old
<1> QED
  BY <1>5, <1>6, <1>7, <1>8, <1>9, <1>10, Zenon

(* A file with all its parts is sent as it was. *)
LEMMA PartialComplete ==
    ASSUME NEW f \in Sent, Deliverable(f)
    PROVE  LET g == Partial(f, Parts(f)) IN
           /\ HeadersPopulated(g) /\ g \in FileType
           /\ Close(g).file = f /\ Close(g).data = Original[f]
<1> DEFINE g == Partial(f, Parts(f))
<1>1. Parts(f) \in Nat /\ Parts(f) >= 1 /\ Parts(f) \in 1..Parts(f)
  BY MetaFacts
<1>2. Parsed(f, Parts(f)) = TRUE
  <2>1. Meta[f].flagged \in BOOLEAN
    BY MetaFacts
  <2> QED
    BY <1>1, <2>1 DEF Deliverable, Parsed
<1>3. g = [file |-> f, ready |-> TRUE, data |-> Original[f]]
  <2>1. g = [file |-> f, ready |-> Parsed(f, Parts(f)),
     data |-> NonEmpty(Unpacked(SentChunk(f, 1), Parsed(f, Parts(f))))
              \o [i \in 1..Parts(f)-1 |-> Unpacked(SentChunk(f, i + 1), Parsed(f, Parts(f)))]]
    BY Zenon DEF Partial
  <2> QED
    BY <1>2, <2>1 DEF Original
<1>4. Original[f] \in Seq(Chunk) /\ Octets(Original[f]) = DataLength[f] /\ DataLength[f] \in Nat
  BY OriginalType DEF DataLength
<1>5. g.file = f /\ g.ready = TRUE /\ g.data = Original[f] /\ g \in FileType
  BY <1>3, <1>4 DEF FileType
<1> HIDE DEF g
<1>6. MissingRows(g) = 0
  <2>1. DataLength[f] - DataLength[f] = 0
    BY <1>4
  <2>2. 0 % Word = 0
    <3>1. Word \in Nat /\ Word > 0
      BY WordFacts
    <3> QED
      BY <3>1
  <2>3. 0 \div Cols = 0
    BY LritFileAssumption
  <2> QED
    BY <1>4, <1>5, <2>1, <2>2, <2>3 DEF MissingRows
<1>7. Fill(g, 0).file = f /\ Fill(g, 0).data = Original[f]
  <2>1. [i \in 1..0 |-> FillRow(g)] = << >>
    OBVIOUS
  <2>2. Original[f] \o << >> = Original[f]
    BY <1>4
  <2>3. Fill(g, 0) = [g EXCEPT !.data = Original[f]]
    BY <1>5, <2>1, <2>2 DEF Fill
  <2> QED
    BY <1>3, <2>3 DEF g
<1>8. Close(g).file = f /\ Close(g).data = Original[f]
  BY <1>5, <1>6, <1>7 DEF Close
<1> QED
  BY <1>5, <1>8 DEF HeadersPopulated, g

-----------------------------------------------------------------------------
(* The invariant DeliveryInv. *)

(* The stream, place by place. *)
LEMMA PlaceAt ==
    ASSUME stream \in Streams
    PROVE  /\ Len(stream) \in Nat /\ Places = 1..Len(stream)
           /\ \A k \in Places :
                 /\ SduAt[k] \in MSDU /\ SduAt[k].ctr = CtrAt[k] /\ SduAt[k].file # Nil
                 /\ SduAt[k].file = stream[k][1] /\ SduAt[k].part = stream[k][2]
                 /\ stream[k][1] \in Sent /\ stream[k][2] \in 1..Parts(stream[k][1])
                 /\ stream[k][2] \in Nat
                 /\ ApidAt[k] = Meta[stream[k][1]].apid /\ ApidAt[k] \in Apids
                 /\ CtrAt[k] \in 0..CtrMod-1 /\ CtrAt[k] \in Nat
           /\ \A j, k \in Places : SduAt[j] = SduAt[k] => j = k
<1>1. Len(stream) \in Nat /\ Places = 1..Len(stream)
  <2>1. stream \in Seq(Nat \X Nat)
    BY AssemblerAssumption
  <2> QED
    BY <2>1 DEF Places
<1>2. \A k \in Places : SduAt[k] = GoodSDU(k) /\ ApidAt[k] = ApidOf(k) /\ CtrAt[k] = Ctr(k)
  BY DEF SduAt, ApidAt, CtrAt
<1>3. ASSUME NEW k \in Places
      PROVE  /\ SduAt[k] \in MSDU /\ SduAt[k].ctr = CtrAt[k] /\ SduAt[k].file # Nil
             /\ SduAt[k].file = stream[k][1] /\ SduAt[k].part = stream[k][2]
             /\ stream[k][1] \in Sent /\ stream[k][2] \in 1..Parts(stream[k][1])
             /\ stream[k][2] \in Nat
             /\ ApidAt[k] = Meta[stream[k][1]].apid /\ ApidAt[k] \in Apids
             /\ CtrAt[k] \in 0..CtrMod-1 /\ CtrAt[k] \in Nat
  <2>1. /\ stream[k][1] \in Sent /\ stream[k][2] \in 1..Parts(stream[k][1])
        /\ ApidOf(k) = Meta[stream[k][1]].apid /\ ApidOf(k) \in Apids
        /\ Ctr(k) \in 0..CtrMod-1 /\ GoodSDU(k) \in MSDU /\ GoodSDU(k).file # Nil
    BY <1>1, PlaceFacts
  <2>2. GoodSDU(k).ctr = Ctr(k) /\ GoodSDU(k).file = stream[k][1] /\ GoodSDU(k).part = stream[k][2]
    BY DEF GoodSDU
  <2>3. stream[k][2] \in Nat /\ Ctr(k) \in Nat
    BY <2>1, MetaFacts
  <2> QED
    BY <1>2, <2>1, <2>2, <2>3
<1>4. \A j, k \in Places : SduAt[j] = SduAt[k] => j = k
  BY <1>1, <1>2, GoodUnique
<1> QED
  BY <1>1, <1>3, <1>4

(* Between the parts of a file. *)
LEMMA PartsAt ==
    ASSUME stream \in Streams
    PROVE  /\ \A k \in Places : stream[k][2] # 1 =>
                 \E i \in Places :
                    /\ i < k /\ ApidAt[i] = ApidAt[k]
                    /\ stream[i][1] = stream[k][1] /\ stream[k][2] = stream[i][2] + 1
                    /\ stream[k] = <<stream[i][1], stream[i][2] + 1>>
                    /\ CounterDiff(CtrMod, CtrAt[i], CtrAt[k]) = 1
           /\ \A k, j \in Places : stream[j] = <<stream[k][1], stream[k][2] + 1>> =>
                 /\ k < j /\ ApidAt[k] = ApidAt[j] /\ stream[j][1] = stream[k][1]
                 /\ stream[k][2] < Parts(stream[k][1])
                 /\ \A m \in Places : ApidAt[m] = ApidAt[k] => m <= k \/ j <= m
<1>1. Len(stream) \in Nat /\ Places = 1..Len(stream)
  BY PlaceAt
<1>2. \A k \in Places : ApidAt[k] = ApidOf(k) /\ CtrAt[k] = Ctr(k)
  BY DEF ApidAt, CtrAt
<1>3. ASSUME NEW k \in Places, stream[k][2] # 1
      PROVE  \E i \in Places :
                /\ i < k /\ ApidAt[i] = ApidAt[k]
                /\ stream[i][1] = stream[k][1] /\ stream[k][2] = stream[i][2] + 1
                /\ stream[k] = <<stream[i][1], stream[i][2] + 1>>
                /\ CounterDiff(CtrMod, CtrAt[i], CtrAt[k]) = 1
  <2>1. PICK i \in 1..k-1 :
              /\ stream[i][1] = stream[k][1] /\ stream[k][2] = stream[i][2] + 1
              /\ ApidOf(i) = ApidOf(k)
              /\ CounterDiff(CtrMod, Ctr(i), Ctr(k)) = 1
    BY <1>1, <1>3, PartAhead
  <2>2. i \in Places /\ i < k
    BY <1>1
  <2>3. stream[k] = <<stream[k][1], stream[k][2]>>
    BY <1>1, PlaceFacts
  <2> QED
    BY <1>2, <2>1, <2>2, <2>3
<1>4. ASSUME NEW k \in Places, NEW j \in Places, stream[j] = <<stream[k][1], stream[k][2] + 1>>
      PROVE  /\ k < j /\ ApidAt[k] = ApidAt[j] /\ stream[j][1] = stream[k][1]
             /\ stream[k][2] < Parts(stream[k][1])
             /\ \A m \in Places : ApidAt[m] = ApidAt[k] => m <= k \/ j <= m
  <2>1. stream[j][1] = stream[k][1] /\ stream[j][2] = stream[k][2] + 1
    BY <1>4
  <2>2. k < j /\ ApidOf(k) = ApidOf(j) /\ \A m \in k+1..j-1 : ApidOf(m) # ApidOf(j)
    BY <1>1, <2>1, NextPart
  <2>3. stream[k][2] < Parts(stream[k][1])
    <3>1. stream[j][2] \in 1..Parts(stream[j][1]) /\ stream[k][2] \in Nat /\ stream[k][1] \in Sent
      BY PlaceAt
    <3>2. Parts(stream[k][1]) \in Nat
      BY <3>1, MetaFacts
    <3> QED
      BY <2>1, <3>1, <3>2
  <2>4. \A m \in Places : ApidAt[m] = ApidAt[k] => m <= k \/ j <= m
    <3> TAKE m \in Places
    <3> HAVE ApidAt[m] = ApidAt[k]
    <3>1. ApidOf(m) = ApidOf(j)
      BY <1>2, <2>2
    <3>2. m \notin k+1..j-1
      BY <2>2, <3>1
    <3> QED
      BY <1>1, <3>2
  <2> QED
    BY <1>2, <2>1, <2>2, <2>3, <2>4
<1> QED
  BY <1>3, <1>4

(* The stream stays, and with it what is read from it. *)
LEMMA StreamStays ==
    ASSUME stream' = stream
    PROVE  Places' = Places /\ SduAt' = SduAt /\ ApidAt' = ApidAt /\ CtrAt' = CtrAt
<1>1. Places' = Places
  BY DEF Places
<1>2. ApidAt' = ApidAt
  BY DEF ApidAt, ApidOf, Places
<1>3. CtrAt' = CtrAt
  BY DEF CtrAt, Ctr, ApidOf, Places
<1>4. SduAt' = SduAt
  BY DEF SduAt, GoodSDU, Ctr, ApidOf, Places
<1> QED
  BY <1>1, <1>2, <1>3, <1>4

(* Everything that is known of the order in which SDUs come up. *)
Order == WaitingInv /\ Ascending /\ DoneInOrder /\ BadApart

(* What waits once s has come up. *)
LEMMA StillWaiting ==
    ASSUME TypeOK, WaitingInv, NEW s, Applies(s)
    PROVE  /\ Waiting' = {k \in Waiting : SduAt[k] # s}
           /\ \A k \in Waiting : SduAt[k] = s => ApidAt[k] = cur
           /\ \A a \in Apids : APIDs'[a] \subseteq APIDs[a]
           /\ s \notin APIDs'[cur]
<1>1. /\ cur \in Apids /\ s \in APIDs[cur] /\ stream' = stream /\ pos' = pos
      /\ APIDs' = [APIDs EXCEPT ![cur] = @ \ {s}]
  BY AppliesFacts
<1>2. stream \in Streams /\ pos \in 0..Len(stream) /\ APIDs \in [Apids -> SUBSET MSDU]
  BY DEF TypeOK, AssemblerTypeOK
<1>3. Places' = Places /\ SduAt' = SduAt /\ ApidAt' = ApidAt
  BY <1>1, StreamStays
<1>4. Waiting \subseteq Places
  BY <1>2, PlaceAt DEF Waiting
<1>5. \A k \in Places : ApidAt[k] \in Apids /\ SduAt[k].file # Nil
  BY <1>2, PlaceAt
<1>6. ASSUME NEW k \in Places, SduAt[k] = s
      PROVE  ApidAt[k] = cur
  <2>1. PICK m \in Waiting : ApidAt[m] = cur /\ s = SduAt[m]
    BY <1>1, <1>5, <1>6 DEF WaitingInv
  <2>2. m = k
    BY <1>2, <1>4, <1>6, <2>1, PlaceAt
  <2> QED
    BY <2>1, <2>2
<1>7. \A a \in Apids : APIDs'[a] = IF a = cur THEN APIDs[a] \ {s} ELSE APIDs[a]
  BY <1>1, <1>2
<1>8. \A k \in Places : SduAt[k] \in APIDs'[ApidAt[k]]
                          <=> SduAt[k] \in APIDs[ApidAt[k]] /\ SduAt[k] # s
  BY <1>5, <1>6, <1>7
<1>9. Waiting' = {k \in 1..pos : SduAt[k] \in APIDs'[ApidAt[k]]}
  BY <1>1, <1>3 DEF Waiting
<1>10. 1..pos \subseteq Places
  BY <1>2, PlaceAt
<1>11. Waiting' = {k \in Waiting : SduAt[k] # s}
  BY <1>8, <1>9, <1>10 DEF Waiting
<1> QED
  BY <1>1, <1>4, <1>6, <1>7, <1>11

(* Once a place is done it stays done; the one that came up is done. *)
LEMMA StillDone ==
    ASSUME TypeOK, WaitingInv, NEW s, Applies(s)
    PROVE  Done' = Done \cup {k \in Waiting : SduAt[k] = s}
<1>1. pos' = pos
  BY AppliesFacts
<1>2. Waiting' = {k \in Waiting : SduAt[k] # s}
  BY StillWaiting
<1>3. Waiting \subseteq 1..pos
  BY DEF Waiting
<1> QED
  BY <1>1, <1>2, <1>3 DEF Done

(* What is safe was safe before. *)
LEMMA SafeShrinks ==
    ASSUME stream' = stream, hurt \subseteq hurt'
    PROVE  Safe' \subseteq Safe
<1>1. Places' = Places
  BY StreamStays
<1> QED
  BY <1>1 DEF Safe

(* The order holds on when the SDU that is due comes up. *)
LEMMA OrderKept ==
    ASSUME TypeOK, Order, NEW s, Applies(s), hurt \subseteq hurt'
    PROVE  Order'
<1>1. /\ cur \in Apids /\ s \in APIDs[cur] /\ stream' = stream /\ pos' = pos
      /\ \A t \in APIDs[cur] : s.ctr <= t.ctr
  BY AppliesFacts DEF Applies
<1>2. stream \in Streams /\ pos \in 0..Len(stream) /\ APIDs \in [Apids -> SUBSET MSDU]
  BY DEF TypeOK, AssemblerTypeOK
<1>3. Places' = Places /\ SduAt' = SduAt /\ ApidAt' = ApidAt /\ CtrAt' = CtrAt
  BY <1>1, StreamStays
<1>4. /\ Waiting' = {k \in Waiting : SduAt[k] # s}
      /\ Done' = Done \cup {k \in Waiting : SduAt[k] = s}
      /\ \A k \in Waiting : SduAt[k] = s => ApidAt[k] = cur
      /\ \A a \in Apids : APIDs'[a] \subseteq APIDs[a]
      /\ s \notin APIDs'[cur] /\ Safe' \subseteq Safe
  BY <1>1, StillWaiting, StillDone, SafeShrinks DEF Order
<1>5. Waiting \subseteq Places /\ Waiting \subseteq 1..pos
  BY <1>2, PlaceAt DEF Waiting
<1>6. \A k \in Waiting : SduAt[k] \in APIDs[ApidAt[k]] /\ SduAt[k].ctr = CtrAt[k] /\ CtrAt[k] \in Nat
  BY <1>2, <1>5, PlaceAt DEF Waiting
<1>7. WaitingInv'
  <2> SUFFICES ASSUME NEW a \in Apids, NEW t \in APIDs'[a], t.file # Nil
               PROVE  \E k \in Waiting' : ApidAt[k] = a /\ t = SduAt[k]
    BY <1>3 DEF WaitingInv
  <2>1. PICK k \in Waiting : ApidAt[k] = a /\ t = SduAt[k]
    BY <1>4 DEF Order, WaitingInv
  <2>2. SduAt[k] # s
    BY <1>4, <2>1
  <2> QED
    BY <1>4, <2>1, <2>2
<1>8. Ascending'
  BY <1>3, <1>4 DEF Order, Ascending
<1>9. DoneInOrder'
  <2> SUFFICES ASSUME NEW k \in Done' \cap Safe', NEW j \in Waiting', ApidAt[j] = ApidAt[k]
               PROVE  k < j
    BY <1>3 DEF DoneInOrder
  <2>1. CASE k \in Done
    BY <1>4, <2>1 DEF Order, DoneInOrder
  <2>2. CASE k \in Waiting /\ SduAt[k] = s
    <3>1. ApidAt[k] = cur /\ j \in Waiting /\ SduAt[j] # s /\ k \in Safe
      BY <1>4, <2>2
    <3>2. CtrAt[k] <= CtrAt[j]
      BY <1>1, <1>6, <2>2, <3>1
    <3>3. ~(j < k)
      BY <1>6, <2>2, <3>1, <3>2 DEF Order, Ascending
    <3>4. j # k
      BY <2>2, <3>1
    <3> QED
      BY <1>2, <1>5, <2>2, <3>1, <3>3, <3>4
  <2> QED
    BY <1>4, <2>1, <2>2
<1>10. BadApart'
  <2> SUFFICES ASSUME NEW a \in Apids, NEW b \in APIDs'[a], b.file = Nil,
                      NEW i \in Safe', NEW j \in Safe',
                      ApidAt[i] = a, stream[i][1] = stream[j][1], i <= pos
               PROVE  \/ i \in Waiting' /\ b.ctr < CtrAt[i]
                      \/ j \in Done'
                      \/ j \in Waiting' /\ CtrAt[j] < b.ctr
    BY <1>1, <1>3 DEF BadApart
  <2>1. \/ i \in Waiting /\ b.ctr < CtrAt[i]
        \/ j \in Done
        \/ j \in Waiting /\ CtrAt[j] < b.ctr
    BY <1>4 DEF Order, BadApart
  <2>2. CASE i \in Waiting /\ b.ctr < CtrAt[i]
    <3>1. SduAt[i] # s
      <4> SUFFICES ASSUME SduAt[i] = s PROVE FALSE
        OBVIOUS
      <4>1. b \in APIDs[cur] /\ s.ctr = CtrAt[i]
        BY <1>4, <1>6, <2>2
      <4>2. b \in MSDU /\ b.ctr \in Int
        <5>1. b \in MSDU
          BY <1>1, <1>2, <4>1
        <5>2. b.ctr \in 0..CtrMod-1
          BY <5>1 DEF MSDU
        <5> QED
          BY <5>1, <5>2
      <4> QED
        BY <1>1, <1>6, <2>2, <4>1, <4>2
    <3> QED
      BY <1>4, <2>2, <3>1
  <2> QED
    BY <1>4, <2>1, <2>2
<1> QED
  BY <1>7, <1>8, <1>9, <1>10 DEF Order

(* When a safe file is open, what comes up next of its APID is its next    *)
(* part.                                                                   *)
LEMMA NextIsDue ==
    ASSUME TypeOK, Order, NEW s, Applies(s),
           NEW k \in Done \cap Safe, NEW j \in Safe \ Done,
           stream[j] = <<stream[k][1], stream[k][2] + 1>>, ApidAt[k] = cur
    PROVE  j \in Waiting /\ s = SduAt[j]
<1>1. cur \in Apids /\ s \in APIDs[cur] /\ \A t \in APIDs[cur] : s.ctr <= t.ctr
  BY AppliesFacts DEF Applies
<1>2. stream \in Streams /\ pos \in 0..Len(stream) /\ APIDs \in [Apids -> SUBSET MSDU]
  BY DEF TypeOK, AssemblerTypeOK
<1>3. Len(stream) \in Nat /\ Places = 1..Len(stream) /\ k \in Places /\ j \in Places
      /\ k \in 1..pos /\ Waiting \subseteq 1..pos /\ Waiting \subseteq Places
  BY <1>2, PlaceAt DEF Safe, Done, Waiting
<1>4. /\ k < j /\ ApidAt[j] = cur /\ stream[j][1] = stream[k][1]
      /\ \A m \in Places : ApidAt[m] = cur => m <= k \/ j <= m
  BY <1>2, <1>3, PartsAt
<1>5. \A m \in Waiting : SduAt[m] \in APIDs[ApidAt[m]] /\ SduAt[m].ctr = CtrAt[m] /\ CtrAt[m] \in Nat
  BY <1>2, <1>3, PlaceAt DEF Waiting
<1>6. s.ctr \in Nat
  BY AppliesFacts, AssemblerAssumption
<1>7. s.file # Nil
  <2> SUFFICES ASSUME s.file = Nil PROVE FALSE
    OBVIOUS
  <2>1. \/ k \in Waiting /\ s.ctr < CtrAt[k]
        \/ j \in Done
        \/ j \in Waiting /\ CtrAt[j] < s.ctr
    BY <1>1, <1>3, <1>4 DEF Order, BadApart
  <2>2. j \in Waiting /\ CtrAt[j] < s.ctr
    BY <2>1 DEF Done
  <2>3. s.ctr <= CtrAt[j]
    BY <1>1, <1>4, <1>5, <2>2
  <2> QED
    BY <1>5, <1>6, <2>2, <2>3
<1>8. PICK m \in Waiting : ApidAt[m] = cur /\ s = SduAt[m]
  BY <1>1, <1>7 DEF Order, WaitingInv
<1>9. k < m
  BY <1>8 DEF Order, DoneInOrder
<1>10. j <= m /\ j \in Waiting
  <2>1. j <= m
    BY <1>3, <1>4, <1>8, <1>9
  <2>2. j \in 1..pos
    BY <1>2, <1>3, <2>1
  <2> QED
    BY <2>1, <2>2 DEF Done
<1>11. ~(j < m)
  <2>1. s.ctr <= CtrAt[j]
    BY <1>1, <1>4, <1>5, <1>10
  <2> QED
    BY <1>4, <1>5, <1>8, <1>10, <2>1 DEF Order, Ascending
<1>12. j = m
  BY <1>3, <1>10, <1>11
<1> QED
  BY <1>8, <1>10, <1>12

(* When a later part of a safe file comes up, the file is open as far as   *)
(* it came, and no gap is seen.                                            *)
LEMMA OpenBefore ==
    ASSUME TypeOK, Order, OpenInv, NEW s, Applies(s),
           NEW j \in Waiting \cap Safe, s = SduAt[j],
           stream[j][2] # 1, Deliverable(stream[j][1])
    PROVE  /\ stream[j][2] - 1 \in 1..Parts(stream[j][1])
           /\ processAnySkippedSDU(s) = Partial(stream[j][1], stream[j][2] - 1)
<1>1. cur \in Apids /\ s \in APIDs[cur] /\ \A t \in APIDs[cur] : s.ctr <= t.ctr
  BY AppliesFacts DEF Applies
<1>2. stream \in Streams /\ pos \in 0..Len(stream) /\ Files \in [Apids -> FileType \cup {Nil}]
  BY DEF TypeOK, AssemblerTypeOK
<1>3. Len(stream) \in Nat /\ Places = 1..Len(stream) /\ j \in Places /\ j \in 1..pos
  BY <1>2, PlaceAt DEF Safe, Waiting
<1>4. ApidAt[j] = cur
  BY StillWaiting DEF Order
<1>5. PICK i \in Places :
         /\ i < j /\ ApidAt[i] = ApidAt[j]
         /\ stream[i][1] = stream[j][1] /\ stream[j][2] = stream[i][2] + 1
         /\ stream[j] = <<stream[i][1], stream[i][2] + 1>>
         /\ CounterDiff(CtrMod, CtrAt[i], CtrAt[j]) = 1
  BY <1>2, <1>3, PartsAt
<1>6. i \in Safe /\ i \in 1..pos
  BY <1>2, <1>3, <1>5 DEF Safe
<1>7. i \in Done
  <2> SUFFICES ASSUME i \in Waiting PROVE FALSE
    BY <1>6 DEF Done
  <2>1. CtrAt[i] < CtrAt[j]
    BY <1>5 DEF Order, Ascending
  <2>2. s.ctr <= SduAt[i].ctr
    BY <1>1, <1>4, <1>5 DEF Waiting
  <2>3. s.ctr = CtrAt[j] /\ SduAt[i].ctr = CtrAt[i] /\ CtrAt[i] \in Nat /\ CtrAt[j] \in Nat
    BY <1>2, <1>3, PlaceAt
  <2> QED
    BY <2>1, <2>2, <2>3
<1>8. j \in Safe \ Done
  BY DEF Done
<1>9. Files[cur] = Partial(stream[i][1], stream[i][2]) /\ lastAppliedSDU[cur] \in {Nil, CtrAt[i]}
  BY <1>4, <1>5, <1>6, <1>7, <1>8 DEF OpenInv
<1>10. stream[i][2] \in 1..Parts(stream[j][1]) /\ stream[j][2] - 1 = stream[i][2]
  BY <1>2, <1>5, PlaceAt
<1>11. processAnySkippedSDU(s) = Files[cur]
  <2>1. CASE lastAppliedSDU[cur] = Nil
    BY <2>1 DEF processAnySkippedSDU
  <2>2. CASE lastAppliedSDU[cur] = CtrAt[i]
    <3>1. s.ctr = CtrAt[j]
      BY <1>2, <1>3, PlaceAt
    <3>2. CounterDiff(CtrMod, lastAppliedSDU[cur], s.ctr) = 1
      BY <1>5, <2>2, <3>1
    <3>3. Skipped(s) = 0
      <4>1. stream[j][1] \in Sent
        BY <1>2, <1>3, PlaceAt
      <4>2. Word \in Nat /\ Word > 0
        BY <4>1, WordFacts
      <4>3. (1 - 1) % Word = 0
        BY <4>2
      <4> QED
        BY <3>2, <4>3 DEF Skipped
    <3> QED
      BY <3>3 DEF processAnySkippedSDU
  <2> QED
    BY <1>9, <2>1, <2>2
<1> QED
  BY <1>5, <1>9, <1>10, <1>11

(* Applying an SDU leaves other APIDs alone and takes nothing back. *)
LEMMA StepFacts ==
    ASSUME TypeOK, NEW s, ApplyStep(s)
    PROVE  /\ Applies(s) /\ cur \in Apids /\ hurt \subseteq hurt'
           /\ \A a \in Apids \ {cur} : Files'[a] = Files[a] /\ lastAppliedSDU'[a] = lastAppliedSDU[a]
           /\ ToSet(TransportOutput) \subseteq ToSet(TransportOutput')
<1>1. Applies(s)
  BY DEF ApplyStep, SkipShort, BadCRC, ContinueFile, StartFile, FinishFile, SingleFile
<1>2. cur \in Apids
  BY <1>1, AppliesFacts
<1>3. hurt \subseteq hurt'
  BY DEF ApplyStep, SkipShort, BadCRC, ContinueFile, StartFile, FinishFile, SingleFile, Appending
<1>4. /\ Files \in [Apids -> FileType \cup {Nil}] /\ lastAppliedSDU \in [Apids -> (0..CtrMod-1) \cup {Nil}]
      /\ TransportOutput \in Seq(FileType)
  BY DEF TypeOK, AssemblerTypeOK
<1>5. ASSUME NEW f, DropThen(f) \/ Applied(s, f)
      PROVE  \A a \in Apids \ {cur} : Files'[a] = Files[a] /\ lastAppliedSDU'[a] = lastAppliedSDU[a]
  BY <1>4, <1>5 DEF DropThen, Applied
<1>6. \A a \in Apids \ {cur} : Files'[a] = Files[a] /\ lastAppliedSDU'[a] = lastAppliedSDU[a]
  <2>1. UNCHANGED <<Files, lastAppliedSDU>> \/ \E f : DropThen(f) \/ Applied(s, f)
    BY DEF ApplyStep, SkipShort, BadCRC, ContinueFile, StartFile, FinishFile, SingleFile
  <2> QED
    BY <1>5, <2>1
<1>7. UNCHANGED TransportOutput \/ \E f : Send(f)
  BY DEF ApplyStep, SkipShort, BadCRC, ContinueFile, StartFile, FinishFile, SingleFile
<1>8. ToSet(TransportOutput) \subseteq ToSet(TransportOutput')
  <2>1. ASSUME NEW f, Send(f)
        PROVE  ToSet(TransportOutput) \subseteq ToSet(TransportOutput')
    BY <1>4, <2>1 DEF Send, ToSet
  <2> QED
    BY <1>7, <2>1
<1> QED
  BY <1>1, <1>2, <1>3, <1>6, <1>8

(* A part of a file is a file. *)
LEMMA PartialType ==
    ASSUME NEW f \in Sent, NEW p \in 1..Parts(f)
    PROVE  Partial(f, p) \in FileType /\ Partial(f, p) # Nil
<1>1. p \in Nat
  BY MetaFacts
<1>2. Parsed(f, p) \in BOOLEAN
  BY <1>1, MetaFacts DEF Parsed
<1>3. Pieces(f, p, Parsed(f, p)) \in Seq(Chunk)
  BY <1>2, PiecesAre
<1>4. Partial(f, p) = [file |-> f, ready |-> Parsed(f, p), data |-> Pieces(f, p, Parsed(f, p))]
  BY Zenon DEF Partial, Pieces
<1>5. Partial(f, p) \in FileType
  <2> DEFINE r == Parsed(f, p)
             P == Pieces(f, p, Parsed(f, p))
  <2> HIDE DEF r, P
  <2>1. r \in BOOLEAN /\ P \in Seq(Chunk) /\ Partial(f, p) = [file |-> f, ready |-> r, data |-> P]
    BY <1>2, <1>3, <1>4 DEF r, P
  <2> QED
    BY <2>1 DEF FileType
<1> QED
  BY <1>5, LritFileAssumption

(* Nothing of a safe file is written over, and none of it is exposed. *)
LEMMA SharedKept ==
    ASSUME TypeOK, SharedInv, NEW s, ApplyStep(s)
    PROVE  SharedInv' /\ \A e \in spoilt' : e[1] \in hurt
<1>1. UNCHANGED <<inWay, exposed>> /\ hurt \subseteq hurt'
  BY StepFacts, AppliesFacts
<1>2. spoilt' \subseteq spoilt \cup {w[2] : w \in inWay}
  BY SpoiltBy
<1>3. \A e \in spoilt' : e[1] \in hurt
  BY <1>2 DEF SharedInv
<1> QED
  BY <1>1, <1>3 DEF SharedInv

(* So the CRC of a safe file's SDU is good, and it is appended as it is. *)
LEMMA SafeApplied ==
    ASSUME TypeOK, SharedInv, NEW s, ApplyStep(s), NEW f, s.file = f, f # Nil, f \notin hurt
    PROVE  /\ ~BadCRC(s)
           /\ \A g : \A parses, decodes \in BOOLEAN :
                 g.file = f /\ f \notin hurt' /\ Appending(s, g, parses, decodes) =>
                    /\ parses = TRUE /\ decodes = TRUE
                    /\ Appended(g, s, parses, decodes) = AppendSDU(g, SentChunk(f, s.part), TRUE)
<1>1. ~BadCRC(s)
  <2> SUFFICES ASSUME BadCRC(s) PROVE FALSE
    OBVIOUS
  <2>1. <<s.file, s.part>> \in spoilt'
    BY DEF BadCRC
  <2>2. <<s.file, s.part>>[1] \in hurt
    BY <2>1, SharedKept, Zenon
  <2> QED
    BY <2>2
<1>2. f \notin exposed
  BY DEF SharedInv
<1> QED
  BY <1>1, <1>2 DEF Appending, Appended

(* What is open behind a part that is not the last one. *)
LEMMA OpenBehind ==
    ASSUME TypeOK, Order, SharedInv, OpenInv, NEW s, ApplyStep(s),
           NEW k \in Waiting \cap Safe, s = SduAt[k], stream[k][1] \notin hurt',
           stream[k][2] < Parts(stream[k][1]), Deliverable(stream[k][1])
    PROVE  /\ Files'[cur] = Partial(stream[k][1], stream[k][2])
           /\ lastAppliedSDU'[cur] \in {Nil, CtrAt[k]}
<1> DEFINE f == stream[k][1]
           p == stream[k][2]
<1>1. Applies(s) /\ cur \in Apids
  BY StepFacts
<1>2. stream \in Streams /\ k \in Places
  BY DEF TypeOK, AssemblerTypeOK, Safe
<1>3. /\ s.file = f /\ s.part = p /\ s.ctr = CtrAt[k] /\ s.file # Nil
      /\ f \in Sent /\ p \in 1..Parts(f) /\ p \in Nat /\ Parts(f) \in Nat
  BY <1>2, PlaceAt, MetaFacts
<1>4. Files \in [Apids -> FileType \cup {Nil}] /\ lastAppliedSDU \in [Apids -> (0..CtrMod-1) \cup {Nil}]
  BY DEF TypeOK, AssemblerTypeOK
<1>5. ~LastPart(s)
  BY <1>3 DEF LastPart
<1>6. StartFile(s) \/ ContinueFile(s)
  <2>1. f \notin hurt
    BY DEF Safe
  <2>2. ~BadCRC(s)
    BY <1>3, <2>1, SafeApplied
  <2> QED
    BY <1>3, <1>5, <2>2 DEF ApplyStep, SkipShort, FinishFile, SingleFile
<1>7. CASE StartFile(s)
  <2>1. p = 1 /\ DropThen(OpenNew(f))
    BY <1>3, <1>7 DEF StartFile, FirstPart
  <2>2. OpenNew(f) = Partial(f, 1)
    BY <1>3, PartialOpen
  <2>3. Files'[cur] = OpenNew(f) /\ lastAppliedSDU'[cur] = Nil
    BY <1>1, <1>4, <2>1 DEF DropThen
  <2> QED
    BY <2>1, <2>2, <2>3
<1>8. CASE ContinueFile(s)
  <2>1. p # 1
    BY <1>3, <1>8 DEF ContinueFile, FirstPart
  <2>2. p - 1 \in 1..Parts(f) /\ processAnySkippedSDU(s) = Partial(f, p - 1)
    BY <1>1, <2>1, OpenBefore
  <2> DEFINE g == processAnySkippedSDU(s)
  <2>3. g.file = f
    BY <2>2 DEF Partial
  <2>4. g # Nil
    BY <1>3, <2>2, PartialType
  <2>5. PICK parses \in BOOLEAN, decodes \in BOOLEAN :
           /\ Appending(s, g, parses, decodes)
           /\ Applied(s, Appended(g, s, parses, decodes))
    BY <1>8, <2>4 DEF ContinueFile
  <2>6. Appended(g, s, parses, decodes) = AppendSDU(g, SentChunk(f, p), TRUE)
    <3>1. f \notin hurt
      BY DEF Safe
    <3> QED
      BY <1>3, <2>3, <2>5, <3>1, SafeApplied
  <2>7. AppendSDU(g, SentChunk(f, p), TRUE) = Partial(f, p)
    <3>1. (p - 1) + 1 = p
      BY <1>3
    <3> QED
      BY <1>3, <2>2, <3>1, PartialAppend
  <2>8. Files'[cur] = Appended(g, s, parses, decodes) /\ lastAppliedSDU'[cur] = s.ctr
    BY <1>1, <1>4, <2>5 DEF Applied
  <2> QED
    BY <1>3, <2>6, <2>7, <2>8
<1> QED
  BY <1>6, <1>7, <1>8

(* The last part sends the file. *)
LEMMA SentBehind ==
    ASSUME TypeOK, Order, SharedInv, OpenInv, NEW s, ApplyStep(s),
           NEW k \in Waiting \cap Safe, s = SduAt[k], stream[k][1] \notin hurt',
           stream[k][2] = Parts(stream[k][1]), Deliverable(stream[k][1])
    PROVE  \E g \in ToSet(TransportOutput') :
              g.file = stream[k][1] /\ g.data = Original[stream[k][1]]
<1> DEFINE f == stream[k][1]
           p == stream[k][2]
           w == Partial(f, p)
<1>1. Applies(s) /\ cur \in Apids
  BY StepFacts
<1>2. stream \in Streams /\ k \in Places /\ TransportOutput \in Seq(FileType)
  BY DEF TypeOK, AssemblerTypeOK, Safe
<1>3. /\ s.file = f /\ s.part = p /\ s.file # Nil
      /\ f \in Sent /\ p \in 1..Parts(f) /\ p \in Nat /\ Parts(f) \in Nat
  BY <1>2, PlaceAt, MetaFacts
<1>4. LastPart(s)
  BY <1>3 DEF LastPart
<1>5. HeadersPopulated(w) /\ Close(w).file = f /\ Close(w).data = Original[f]
  BY <1>3, PartialComplete
<1>6. SingleFile(s) \/ FinishFile(s)
  <2>1. f \notin hurt
    BY DEF Safe
  <2>2. ~BadCRC(s)
    BY <1>3, <2>1, SafeApplied
  <2> QED
    BY <1>3, <1>4, <2>2 DEF ApplyStep, SkipShort, StartFile, ContinueFile
<1>7. Send(w)
  <2>1. CASE SingleFile(s)
    <3>1. p = 1
      BY <1>3, <2>1 DEF SingleFile, FirstPart
    <3>2. OpenNew(f) = w
      BY <1>3, <3>1, PartialOpen
    <3> QED
      BY <1>3, <1>5, <2>1, <3>2 DEF SingleFile
  <2>2. CASE FinishFile(s)
    <3>1. p # 1
      BY <1>3, <2>2 DEF FinishFile, FirstPart
    <3>2. p - 1 \in 1..Parts(f) /\ processAnySkippedSDU(s) = Partial(f, p - 1)
      BY <1>1, <3>1, OpenBefore
    <3> DEFINE g == processAnySkippedSDU(s)
    <3>4. g # Nil
      BY <1>3, <3>2, PartialType
    <3>5. PICK parses \in BOOLEAN, decodes \in BOOLEAN :
             \E h \in {Appended(g, s, parses, decodes)} :
                /\ Appending(s, g, parses, decodes)
                /\ IF HeadersPopulated(h) THEN Send(h) ELSE UNCHANGED TransportOutput
      BY <2>2, <3>4 DEF FinishFile
    <3>6. Appended(g, s, parses, decodes) = AppendSDU(g, SentChunk(f, p), TRUE)
      <4>1. f \notin hurt
        BY DEF Safe
      <4>2. g.file = f
        BY <3>2 DEF Partial
      <4>3. Appending(s, g, parses, decodes)
        BY <3>5
      <4> HIDE DEF g
      <4> QED
        BY <1>3, <4>1, <4>2, <4>3, SafeApplied
    <3>7. AppendSDU(g, SentChunk(f, p), TRUE) = w
      <4>1. (p - 1) + 1 = p
        BY <1>3
      <4> QED
        BY <1>3, <3>2, <4>1, PartialAppend
    <3> QED
      BY <1>3, <1>5, <3>5, <3>6, <3>7
  <2> QED
    BY <1>6, <2>1, <2>2
<1>8. Close(w) \in ToSet(TransportOutput')
  <2>1. TransportOutput' = Append(TransportOutput, Close(w))
    BY <1>7 DEF Send
  <2> HIDE DEF w
  <2>2. Len(TransportOutput') = Len(TransportOutput) + 1
        /\ TransportOutput'[Len(TransportOutput) + 1] = Close(w)
        /\ Len(TransportOutput) + 1 \in DOMAIN TransportOutput'
    BY <1>2, <2>1
  <2> QED
    BY <2>2 DEF ToSet
<1> QED
  BY <1>5, <1>8

(* OpenInv is kept when an SDU is applied. *)
LEMMA OpenKept ==
    ASSUME TypeOK, Order, SharedInv, OpenInv, NEW s, ApplyStep(s)
    PROVE  OpenInv'
<1>1. /\ Applies(s) /\ cur \in Apids /\ hurt \subseteq hurt' /\ stream' = stream
      /\ \A a \in Apids \ {cur} : Files'[a] = Files[a] /\ lastAppliedSDU'[a] = lastAppliedSDU[a]
  BY StepFacts, AppliesFacts
<1>2. stream \in Streams
  BY DEF TypeOK, AssemblerTypeOK
<1>3. Places' = Places /\ SduAt' = SduAt /\ ApidAt' = ApidAt /\ CtrAt' = CtrAt
  BY <1>1, StreamStays
<1>4. /\ Done' = Done \cup {k \in Waiting : SduAt[k] = s}
      /\ \A k \in Waiting : SduAt[k] = s => ApidAt[k] = cur
      /\ Safe' \subseteq Safe
  BY <1>1, StillDone, StillWaiting, SafeShrinks DEF Order
<1>5. Safe \subseteq Places /\ \A k \in Safe' : stream[k][1] \notin hurt'
  BY <1>1 DEF Safe
<1> SUFFICES ASSUME NEW k \in Done' \cap Safe', NEW j \in Safe' \ Done',
                    stream[j] = <<stream[k][1], stream[k][2] + 1>>, Deliverable(stream[k][1])
             PROVE  /\ Files'[ApidAt[k]] = Partial(stream[k][1], stream[k][2])
                    /\ lastAppliedSDU'[ApidAt[k]] \in {Nil, CtrAt[k]}
  BY <1>1, <1>3, Zenon DEF OpenInv
<1>6. k \in Places /\ ApidAt[k] \in Apids /\ j \in Safe \ Done /\ k \in Safe
  BY <1>2, <1>4, <1>5, PlaceAt
<1>7. CASE k \in Done
  <2>1. Files[ApidAt[k]] = Partial(stream[k][1], stream[k][2])
        /\ lastAppliedSDU[ApidAt[k]] \in {Nil, CtrAt[k]}
    BY <1>6, <1>7 DEF OpenInv
  <2>2. ApidAt[k] # cur
    <3> SUFFICES ASSUME ApidAt[k] = cur PROVE FALSE
      OBVIOUS
    <3>1. j \in Waiting /\ s = SduAt[j]
      BY <1>1, <1>6, <1>7, NextIsDue
    <3> QED
      BY <1>4, <3>1
  <2> QED
    BY <1>1, <1>6, <2>1, <2>2
<1>8. CASE k \in Waiting /\ SduAt[k] = s
  <2>1. stream[k][2] < Parts(stream[k][1])
    BY <1>2, <1>5, <1>6, PartsAt
  <2>2. stream[k][1] \notin hurt'
    BY <1>5
  <2>3. ApidAt[k] = cur
    BY <1>4, <1>8
  <2> QED
    BY <1>6, <1>8, <2>1, <2>2, <2>3, OpenBehind
<1> QED
  BY <1>4, <1>7, <1>8

(* So is DoneInv: what was on its way still is. *)
LEMMA DoneKept ==
    ASSUME TypeOK, Order, SharedInv, OpenInv, DoneInv, NEW s, ApplyStep(s),
           UNCHANGED <<lf, LRITOutput, received>>
    PROVE  DoneInv'
<1>1. /\ Applies(s) /\ hurt \subseteq hurt' /\ stream' = stream
      /\ ToSet(TransportOutput) \subseteq ToSet(TransportOutput')
  BY StepFacts, AppliesFacts
<1>2. stream \in Streams
  BY DEF TypeOK, AssemblerTypeOK
<1>3. Done' = Done \cup {k \in Waiting : SduAt[k] = s} /\ Safe' \subseteq Safe
  BY <1>1, StillDone, SafeShrinks DEF Order
<1>4. \A k \in Safe' : stream[k][1] \notin hurt'
  BY <1>1 DEF Safe
<1>5. OnTheWay \subseteq OnTheWay' /\ ToSet(TransportOutput') \subseteq OnTheWay'
  BY <1>1 DEF OnTheWay
<1> SUFFICES ASSUME NEW k \in Done' \cap Safe',
                    stream[k][2] = Parts(stream[k][1]), Deliverable(stream[k][1])
             PROVE  \E g \in OnTheWay' : g.file = stream[k][1] /\ g.data = Original[stream[k][1]]
  BY <1>1, Zenon DEF DoneInv
<1>6. CASE k \in Done
  BY <1>3, <1>5, <1>6 DEF DoneInv
<1>7. CASE k \in Waiting /\ SduAt[k] = s
  <2>1. \E g \in ToSet(TransportOutput') :
           g.file = stream[k][1] /\ g.data = Original[stream[k][1]]
    BY <1>3, <1>4, <1>7, SentBehind
  <2> QED
    BY <1>5, <2>1
<1> QED
  BY <1>3, <1>6, <1>7

(* A frame comes in. *)
LEMMA DeliverOrder ==
    ASSUME TypeOK, NEW now \in pos+1 .. Len(stream), NEW come \in SUBSET (pos+1..now), NEW carried,
           NEW bad \in BadHeaders, Deliver(come, carried, now, bad)
    PROVE  /\ Waiting = {} /\ Waiting' = come
           /\ Done \subseteq Done' /\ Safe' \subseteq Safe
           /\ Done' \cap Safe' \subseteq Done
           /\ Order'
<1>1. /\ stream' = stream /\ pos' = now /\ hurt \subseteq hurt'
      /\ hurt' = hurt \cup Suffering(come, now, bad) \cup Exposed(come \ carried)
      /\ APIDs' = [a \in Apids |-> {GoodSDU(k) : k \in {k \in come : ApidOf(k) = a}}
                                     \cup {BadSDU(b[2]) : b \in {b \in bad : b[1] = a}}]
      /\ \A a \in Apids : APIDs[a] = {}
  BY DEF Deliver, Idle
<1>2. /\ stream \in Streams /\ pos \in 0..Len(stream) /\ Len(stream) \in Nat /\ Places = 1..Len(stream)
  BY PlaceAt DEF TypeOK, AssemblerTypeOK
<1>3. Places' = Places /\ SduAt' = SduAt /\ ApidAt' = ApidAt /\ CtrAt' = CtrAt
  BY <1>1, StreamStays
<1>4. /\ now \in Nat /\ pos < now /\ now <= Len(stream)
      /\ come \subseteq Places /\ 1..now \subseteq Places /\ 1..pos \subseteq Places
      /\ come \subseteq pos+1..now /\ come \subseteq 1..now
  BY <1>2
<1>5. \A k \in Places : /\ SduAt[k] = GoodSDU(k) /\ ApidAt[k] = ApidOf(k) /\ CtrAt[k] = Ctr(k)
                        /\ CtrAt[k] \in Nat /\ ApidAt[k] \in Apids /\ SduAt[k].file # Nil
                        /\ stream[k][1] \in Sent /\ ApidAt[k] = Meta[stream[k][1]].apid
  BY <1>2, PlaceAt DEF SduAt, ApidAt, CtrAt
<1>6. \A j, k \in Places : SduAt[j] = SduAt[k] => j = k
  BY <1>2, PlaceAt
<1>7. bad \subseteq Apids \X (0..CtrMod-1)
  BY BadHeadersType
<1>8. ASSUME NEW a \in Apids, NEW t \in APIDs'[a]
      PROVE  \/ \E k \in come : ApidAt[k] = a /\ t = SduAt[k] /\ t.file # Nil
             \/ \E h \in bad : h[1] = a /\ t.ctr = h[2] /\ t.file = Nil
  <2>1. CASE t \in {GoodSDU(k) : k \in {k \in come : ApidOf(k) = a}}
    <3>1. PICK k \in come : ApidOf(k) = a /\ t = GoodSDU(k)
      BY <2>1
    <3> QED
      BY <1>4, <1>5, <3>1
  <2>2. CASE t \in {BadSDU(b[2]) : b \in {b \in bad : b[1] = a}}
    <3>1. PICK h \in bad : h[1] = a /\ t = BadSDU(h[2])
      BY <2>2
    <3>2. t.ctr = h[2] /\ t.file = Nil
      BY <3>1 DEF BadSDU
    <3> QED
      BY <3>1, <3>2
  <2> QED
    BY <1>1, <1>8, <2>1, <2>2
<1>9. \A k \in come : SduAt[k] \in APIDs'[ApidAt[k]]
  BY <1>1, <1>4, <1>5
<1>10. Waiting = {}
  BY <1>1, <1>4, <1>5 DEF Waiting
<1>11. Waiting' = come
  <2>1. Waiting' = {k \in 1..now : SduAt[k] \in APIDs'[ApidAt[k]]}
    BY <1>1, <1>3 DEF Waiting
  <2>2. ASSUME NEW k \in 1..now, SduAt[k] \in APIDs'[ApidAt[k]]
        PROVE  k \in come
    <3>1. k \in Places /\ ApidAt[k] \in Apids /\ SduAt[k].file # Nil
      BY <1>4, <1>5
    <3>2. \E m \in come : SduAt[k] = SduAt[m]
      BY <1>8, <2>2, <3>1
    <3> QED
      BY <1>4, <1>6, <3>1, <3>2
  <2> QED
    BY <1>4, <1>9, <2>1, <2>2
<1>12. Done' = (1..now) \ come /\ Done = 1..pos
  BY <1>1, <1>10, <1>11 DEF Done
<1>13. Safe' \subseteq Safe /\ Safe' \subseteq Places
       /\ \A k \in Safe' : stream[k][1] \notin Suffering(come, now, bad)
  BY <1>1, <1>3, SafeShrinks DEF Safe
<1>14. Done' \cap Safe' \subseteq Done
  <2> SUFFICES ASSUME NEW k \in Done' \cap Safe', k \notin 1..pos PROVE FALSE
    BY <1>12
  <2>1. k \in (pos+1..now) \ come
    BY <1>2, <1>4, <1>12
  <2>2. stream[k][1] \in Suffering(come, now, bad)
    BY <2>1 DEF Suffering
  <2> QED
    BY <1>13, <2>2
<1>15. Done \subseteq Done'
  BY <1>2, <1>4, <1>12
<1>16. WaitingInv'
  BY <1>3, <1>8, <1>11 DEF WaitingInv
<1>17. Ascending'
  <2> SUFFICES ASSUME NEW k \in Waiting' \cap Safe', NEW j \in Waiting', ApidAt[j] = ApidAt[k]
               PROVE  /\ j < k => CtrAt[j] < CtrAt[k]
                      /\ k < j => CtrAt[k] < CtrAt[j]
    BY <1>3 DEF Ascending
  <2>1. j \in come /\ k \in come /\ j \in Places /\ k \in Places
    BY <1>4, <1>11
  <2>2. \A i, m \in come : i < m /\ ApidOf(i) = ApidOf(k) /\ ApidOf(m) = ApidOf(k)
                                    => ~(Ctr(i) >= Ctr(m))
    <3> SUFFICES ASSUME NEW i \in come, NEW m \in come,
                        i < m, ApidOf(i) = ApidOf(k), ApidOf(m) = ApidOf(k), Ctr(i) >= Ctr(m)
                 PROVE  FALSE
      OBVIOUS
    <3>1. stream[k][1] \in Suffering(come, now, bad)
      BY <2>1 DEF Suffering
    <3> QED
      BY <1>13, <3>1
  <2>3. ApidOf(j) = ApidOf(k) /\ Ctr(j) \in Nat /\ Ctr(k) \in Nat /\ CtrAt[j] = Ctr(j) /\ CtrAt[k] = Ctr(k)
    BY <1>5, <2>1
  <2>4. j < k => ~(Ctr(j) >= Ctr(k))
    BY <2>1, <2>2, <2>3
  <2>5. k < j => ~(Ctr(k) >= Ctr(j))
    BY <2>1, <2>2, <2>3
  <2> QED
    BY <2>3, <2>4, <2>5
<1>18. DoneInOrder'
  <2> SUFFICES ASSUME NEW k \in Done' \cap Safe', NEW j \in Waiting' PROVE k < j
    BY <1>3 DEF DoneInOrder
  <2>1. k \in 1..pos /\ j \in come
    BY <1>11, <1>12, <1>14
  <2> QED
    BY <1>2, <1>4, <2>1
<1>19. BadApart'
  <2> SUFFICES ASSUME NEW a \in Apids, NEW b \in APIDs'[a], b.file = Nil,
                      NEW i \in Safe', NEW j \in Safe',
                      ApidAt[i] = a, stream[i][1] = stream[j][1], i <= now
               PROVE  \/ i \in Waiting' /\ b.ctr < CtrAt[i]
                      \/ j \in Done'
                      \/ j \in Waiting' /\ CtrAt[j] < b.ctr
    BY <1>1, <1>3 DEF BadApart
  <2> DEFINE f == stream[i][1]
  <2>1. PICK h \in bad : h[1] = a /\ b.ctr = h[2]
    BY <1>8
  <2>2. i \in Places /\ j \in Places /\ f \in Sent /\ Meta[f].apid = h[1] /\ h[2] \in Int
    <3>1. h[2] \in 0..CtrMod-1 /\ CtrMod \in Nat
      BY <1>7, AssemblerAssumption
    <3> QED
      BY <1>5, <1>13, <2>1, <3>1
  <2> DEFINE Before(k) == stream[k][1] = f /\ (k <= pos \/ Ctr(k) <= h[2])
             After(k) == stream[k][1] = f /\ (k > now \/ Ctr(k) >= h[2])
  <2>3. \/ \A k \in 1..pos \cup come : ~Before(k)
        \/ \A k \in come \cup now+1..Len(stream) : ~After(k)
    <3> SUFFICES ASSUME \E k \in 1..pos \cup come : Before(k),
                        \E k \in come \cup now+1..Len(stream) : After(k)
                 PROVE  FALSE
      OBVIOUS
    <3>1. f \in Suffering(come, now, bad)
      BY <2>2 DEF Suffering
    <3> QED
      BY <1>13, <3>1
  <2>4. \A k \in {i, j} : k \notin (pos+1..now) \ come
    <3>1. ASSUME NEW k \in (pos+1..now) \ come, stream[k][1] = f
          PROVE  FALSE
      <4>1. f \in Suffering(come, now, bad)
        BY <3>1 DEF Suffering
      <4> QED
        BY <1>13, <4>1
    <3> QED
      BY <3>1
  <2>5. CASE \A k \in 1..pos \cup come : ~Before(k)
    <3>1. i \in 1..pos \cup come
      BY <1>2, <1>4, <2>2, <2>4
    <3>2. ~(i <= pos) /\ ~(Ctr(i) <= h[2])
      BY <2>5, <3>1
    <3>3. i \in come /\ h[2] < CtrAt[i]
      BY <1>2, <1>4, <1>5, <2>2, <3>1, <3>2
    <3> QED
      BY <1>11, <2>1, <3>3
  <2>6. CASE \A k \in come \cup now+1..Len(stream) : ~After(k)
    <3>1. CASE j > pos
      <4>1. j \in come \cup now+1..Len(stream)
        BY <1>2, <1>4, <2>2, <2>4, <3>1
      <4>2. ~(j > now) /\ ~(Ctr(j) >= h[2])
        BY <2>6, <4>1
      <4>3. j \in come /\ CtrAt[j] < h[2]
        BY <1>4, <1>5, <2>2, <4>1, <4>2
      <4> QED
        BY <1>11, <2>1, <4>3
    <3>2. CASE j <= pos
      <4>1. j \in 1..now /\ j \notin come
        BY <1>2, <1>4, <2>2, <3>2
      <4> QED
        BY <1>12, <4>1
    <3> QED
      BY <1>2, <1>4, <2>2, <3>1, <3>2
  <2> QED
    BY <2>3, <2>5, <2>6
<1> QED
  BY <1>10, <1>11, <1>13, <1>14, <1>15, <1>16, <1>17, <1>18, <1>19 DEF Order

(* A frame that comes in keeps the invariant, *)
LEMMA DeliverKeeps ==
    ASSUME TypeOK, DeliveryInv, UNCHANGED <<lf, LRITOutput, received>>,
           NEW now \in pos+1 .. Len(stream), NEW come \in SUBSET (pos+1..now), NEW carried,
           NEW bad \in BadHeaders, Deliver(come, carried, now, bad)
    PROVE  DeliveryInv'
<1>1. UNCHANGED <<stream, lastAppliedSDU, Files, TransportOutput>>
  BY DEF Deliver
<1>2. stream \in Streams
  BY DEF TypeOK, AssemblerTypeOK
<1>3. SduAt' = SduAt /\ ApidAt' = ApidAt /\ CtrAt' = CtrAt
  BY <1>1, StreamStays
<1>4. Done \subseteq Done' /\ Safe' \subseteq Safe /\ Done' \cap Safe' \subseteq Done /\ Order'
  BY DeliverOrder
<1>5. OpenInv'
  <2> SUFFICES ASSUME NEW k \in Done' \cap Safe', NEW j \in Safe' \ Done',
                      stream[j] = <<stream[k][1], stream[k][2] + 1>>, Deliverable(stream[k][1])
               PROVE  /\ Files[ApidAt[k]] = Partial(stream[k][1], stream[k][2])
                      /\ lastAppliedSDU[ApidAt[k]] \in {Nil, CtrAt[k]}
    BY <1>1, <1>3, Zenon DEF OpenInv
  <2>1. k \in Done \cap Safe /\ j \in Safe \ Done
    BY <1>4
  <2> QED
    BY <2>1 DEF DeliveryInv, OpenInv
<1>6. DoneInv'
  <2> SUFFICES ASSUME NEW k \in Done' \cap Safe',
                      stream[k][2] = Parts(stream[k][1]), Deliverable(stream[k][1])
               PROVE  \E g \in OnTheWay' : g.file = stream[k][1] /\ g.data = Original[stream[k][1]]
    BY <1>1, Zenon DEF DoneInv
  <2>1. k \in Done \cap Safe
    BY <1>4
  <2>2. OnTheWay' = OnTheWay
    BY <1>1 DEF OnTheWay
  <2> QED
    BY <2>1, <2>2 DEF DeliveryInv, DoneInv
<1>7. SharedInv'
  <2> DEFINE zone == come \ carried
  <2>1. /\ exposed' = exposed \cup Exposed(zone) /\ spoilt' = {}
        /\ hurt' = hurt \cup Suffering(come, now, bad) \cup Exposed(zone)
        /\ inWay' = {<<stream[p[1]][1], stream[p[2]]>> :
                        p \in {p \in come \X come : InTheWay(zone, p[1], p[2])}}
    BY DEF Deliver
  <2>2. zone \in SUBSET (1..Len(stream))
    <3>1. Len(stream) \in Nat /\ pos \in 0..Len(stream)
      BY <1>2, PlaceAt DEF TypeOK, AssemblerTypeOK
    <3>2. come \subseteq 1..Len(stream)
      BY <3>1
    <3> QED
      BY <3>2
  <2>3. ASSUME NEW w \in inWay'
        PROVE  w[2][1] \in hurt'
    <3>1. PICK p \in come \X come : InTheWay(zone, p[1], p[2]) /\ w = <<stream[p[1]][1], stream[p[2]]>>
      BY <2>1
    <3>2. stream[p[2]][1] \in Exposed(zone)
      <4>1. stream \in Streams
        BY <1>2 DEF TypeOK, AssemblerTypeOK
      <4> QED
        BY <2>2, <3>1, <4>1, InTheWayFacts
    <3> QED
      BY <2>1, <3>1, <3>2
  <2>4. exposed \subseteq hurt
    BY DEF DeliveryInv, SharedInv
  <2> QED
    BY <2>1, <2>3, <2>4 DEF SharedInv
<1> QED
  BY <1>4, <1>5, <1>6, <1>7 DEF Order, DeliveryInv

(* and so does applying an SDU. *)
LEMMA ApplyKeeps ==
    ASSUME TypeOK, DeliveryInv, UNCHANGED <<lf, LRITOutput, received>>, NEW s, ApplyStep(s)
    PROVE  DeliveryInv'
<1>1. Order /\ SharedInv /\ OpenInv /\ DoneInv
  BY DEF DeliveryInv, Order
<1>2. Applies(s) /\ hurt \subseteq hurt'
  BY StepFacts
<1>3. Order'
  BY <1>1, <1>2, OrderKept
<1> QED
  BY <1>1, <1>3, SharedKept, OpenKept, DoneKept DEF DeliveryInv, Order

(* Steps that neither bring SDUs nor apply one. *)
LEMMA OthersKeep ==
    ASSUME TypeOK, DeliveryInv, UNCHANGED <<stream, pos, hurt, inWay, spoilt, exposed, APIDs, Files>>,
           \A a \in Apids : lastAppliedSDU'[a] \in {Nil, lastAppliedSDU[a]},
           \A k \in Done \cap Safe :
              stream[k][2] = Parts(stream[k][1]) /\ Deliverable(stream[k][1])
                 => \E g \in OnTheWay' : g.file = stream[k][1] /\ g.data = Original[stream[k][1]]
    PROVE  DeliveryInv'
<1>1. stream \in Streams
  BY DEF TypeOK, AssemblerTypeOK
<1>2. Places' = Places /\ SduAt' = SduAt /\ ApidAt' = ApidAt /\ CtrAt' = CtrAt
  BY StreamStays
<1>3. Waiting' = Waiting
  BY <1>2 DEF Waiting
<1>4. Done' = Done
  BY <1>3 DEF Done
<1>5. Safe' = Safe
  BY <1>2 DEF Safe
<1>6. WaitingInv' /\ Ascending' /\ DoneInOrder' /\ BadApart'
  BY <1>2, <1>3, <1>4, <1>5 DEF DeliveryInv, WaitingInv, Ascending, DoneInOrder, BadApart
<1>7. OpenInv'
  <2> SUFFICES ASSUME NEW k \in Done \cap Safe, NEW j \in Safe \ Done,
                      stream[j] = <<stream[k][1], stream[k][2] + 1>>, Deliverable(stream[k][1])
               PROVE  /\ Files[ApidAt[k]] = Partial(stream[k][1], stream[k][2])
                      /\ lastAppliedSDU'[ApidAt[k]] \in {Nil, CtrAt[k]}
    BY <1>2, <1>4, <1>5, Zenon DEF OpenInv
  <2>1. Files[ApidAt[k]] = Partial(stream[k][1], stream[k][2])
        /\ lastAppliedSDU[ApidAt[k]] \in {Nil, CtrAt[k]}
    BY DEF DeliveryInv, OpenInv
  <2>2. ApidAt[k] \in Apids
    BY <1>1, PlaceAt DEF Safe
  <2> QED
    BY <2>1, <2>2
<1>8. DoneInv'
  BY <1>4, <1>5, Zenon DEF DoneInv
<1>9. SharedInv'
  BY DEF DeliveryInv, SharedInv
<1> QED
  BY <1>6, <1>7, <1>8, <1>9 DEF DeliveryInv

(* A file with all of its content is valid for the session layer. *)
LEMMA LayerSame ==
    /\ \A f \in Sent : Layer!Original[f] = Original[f]
    /\ \A f \in Sent : Promise!Original[f] = Original[f]
    /\ \A g : g.file \in Sent /\ g.data = Original[g.file] => Layer!IsValid(g)
    /\ \A g : \A unzips \in BOOLEAN :
          Layer!Unzips(g, unzips) /\ Meta[g.file].zip # "broken" /\ g.file \notin exposed => unzips = TRUE
<1>1. Layer!Original = Original
  BY Zenon DEF Layer!Original, Original, Layer!NonEmpty, NonEmpty, Layer!Unpacked, Unpacked,
     Layer!SentChunk, SentChunk, Layer!Sent, Sent, Layer!Parts, Parts, Layer!Row, Row
<1>2. Promise!Original = Original
  BY Zenon DEF Promise!Original, Original, Promise!NonEmpty, NonEmpty, Promise!Unpacked, Unpacked,
     Promise!SentChunk, SentChunk, Promise!Sent, Sent, Promise!Parts, Parts, Promise!Row, Row
<1>3. ASSUME NEW g, g.file \in Sent, g.data = Original[g.file]
      PROVE  Layer!IsValid(g)
  <2>1. Layer!DataLength = [f \in Layer!Sent |-> Layer!Octets(Layer!Original[f])]
    BY Zenon DEF Layer!DataLength
  <2>2. g.file \in Layer!Sent
    BY <1>3 DEF Layer!Sent, Sent
  <2>3. Layer!DataLength[g.file] = Layer!Octets(g.data)
    BY <1>1, <1>3, <2>1, <2>2, Zenon
  <2> QED
    BY <2>3 DEF Layer!IsValid
<1> QED
  BY <1>1, <1>2, <1>3 DEF Layer!Unzips

(* The elements of a sequence without its head, and with one more. *)
LEMMA HeadAndTail ==
    ASSUME NEW T, NEW q \in Seq(T), q # << >>
    PROVE  ToSet(q) \subseteq {Head(q)} \cup ToSet(Tail(q))
<1> SUFFICES ASSUME NEW i \in 1..Len(q), i # 1 PROVE q[i] \in ToSet(Tail(q))
  BY DEF ToSet
<1>1. i - 1 \in DOMAIN Tail(q) /\ Tail(q)[i - 1] = q[i]
  OBVIOUS
<1> QED
  BY <1>1 DEF ToSet

(* One more element. *)
LEMMA AppendedTo ==
    ASSUME NEW T, NEW q \in Seq(T), NEW e
    PROVE  ToSet(Append(q, e)) = ToSet(q) \cup {e}
BY DEF ToSet

(* The invariant holds at the start, *)
LEMMA DeliveryInit == Init => DeliveryInv
<1> SUFFICES ASSUME Init PROVE DeliveryInv
  OBVIOUS
<1>1. pos = 0 /\ APIDs = [a \in Apids |-> {}] /\ inWay = {} /\ spoilt = {} /\ exposed = {}
  BY DEF Init, AssemblerInit
<1>2. Waiting = {}
  BY <1>1 DEF Waiting
<1>3. Done = {}
  BY <1>1 DEF Done
<1>4. \A a \in Apids : APIDs[a] = {}
  BY <1>1
<1> QED
  BY <1>1, <1>2, <1>3, <1>4
     DEF DeliveryInv, WaitingInv, Ascending, DoneInOrder, BadApart, SharedInv, OpenInv, DoneInv

(* The session layer and the application take files on. *)
LEMMA SessionKeeps ==
    ASSUME TypeOK, DeliveryInv, SessionStep \/ Consume
    PROVE  DeliveryInv'
<1>1. UNCHANGED <<stream, pos, hurt, inWay, spoilt, exposed, APIDs, Files, lastAppliedSDU>>
  BY DEF SessionStep, Consume, link, shared, assembly, assemblerVars,
         Layer!ProcessTransportFile, Layer!SendFile
<1>2. /\ TransportOutput \in Seq(FileType) /\ LRITOutput \in Seq(FileType) /\ received \in Seq(FileType)
      /\ stream \in Streams
  BY DEF TypeOK, AssemblerTypeOK
<1>3. ASSUME NEW k \in Done \cap Safe,
             stream[k][2] = Parts(stream[k][1]), Deliverable(stream[k][1])
      PROVE  \E g \in OnTheWay' : g.file = stream[k][1] /\ g.data = Original[stream[k][1]]
  <2>1. PICK g \in OnTheWay : g.file = stream[k][1] /\ g.data = Original[stream[k][1]]
    BY <1>3 DEF DeliveryInv, DoneInv
  <2>2. stream[k][1] \in Sent
    BY <1>2, PlaceAt DEF Safe
  <2>3. /\ Layer!IsValid(g) /\ g # Nil
        /\ \A unzips \in BOOLEAN : Layer!Unzips(g, unzips) => unzips = TRUE
    <3>1. g # Nil
      <4>1. ToSet(TransportOutput) \subseteq FileType /\ ToSet(LRITOutput) \subseteq FileType
            /\ ToSet(received) \subseteq FileType
        BY <1>2 DEF ToSet
      <4> QED
        BY <2>1, <4>1, LritFileAssumption DEF OnTheWay
    <3>2. Meta[stream[k][1]].zip # "broken" /\ stream[k][1] \notin exposed
      BY <1>3 DEF Deliverable, DeliveryInv, SharedInv, Safe
    <3> QED
      BY <2>1, <2>2, <3>1, <3>2, LayerSame
  <2>4. g \in OnTheWay'
    <3>1. CASE SessionStep /\ Layer!ProcessTransportFile
      <4>1. /\ lf = Nil /\ TransportOutput # << >> /\ TransportOutput' = Tail(TransportOutput)
            /\ \E unzips \in BOOLEAN :
                  /\ Layer!Unzips(Head(TransportOutput), unzips)
                  /\ lf' = IF Layer!IsValid(Head(TransportOutput)) /\ unzips
                           THEN Head(TransportOutput) ELSE Nil
            /\ LRITOutput' = LRITOutput /\ received' = received
        BY <3>1 DEF SessionStep, Layer!ProcessTransportFile
      <4>2. ToSet(TransportOutput) \subseteq {Head(TransportOutput)} \cup ToSet(Tail(TransportOutput))
        BY <1>2, <4>1, HeadAndTail
      <4> QED
        BY <2>1, <2>3, <4>1, <4>2 DEF OnTheWay
    <3>2. CASE SessionStep /\ Layer!SendFile
      <4>1. /\ LRITOutput' = Append(LRITOutput, lf) /\ lf' = Nil
            /\ TransportOutput' = TransportOutput /\ received' = received
        BY <3>2 DEF SessionStep, Layer!SendFile
      <4>2. ToSet(LRITOutput') = ToSet(LRITOutput) \cup {lf}
        BY <1>2, <4>1, AppendedTo
      <4> QED
        BY <2>1, <2>3, <4>1, <4>2 DEF OnTheWay
    <3>3. CASE Consume
      <4>1. /\ LRITOutput # << >> /\ received' = Append(received, Head(LRITOutput))
            /\ LRITOutput' = Tail(LRITOutput) /\ TransportOutput' = TransportOutput /\ lf' = lf
        BY <3>3 DEF Consume, assemblerVars
      <4>2. ToSet(received') = ToSet(received) \cup {Head(LRITOutput)}
        BY <1>2, <4>1, AppendedTo
      <4>3. ToSet(LRITOutput) \subseteq {Head(LRITOutput)} \cup ToSet(Tail(LRITOutput))
        BY <1>2, <4>1, HeadAndTail
      <4> QED
        BY <2>1, <2>3, <4>1, <4>2, <4>3 DEF OnTheWay
    <3> QED
      BY <3>1, <3>2, <3>3 DEF SessionStep
  <2> QED
    BY <2>1, <2>4
<1> QED
  BY <1>1, <1>3, OthersKeep

(* and every step keeps it. *)
LEMMA DeliveryNext == TypeOK /\ DeliveryInv /\ [Next]_vars => DeliveryInv'
<1> SUFFICES ASSUME TypeOK, DeliveryInv, [Next]_vars PROVE DeliveryInv'
  OBVIOUS
<1>1. CASE Frames /\ UNCHANGED <<lf, LRITOutput, received>>
  BY <1>1, DeliverKeeps DEF Frames
<1>2. ASSUME UNCHANGED <<stream, pos, hurt, inWay, spoilt, exposed, APIDs, Files,
                         TransportOutput, lf, LRITOutput, received>>,
             \A a \in Apids : lastAppliedSDU'[a] \in {Nil, lastAppliedSDU[a]}
      PROVE  DeliveryInv'
  <2>1. OnTheWay' = OnTheWay
    BY <1>2 DEF OnTheWay
  <2> QED
    BY <1>2, <2>1, OthersKeep DEF DeliveryInv, DoneInv
<1>3. CASE ProcessAllAPIDs /\ UNCHANGED <<lf, LRITOutput, received>>
  <2>1. ASSUME NEW a \in Apids, PickAPID(a)
        PROVE  DeliveryInv'
    BY <1>2, <1>3, <2>1 DEF PickAPID, link, shared
  <2>2. CASE EndAPID
    <3>1. lastAppliedSDU \in [Apids -> (0..CtrMod-1) \cup {Nil}]
      BY DEF TypeOK, AssemblerTypeOK
    <3>2. \A a \in Apids : lastAppliedSDU'[a] \in {Nil, lastAppliedSDU[a]}
      BY <2>2, <3>1 DEF EndAPID
    <3> QED
      BY <1>2, <1>3, <2>2, <3>2 DEF EndAPID, link, shared
  <2>3. ASSUME NEW s, ApplyStep(s)
        PROVE  DeliveryInv'
    BY <1>3, <2>3, ApplyKeeps
  <2> QED
    BY <1>3, <2>1, <2>2, <2>3 DEF ProcessAllAPIDs, ApplyStep
<1>4. CASE SessionStep \/ Consume
  BY <1>4, SessionKeeps
<1>5. CASE UNCHANGED vars
  BY <1>2, <1>5 DEF vars, assemblerVars, link, shared, assembly
<1> QED
  BY <1>1, <1>3, <1>4, <1>5 DEF Next, TransportStep

(***************************************************************************)
(* Damage stays where it is: a file whose own SDUs arrived undisturbed has *)
(* reached the application whole as soon as nothing is left under way,     *)
(* however many files, APIDs, frames, losses and bad SDUs there are.       *)
(***************************************************************************)
THEOREM UndisturbedReachApplication == Spec => []UndisturbedDelivered
<1>1. TypeOK /\ DeliveryInv => UndisturbedDelivered
  <2> SUFFICES ASSUME TypeOK, DeliveryInv, Quiet, NEW f \in Undisturbed, Deliverable(f)
               PROVE  f \in Whole
    BY DEF UndisturbedDelivered
  <2>1. stream \in Streams /\ pos \in 0..Len(stream) /\ received \in Seq(FileType)
    BY DEF TypeOK, AssemblerTypeOK
  <2>2. PICK k \in 1..pos : stream[k] = <<f, Parts(f)>>
    BY DEF Undisturbed
  <2>3. f \in Sent /\ f \notin hurt
    BY DEF Undisturbed
  <2>4. k \in Places /\ stream[k][1] = f /\ stream[k][2] = Parts(f)
    BY <2>1, <2>2, PlaceAt
  <2>5. k \in Done \cap Safe
    <3>1. ApidAt[k] \in Apids
      BY <2>1, <2>4, PlaceAt
    <3>2. k \notin Waiting
      BY <3>1 DEF Quiet, Idle, Waiting
    <3> QED
      BY <2>3, <2>4, <3>2 DEF Done, Safe
  <2>6. PICK g \in OnTheWay : g.file = f /\ g.data = Original[f]
    BY <2>4, <2>5 DEF DeliveryInv, DoneInv
  <2>7. g \in ToSet(received)
    BY <2>6 DEF Quiet, OnTheWay, ToSet
  <2>8. PICK i \in DOMAIN received : received[i] = g
    BY <2>7 DEF ToSet
  <2>9. Promise!Whole(received[i])
    BY <2>3, <2>6, <2>8, LayerSame DEF Promise!Whole
  <2>10. f \notin exposed
    BY <2>3 DEF DeliveryInv, SharedInv
  <2> QED
    BY <2>6, <2>8, <2>9, <2>10 DEF Whole
<1> QED
  BY <1>1, TypeInit, TypeNext, DeliveryInit, DeliveryNext, PTL DEF Spec
=============================================================================
