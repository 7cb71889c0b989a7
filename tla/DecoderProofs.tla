--------------------------- MODULE DecoderProofs ---------------------------
(***************************************************************************)
(* Proofs about Decoder, for every frame length, sync word, channel        *)
(* capacity and bound: its types, the frames the transport layer reads,    *)
(* and how the decoder finds its way back after a fault.                   *)
(***************************************************************************)
EXTENDS Decoder, TLAPS, SequenceTheorems, FiniteSetTheorems, WellFoundedInduction

(* The constants, spelled out. *)
LEMMA ConstantFacts ==
    /\ FrameLen \in Nat \ {0} /\ SyncLen \in Nat \ {0} /\ ShortLen \in Nat
    /\ SyncLen <= ShortLen /\ ShortLen <= FrameLen
    /\ MaxRecheck \in Nat \ {0} /\ SymbolBuffer \in Nat /\ FrameBuffer \in Nat \ {0}
    /\ LastSymbol \in Nat /\ LastSymbol >= FrameLen /\ Nil \notin Nat
    /\ Buffers \subseteq Nat /\ 0 \in Buffers
BY DecoderAssumption DEF Buffers
-----------------------------------------------------------------------------
(* Type correctness. *)

(* Frames are numbered. *)
LEMMA FrameNumber ==
    ASSUME NEW a \in Nat
    PROVE  a \div FrameLen \in Nat
<1>1. FrameLen \in Nat \ {0}
  BY ConstantFacts
<1> HIDE DEF FrameOf
<1> QED
  BY <1>1

(* What checkIfFrameLocked may find, and how it looked for it. *)
LEMMA SearchFacts ==
    ASSUME NEW r \in SearchResults
    PROVE  /\ r.c.pos \in 0..FrameLen - SyncLen /\ r.c.enough \in BOOLEAN /\ r.whole \in BOOLEAN
           /\ r.whole => r.c \in Correlations(EncodedBytes, FrameLen)
           /\ ~r.whole => /\ ~FullDue /\ r.c.pos = 0
                          /\ r.c \in Correlations(EncodedBytes, ShortLen)
           /\ r.whole /\ ~FullDue =>
                 \E c \in Correlations(EncodedBytes, ShortLen) : c.pos # 0
<1> DEFINE short == Correlations(EncodedBytes, ShortLen)
           full == Correlations(EncodedBytes, FrameLen)
<1>1. ASSUME NEW len \in {ShortLen, FrameLen}, NEW c \in Correlations(EncodedBytes, len)
      PROVE  c.pos \in 0..FrameLen - SyncLen /\ c.enough \in BOOLEAN
  <2>1. Syncs(EncodedBytes, len) \subseteq 0..len - SyncLen
    BY DEF Syncs
  <2>2. c.pos \in 0..len - SyncLen /\ c.enough \in BOOLEAN
    BY <2>1 DEF Correlations
  <2>3. len \in Nat /\ len <= FrameLen /\ FrameLen \in Nat /\ SyncLen \in Nat
    BY ConstantFacts
  <2> QED
    BY <2>2, <2>3
<1>2. CASE \E c \in short : ~FullDue /\ c.pos = 0 /\ r = [c |-> c, whole |-> FALSE]
  <2>1. PICK c \in short : ~FullDue /\ c.pos = 0 /\ r = [c |-> c, whole |-> FALSE]
    BY <1>2
  <2>2. r.c = c /\ r.whole = FALSE
    BY <2>1
  <2> QED
    BY <1>1, <2>1, <2>2
<1>3. CASE /\ FullDue \/ \E c \in short : c.pos # 0
           /\ \E c \in full : r = [c |-> c, whole |-> TRUE]
  <2>1. PICK c \in full : r = [c |-> c, whole |-> TRUE]
    BY <1>3
  <2>2. r.c = c /\ r.whole = TRUE
    BY <2>1
  <2> QED
    BY <1>1, <1>3, <2>1, <2>2
<1> HIDE DEF short, full
<1>4. SearchResults =
        {[c |-> c, whole |-> FALSE] : c \in {c \in short : ~FullDue /\ c.pos = 0}}
        \cup {[c |-> c, whole |-> TRUE] : c \in IF FullDue \/ \E c \in short : c.pos # 0
                                               THEN full ELSE {}}
  BY DEF SearchResults, short, full
<1> QED
  BY <1>2, <1>3, <1>4

(* Some buffer is free whenever Start's loop takes one. *)
LEMMA FreeBuffer ==
    ASSUME FramesOutput \in Seq(Buffers), Len(FramesOutput) <= FrameBuffer
    PROVE  \E b \in Buffers : b \notin InUse
<1> DEFINE n == Len(FramesOutput)
           R == {FramesOutput[i] : i \in DOMAIN FramesOutput}
<1>1. n \in Nat /\ DOMAIN FramesOutput = 1..n /\ n <= FrameBuffer /\ FrameBuffer \in Nat
  BY LenProperties, ConstantFacts
<1>2. IsFiniteSet(R) /\ Cardinality(R) <= n
  <2>1. IsFiniteSet(1..n) /\ Cardinality(1..n) = n
    <3> HIDE DEF n
    <3>1. 1 \in Int /\ n \in Int /\ n \in Nat
      BY <1>1
    <3>2. IsFiniteSet(1..n) /\ Cardinality(1..n) = IF 1 > n THEN 0 ELSE n - 1 + 1
      BY <3>1, FS_Interval
    <3> QED
      BY <3>1, <3>2
  <2> DEFINE f == [i \in 1..n |-> FramesOutput[i]]
  <2>2. f \in Surjection(1..n, R)
    BY <1>1 DEF Surjection
  <2>3. Surjection(1..n, R) # {}
    BY <2>2
  <2> QED
    BY <2>1, <2>2, <2>3, FS_Surjection
<1>3. IsFiniteSet(InUse) /\ Cardinality(InUse) <= n + 1
  <2>1. InUse = R \cup {held}
    BY DEF InUse
  <2> HIDE DEF n, R
  <2>2. /\ IsFiniteSet(R \cup {held})
        /\ Cardinality(R \cup {held}) = IF held \in R THEN Cardinality(R) ELSE Cardinality(R) + 1
    BY <1>2, FS_AddElement
  <2>3. Cardinality(R) \in Nat
    BY <1>2, FS_CardinalityType
  <2> QED
    BY <1>1, <1>2, <2>1, <2>2, <2>3
<1>4. IsFiniteSet(Buffers) /\ Cardinality(Buffers) = FrameBuffer + 3
  BY <1>1, FS_Interval DEF Buffers
<1>5. CASE Buffers \subseteq InUse
  <2>1. Cardinality(Buffers) <= Cardinality(InUse) /\ Cardinality(InUse) \in Nat
    BY <1>3, <1>5, FS_Subset, FS_CardinalityType
  <2> QED
    BY <1>1, <1>3, <1>4, <2>1
<1> QED
  BY <1>5

(* Typed is inductive: LoopInv supplies how full EncodedBytes is. *)
Typed == TypeOK /\ LoopInv

(* A new decoder. *)
LEMMA TypedInit == Init => Typed
<1> SUFFICES ASSUME Init PROVE Typed
  OBVIOUS
<1>1. sent \in 0..LastSymbol + 1
  BY ConstantFacts DEF Init
<1>2. << >> \in Seq(Symbol) /\ << >> \in Seq(Buffers) /\ << >> \in Seq(Link!SDU)
  BY EmptySeq
<1>3. Blank \in Link!SDU
  BY DEF Blank, Link!SDU
<1>4. Len(<< >>) = 0 /\ hurt \subseteq Nat
  BY DEF Init
<1> QED
  BY <1>1, <1>2, <1>3, <1>4, ConstantFacts DEF Init, Typed, TypeOK, LoopInv

(* Typed is preserved by the demodulator. *)
LEMMA TypedDemod ==
    ASSUME Typed,
           \/ \E ok \in BOOLEAN : SendSymbol(ok)
           \/ \E n \in 1..FrameLen : LoseSymbols(n)
    PROVE  Typed'
<1>1. UNCHANGED <<pc, EncodedBytes, lastFrameOk, recheckCounter, RSCorrectedData, sentOn, split,
                  FrameLock, heap, FramesOutput, held, received, flush, flushes>>
  BY DEF SendSymbol, LoseSymbols, decoder, transport, flusher
<1>2. sent \in 0..LastSymbol + 1 /\ sent \in Nat /\ hurt \subseteq Nat /\ LastSymbol \in Nat
  BY ConstantFacts DEF Typed, TypeOK
<1>3. ASSUME NEW ok \in BOOLEAN, SendSymbol(ok)
      PROVE  /\ sent' \in 0..LastSymbol + 1 /\ hurt' \subseteq Nat
             /\ SymbolsInput' \in Seq(Symbol) /\ Len(SymbolsInput') <= SymbolBuffer
  <2>1. sent \div FrameLen \in Nat
    BY <1>2, FrameNumber
  <2> DEFINE x == [at |-> sent, ok |-> ok]
  <2>2. x \in Symbol /\ sent' \in 0..LastSymbol + 1
    BY <1>2, <1>3 DEF SendSymbol, Symbol
  <2>3. SymbolsInput' = Append(SymbolsInput, x) /\ Len(SymbolsInput) < SymbolBuffer
    BY <1>3 DEF SendSymbol
  <2> HIDE DEF x
  <2>4. SymbolsInput' \in Seq(Symbol) /\ Len(SymbolsInput') = Len(SymbolsInput) + 1
        /\ Len(SymbolsInput) \in Nat
    BY <2>2, <2>3, AppendProperties, LenProperties DEF Typed, TypeOK
  <2>5. hurt' \subseteq Nat
    BY <1>2, <1>3, <2>1 DEF SendSymbol
  <2> QED
    BY <2>2, <2>3, <2>4, <2>5, ConstantFacts
<1>4. ASSUME NEW n \in 1..FrameLen, LoseSymbols(n)
      PROVE  /\ sent' \in 0..LastSymbol + 1 /\ hurt' \subseteq Nat
             /\ SymbolsInput' \in Seq(Symbol) /\ Len(SymbolsInput') <= SymbolBuffer
  <2>1. ASSUME NEW k \in sent..sent + n - 1
        PROVE  k \div FrameLen \in Nat
    BY <1>2, FrameNumber
  <2>2. {k \div FrameLen : k \in sent..sent + n - 1} \subseteq Nat
    BY <2>1
  <2>3. hurt' \subseteq Nat
    BY <1>2, <1>4, <2>2 DEF LoseSymbols
  <2>4. sent' = sent + n /\ sent + n <= LastSymbol + 1 /\ n \in Nat /\ SymbolsInput' = SymbolsInput
    BY <1>4, ConstantFacts DEF LoseSymbols
  <2> QED
    BY <1>2, <2>3, <2>4 DEF Typed, TypeOK
<1> QED
  BY <1>1, <1>3, <1>4 DEF Typed, TypeOK, LoopInv

(* Receiving moves the head of the channel to the end of EncodedBytes. *)
LEMMA ReceiveFacts ==
    ASSUME Typed, ReceiveSymbol
    PROVE  /\ EncodedBytes' \in Seq(Symbol) /\ SymbolsInput' \in Seq(Symbol)
           /\ Len(EncodedBytes) \in Nat /\ Len(SymbolsInput) \in Nat \ {0}
           /\ Len(EncodedBytes') = Len(EncodedBytes) + 1
           /\ Len(SymbolsInput') = Len(SymbolsInput) - 1
           /\ \A i \in 1..Len(EncodedBytes) : EncodedBytes'[i] = EncodedBytes[i]
           /\ EncodedBytes'[Len(EncodedBytes) + 1] = SymbolsInput[1]
           /\ \A i \in 1..Len(SymbolsInput) - 1 : SymbolsInput'[i] = SymbolsInput[i + 1]
           /\ Len(EncodedBytes') <= FrameLen
<1>1. /\ EncodedBytes \in Seq(Symbol) /\ SymbolsInput \in Seq(Symbol) /\ SymbolsInput # << >>
      /\ EncodedBytes' = Append(EncodedBytes, Head(SymbolsInput))
      /\ SymbolsInput' = Tail(SymbolsInput)
      /\ Len(EncodedBytes) < FrameLen
  BY DEF Typed, TypeOK, LoopInv, ReceiveSymbol
<1>2. /\ Head(SymbolsInput) \in Symbol /\ Tail(SymbolsInput) \in Seq(Symbol)
      /\ Len(Tail(SymbolsInput)) = Len(SymbolsInput) - 1
      /\ \A i \in 1..Len(Tail(SymbolsInput)) : Tail(SymbolsInput)[i] = SymbolsInput[i + 1]
      /\ Len(SymbolsInput) \in Nat \ {0}
  BY <1>1, HeadTailProperties, EmptySeq
<1>3. Head(SymbolsInput) = SymbolsInput[1]
  BY <1>1
<1>4. /\ Append(EncodedBytes, Head(SymbolsInput)) \in Seq(Symbol)
      /\ Len(Append(EncodedBytes, Head(SymbolsInput))) = Len(EncodedBytes) + 1
      /\ \A i \in 1..Len(EncodedBytes) :
            Append(EncodedBytes, Head(SymbolsInput))[i] = EncodedBytes[i]
      /\ Append(EncodedBytes, Head(SymbolsInput))[Len(EncodedBytes) + 1] = Head(SymbolsInput)
  BY <1>1, <1>2, AppendProperties
<1>5. Len(EncodedBytes) \in Nat /\ FrameLen \in Nat
  BY <1>1, LenProperties, ConstantFacts
<1> QED
  BY <1>1, <1>2, <1>3, <1>4, <1>5

(* Typed is preserved while EncodedBytes is filled. *)
LEMMA TypedFill ==
    ASSUME Typed, Poll \/ ReceiveSymbol
    PROVE  Typed'
<1>1. UNCHANGED <<sent, faults, hurt, FrameLock, heap, FramesOutput, held, received, flush, flushes,
                  lastFrameOk, recheckCounter, split, RSCorrectedData, sentOn>>
  BY DEF Poll, ReceiveSymbol, Outside, Locking, Passing, demod, transport, flusher, decoder
<1>2. CASE Poll
  <2>1. pc = "poll" /\ pc' = "fill" /\ UNCHANGED <<SymbolsInput, EncodedBytes>>
    BY <1>2 DEF Poll, decoder
  <2>2. EncodedBytes' = << >> /\ Len(EncodedBytes') < FrameLen
    BY <2>1, ConstantFacts DEF Typed, LoopInv
  <2> QED
    BY <1>1, <2>1, <2>2 DEF Typed, TypeOK, LoopInv
<1>3. CASE ReceiveSymbol
  <2>1. /\ EncodedBytes' \in Seq(Symbol) /\ SymbolsInput' \in Seq(Symbol)
        /\ Len(EncodedBytes) \in Nat /\ Len(SymbolsInput) \in Nat \ {0}
        /\ Len(EncodedBytes') = Len(EncodedBytes) + 1
        /\ Len(SymbolsInput') = Len(SymbolsInput) - 1
        /\ Len(EncodedBytes') <= FrameLen
    BY <1>3, ReceiveFacts
  <2>2. EncodedBytes' # << >>
    BY <2>1, EmptySeq
  <2>3. /\ pc \in {"fill", "backfill"}
        /\ pc' = IF Len(EncodedBytes') < FrameLen THEN pc
                 ELSE IF pc = "fill" THEN "search" ELSE "decode"
    BY <1>3 DEF ReceiveSymbol
  <2>4. Len(SymbolsInput') <= SymbolBuffer
    BY <2>1, ConstantFacts DEF Typed, TypeOK
  <2>5. FrameLen \in Nat
    BY ConstantFacts
  <2> QED
    BY <1>1, <2>1, <2>2, <2>3, <2>4, <2>5 DEF Typed, TypeOK, LoopInv
<1> QED
  BY <1>2, <1>3

(* What correlate leaves of EncodedBytes. *)
LEMMA ShiftFacts ==
    ASSUME Typed, pc = "search", NEW r \in SearchResults, correlate(r)
    PROVE  /\ Len(EncodedBytes) = FrameLen /\ EncodedBytes \in Seq(Symbol)
           /\ EncodedBytes' \in Seq(Symbol)
           /\ Len(EncodedBytes') = FrameLen - r.c.pos
           /\ r.c.pos \in Nat /\ r.c.pos < FrameLen
           /\ \A i \in 1..FrameLen - r.c.pos : EncodedBytes'[i] = EncodedBytes[r.c.pos + i]
<1>1. Len(EncodedBytes) = FrameLen /\ EncodedBytes \in Seq(Symbol)
  BY DEF Typed, TypeOK
<1>2. r.c.pos \in 0..FrameLen - SyncLen /\ FrameLen \in Nat /\ SyncLen \in Nat \ {0}
  BY SearchFacts, ConstantFacts
<1> DEFINE k == r.c.pos + 1
<1>3. EncodedBytes' = SubSeq(EncodedBytes, k, FrameLen)
  BY DEF correlate
<1>4. k \in Int /\ k <= FrameLen /\ k >= 1 /\ FrameLen - k + 1 = FrameLen - r.c.pos
  BY <1>2
<1>5. \A i \in k..FrameLen : EncodedBytes[i] \in Symbol
  BY <1>1, <1>2, <1>4, ElementOfSeq
<1>6. \A i \in 1..FrameLen - r.c.pos : k + i - 1 = r.c.pos + i
  BY <1>2
<1> HIDE DEF k
<1>7. /\ EncodedBytes' \in Seq(Symbol)
      /\ Len(EncodedBytes') = FrameLen - k + 1
      /\ \A i \in 1..FrameLen - k + 1 : EncodedBytes'[i] = EncodedBytes[k + i - 1]
  BY <1>2, <1>3, <1>4, <1>5, SubSeqProperties
<1>8. r.c.pos \in Nat /\ r.c.pos < FrameLen
  BY <1>2
<1>9. ASSUME NEW i \in 1..FrameLen - r.c.pos
      PROVE  EncodedBytes'[i] = EncodedBytes[r.c.pos + i]
  BY <1>4, <1>6, <1>7
<1> QED
  BY <1>1, <1>4, <1>7, <1>8, <1>9

(* Typed is preserved by the search for a sync word. *)
LEMMA TypedSearch ==
    ASSUME Typed, pc = "search", NEW r \in SearchResults, NoPacketLock(r) \/ correlate(r)
    PROVE  Typed'
<1>1. UNCHANGED <<sent, faults, hurt, FrameLock, heap, FramesOutput, held, received, flush, flushes,
                  SymbolsInput, RSCorrectedData, sentOn>>
  BY DEF NoPacketLock, correlate, Outside, Passing, demod, transport, flusher
<1>2. recheckCounter' \in 0..MaxRecheck /\ lastFrameOk' \in BOOLEAN
  <2>1. /\ recheckCounter' = IF r.whole THEN 1 ELSE recheckCounter + 1
        /\ lastFrameOk' = (~FullDue /\ r.c.enough)
    BY DEF NoPacketLock, correlate, checkIfFrameLocked
  <2>2. ~r.whole => ~FullDue
    BY SearchFacts
  <2>3. ~FullDue => recheckCounter < MaxRecheck
    BY ConstantFacts DEF FullDue, Typed, TypeOK
  <2> QED
    BY <2>1, <2>2, <2>3, ConstantFacts DEF Typed, TypeOK
<1>3. CASE NoPacketLock(r)
  <2>1. EncodedBytes' = << >> /\ pc' = "poll"
    BY <1>3 DEF NoPacketLock
  <2>2. << >> \in Seq(Symbol) /\ Len(<< >>) = 0 /\ FrameLen \in Nat
    BY EmptySeq, ConstantFacts
  <2> QED
    BY <1>1, <1>2, <2>1, <2>2 DEF Typed, TypeOK, LoopInv
<1>4. CASE correlate(r)
  <2>1. /\ EncodedBytes' \in Seq(Symbol) /\ Len(EncodedBytes') = FrameLen - r.c.pos
        /\ r.c.pos \in Nat /\ r.c.pos < FrameLen
    BY <1>4, ShiftFacts
  <2>2. pc' = IF r.c.pos = 0 THEN "decode" ELSE "backfill"
    BY <1>4 DEF correlate
  <2>3. FrameLen \in Nat /\ EncodedBytes' # << >>
    BY <2>1, ConstantFacts, EmptySeq
  <2>4. /\ pc' \in {"decode", "backfill"} /\ Len(EncodedBytes') <= FrameLen
        /\ pc' = "decode" => Len(EncodedBytes') = FrameLen
        /\ pc' = "backfill" => Len(EncodedBytes') < FrameLen
    <3> DEFINE len == Len(EncodedBytes')
               p == r.c.pos
    <3>1. len = FrameLen - p /\ p \in Nat /\ p < FrameLen /\ FrameLen \in Nat
          /\ pc' = IF p = 0 THEN "decode" ELSE "backfill"
      BY <2>1, <2>2, <2>3
    <3> HIDE DEF len, p
    <3>2. len <= FrameLen /\ (p = 0 => len = FrameLen) /\ (p # 0 => len < FrameLen)
      BY <3>1
    <3> QED
      BY <3>1, <3>2, Zenon DEF len
  <2>5. TypeOK'
    BY <1>1, <1>2, <2>1, <2>4 DEF Typed, TypeOK
  <2>6. LoopInv'
    BY <1>1, <2>3, <2>4 DEF Typed, LoopInv
  <2> QED
    BY <2>5, <2>6 DEF Typed
<1> QED
  BY <1>3, <1>4

(* Typed is preserved by decoding. *)
LEMMA TypedDecode ==
    ASSUME Typed, errorCorrectPacket
    PROVE  Typed'
<1>1. PICK d \in Decodings(EncodedBytes) :
          /\ heap' = [heap EXCEPT ![RSCorrectedData] =
                         [from |-> EncodedBytes[1].at, good |-> d.good]]
          /\ lastFrameOk' = d.corrected
          /\ FrameLock' = d.corrected
          /\ pc' = IF d.corrected THEN "send" ELSE "clear"
  BY DEF errorCorrectPacket
<1>2. d.corrected \in BOOLEAN /\ d.good \in BOOLEAN
  BY DEF Decodings
<1>3. UNCHANGED <<sent, faults, hurt, SymbolsInput, recheckCounter, split, RSCorrectedData, sentOn,
                  FramesOutput, held, received, flush, flushes>>
      /\ EncodedBytes' = << >> /\ pc = "decode"
  BY DEF errorCorrectPacket, demod, Passing, transport, flusher
<1>4. EncodedBytes[1] \in Symbol
  <2>1. EncodedBytes \in Seq(Symbol) /\ Len(EncodedBytes) = FrameLen /\ FrameLen \in Nat \ {0}
    BY <1>3, ConstantFacts DEF Typed, TypeOK
  <2> QED
    BY <2>1, ElementOfSeq
<1>5. heap' \in [Buffers -> Link!SDU]
  <2>1. [from |-> EncodedBytes[1].at, good |-> d.good] \in Link!SDU
    BY <1>2, <1>4 DEF Symbol, Link!SDU
  <2> QED
    BY <1>1, <2>1 DEF Typed, LoopInv
<1>6. << >> \in Seq(Symbol) /\ Len(<< >>) = 0 /\ FrameLen \in Nat
  BY EmptySeq, ConstantFacts
<1> QED
  BY <1>1, <1>2, <1>3, <1>5, <1>6 DEF Typed, TypeOK, LoopInv

(* What the channel of frames holds after a send and after a receive. *)
LEMMA FramesAppend ==
    ASSUME Typed, SendFrame
    PROVE  /\ FramesOutput' \in Seq(Buffers) /\ Len(FramesOutput) \in Nat
           /\ Len(FramesOutput') = Len(FramesOutput) + 1 /\ Len(FramesOutput') <= FrameBuffer
           /\ DOMAIN FramesOutput = 1..Len(FramesOutput)
           /\ DOMAIN FramesOutput' = 1..Len(FramesOutput) + 1
           /\ \A i \in 1..Len(FramesOutput) : FramesOutput'[i] = FramesOutput[i]
           /\ FramesOutput'[Len(FramesOutput) + 1] = RSCorrectedData
<1>1. /\ FramesOutput \in Seq(Buffers) /\ RSCorrectedData \in Buffers
      /\ FramesOutput' = Append(FramesOutput, RSCorrectedData)
      /\ Len(FramesOutput) < FrameBuffer /\ FrameBuffer \in Nat
  BY ConstantFacts DEF Typed, TypeOK, SendFrame
<1> QED
  BY <1>1, AppendProperties, LenProperties

(* Whoever takes a frame takes the first one. *)
LEMMA FramesTail ==
    ASSUME Typed, FramesOutput # << >>, FramesOutput' = Tail(FramesOutput)
    PROVE  /\ FramesOutput' \in Seq(Buffers) /\ Len(FramesOutput) \in Nat \ {0}
           /\ Len(FramesOutput') = Len(FramesOutput) - 1 /\ Len(FramesOutput') <= FrameBuffer
           /\ DOMAIN FramesOutput = 1..Len(FramesOutput)
           /\ DOMAIN FramesOutput' = 1..Len(FramesOutput) - 1
           /\ \A i \in 1..Len(FramesOutput) - 1 : FramesOutput'[i] = FramesOutput[i + 1]
           /\ Head(FramesOutput) = FramesOutput[1] /\ Head(FramesOutput) \in Buffers
<1>1. /\ FramesOutput \in Seq(Buffers) /\ Len(FramesOutput) <= FrameBuffer
      /\ FrameBuffer \in Nat
  BY ConstantFacts DEF Typed, TypeOK
<1>2. Len(FramesOutput) \in Nat \ {0} /\ Head(FramesOutput) = FramesOutput[1]
  BY <1>1, EmptySeq
<1>3. /\ Head(FramesOutput) \in Buffers /\ FramesOutput' \in Seq(Buffers)
      /\ Len(FramesOutput') = Len(FramesOutput) - 1
      /\ \A i \in 1..Len(FramesOutput') : FramesOutput'[i] = FramesOutput[i + 1]
  BY <1>1, HeadTailProperties
<1>4. DOMAIN FramesOutput' = 1..Len(FramesOutput')
  BY <1>3, LenProperties
<1> QED
  BY <1>1, <1>2, <1>3, <1>4, LenProperties

(* Typed is preserved when a frame is passed on and a buffer taken for the *)
(* next one.                                                               *)
LEMMA TypedPass ==
    ASSUME Typed, SendFrame \/ clearBuffers
    PROVE  Typed'
<1>1. UNCHANGED <<sent, faults, hurt, SymbolsInput, EncodedBytes, lastFrameOk, recheckCounter, split,
                  FrameLock, held, received, flush, flushes>>
      /\ EncodedBytes = << >>
  BY DEF SendFrame, clearBuffers, demod, Locking, transport, flusher, Typed, LoopInv
<1>2. CASE SendFrame
  <2>1. FramesOutput' \in Seq(Buffers) /\ Len(FramesOutput') <= FrameBuffer
    BY <1>2, FramesAppend
  <2>2. UNCHANGED <<RSCorrectedData, heap>> /\ pc = "send" /\ pc' = "clear"
    BY <1>2 DEF SendFrame
  <2>3. sentOn' \subseteq Nat
    <3>1. heap[RSCorrectedData] \in Link!SDU
      BY DEF Typed, TypeOK, LoopInv
    <3>2. heap[RSCorrectedData].from \div FrameLen \in Nat
      BY <3>1, FrameNumber DEF Link!SDU
    <3> QED
      BY <1>2, <3>2 DEF SendFrame, Typed, TypeOK
  <2> QED
    BY <1>1, <2>1, <2>2, <2>3 DEF Typed, TypeOK, LoopInv
<1>3. CASE clearBuffers
  <2>1. RSCorrectedData' \in Buffers
    BY <1>3, FreeBuffer DEF clearBuffers, Typed, TypeOK
  <2>2. heap' \in [Buffers -> Link!SDU]
    <3>1. Blank \in Link!SDU
      BY DEF Blank, Link!SDU
    <3> QED
      BY <1>3, <3>1 DEF clearBuffers, Typed, LoopInv
  <2>3. UNCHANGED <<sentOn, FramesOutput>> /\ pc = "clear" /\ pc' = "poll"
    BY <1>3 DEF clearBuffers
  <2> QED
    BY <1>1, <2>1, <2>2, <2>3 DEF Typed, TypeOK, LoopInv
<1> QED
  BY <1>2, <1>3

(* Typed is preserved by the transport layer. *)
LEMMA TypedTransport ==
    ASSUME Typed, TransportStep
    PROVE  Typed'
<1>1. UNCHANGED <<sent, faults, hurt, SymbolsInput, pc, EncodedBytes, lastFrameOk, recheckCounter,
                  RSCorrectedData, sentOn, split, FrameLock, heap, flush, flushes>>
  BY DEF TransportStep, ReceiveFrame, ReadFrame, demod, decoder, flusher
<1>2. CASE ReceiveFrame
  <2>1. /\ FramesOutput' \in Seq(Buffers) /\ Len(FramesOutput') <= FrameBuffer
        /\ Head(FramesOutput) \in Buffers
    BY <1>2, FramesTail DEF ReceiveFrame
  <2> QED
    BY <1>1, <1>2, <2>1 DEF ReceiveFrame, Typed, TypeOK, LoopInv
<1>3. CASE ReadFrame
  <2>1. held \in Buffers
    BY <1>3 DEF ReadFrame, Typed, TypeOK
  <2>2. heap[held] \in Link!SDU
    BY <2>1 DEF Typed, LoopInv
  <2>3. received' \in Seq(Link!SDU)
    BY <1>3, <2>2, AppendProperties DEF ReadFrame, Typed, LoopInv
  <2> QED
    BY <1>1, <1>3, <2>3 DEF ReadFrame, Typed, TypeOK, LoopInv
<1> QED
  BY <1>2, <1>3 DEF TransportStep

(* What the flushing goroutine takes out of the symbol channel. *)
LEMMA FlushSymbolFacts ==
    ASSUME Typed, FlushSymbol
    PROVE  /\ SymbolsInput' \in Seq(Symbol) /\ Len(SymbolsInput) \in Nat \ {0}
           /\ Len(SymbolsInput') = Len(SymbolsInput) - 1
           /\ \A i \in 1..Len(SymbolsInput) - 1 : SymbolsInput'[i] = SymbolsInput[i + 1]
           /\ SymbolsInput[1] \in Symbol
           /\ hurt' = hurt \cup {FrameOf(SymbolsInput[1])} /\ hurt' \subseteq Nat
<1>1. SymbolsInput \in Seq(Symbol) /\ SymbolsInput # << >> /\ SymbolsInput' = Tail(SymbolsInput)
  BY DEF FlushSymbol, Typed, TypeOK
<1>2. Len(SymbolsInput) \in Nat \ {0} /\ Head(SymbolsInput) = SymbolsInput[1]
  BY <1>1, EmptySeq
<1>3. /\ Head(SymbolsInput) \in Symbol /\ SymbolsInput' \in Seq(Symbol)
      /\ Len(SymbolsInput') = Len(SymbolsInput) - 1
      /\ \A i \in 1..Len(SymbolsInput') : SymbolsInput'[i] = SymbolsInput[i + 1]
  BY <1>1, HeadTailProperties
<1>4. FrameOf(Head(SymbolsInput)) \in Nat
  <2>1. Head(SymbolsInput).at \in Nat
    BY <1>3, ConstantFacts DEF Symbol
  <2> QED
    BY <2>1, FrameNumber DEF FrameOf
<1> QED
  BY <1>2, <1>3, <1>4 DEF FlushSymbol, Typed, TypeOK

(* The flushing goroutine's steps. *)
FlushStep == StartFlush \/ TestLength \/ FlushSymbol \/ FlushFrame \/ Reset

(* Typed is preserved by flushing. *)
LEMMA TypedFlush ==
    ASSUME Typed, FlushStep
    PROVE  Typed'
<1>1. UNCHANGED <<sent, faults, pc, EncodedBytes, lastFrameOk, recheckCounter,
                  RSCorrectedData, sentOn, split, heap, held, received>>
  BY DEF FlushStep, StartFlush, TestLength, FlushSymbol, FlushFrame, Reset, Flushing, demod,
         decoder, transport, flusher
<1>2. flush' \in {"no", "symbols", "symbol", "frames", "frame", "reset"}
  BY DEF FlushStep, StartFlush, TestLength, FlushSymbol, FlushFrame, Reset
<1>3. CASE FlushSymbol
  <2>1. /\ SymbolsInput' \in Seq(Symbol) /\ Len(SymbolsInput) \in Nat
        /\ Len(SymbolsInput') = Len(SymbolsInput) - 1 /\ hurt' \subseteq Nat
    BY <1>3, FlushSymbolFacts
  <2>2. Len(SymbolsInput') <= SymbolBuffer
    BY <2>1, ConstantFacts DEF Typed, TypeOK
  <2> QED
    BY <1>1, <1>2, <1>3, <2>1, <2>2 DEF FlushSymbol, Typed, TypeOK, LoopInv
<1>4. CASE FlushFrame
  <2>1. FramesOutput' \in Seq(Buffers) /\ Len(FramesOutput') <= FrameBuffer
    BY <1>4, FramesTail DEF FlushFrame
  <2> QED
    BY <1>1, <1>2, <1>4, <2>1 DEF FlushFrame, Typed, TypeOK, LoopInv
<1>5. CASE StartFlush \/ TestLength \/ Reset
  <2>1. UNCHANGED <<hurt, SymbolsInput, FramesOutput>> /\ FrameLock' \in {FALSE, FrameLock}
    BY <1>5 DEF StartFlush, TestLength, Reset, demod
  <2> QED
    BY <1>1, <1>2, <2>1 DEF Typed, TypeOK, LoopInv
<1> QED
  BY <1>3, <1>4, <1>5 DEF FlushStep

(* Typed is preserved by every step. *)
LEMMA TypedNext ==
    ASSUME Typed, [Next]_vars
    PROVE  Typed'
<1>1. CASE \/ \E ok \in BOOLEAN : SendSymbol(ok)
           \/ \E n \in 1..FrameLen : LoseSymbols(n)
  BY <1>1, TypedDemod
<1>2. CASE Poll \/ ReceiveSymbol
  BY <1>2, TypedFill
<1>3. ASSUME NEW r \in IF pc = "search" THEN SearchResults ELSE {}, NoPacketLock(r) \/ correlate(r)
      PROVE  Typed'
  BY <1>3, TypedSearch
<1>4. CASE errorCorrectPacket
  BY <1>4, TypedDecode
<1>5. CASE SendFrame \/ clearBuffers
  BY <1>5, TypedPass
<1>6. CASE TransportStep
  BY <1>6, TypedTransport
<1>7. CASE FlushStep
  BY <1>7, TypedFlush
<1>8. CASE UNCHANGED vars
  BY <1>8 DEF vars, demod, decoder, transport, flusher, Typed, TypeOK, LoopInv
<1> QED
  BY <1>1, <1>2, <1>3, <1>4, <1>5, <1>6, <1>7, <1>8 DEF Next, DecoderStep, FlushStep

(* Start's loop never fills EncodedBytes beyond a frame, never searches or *)
(* decodes less than one, and always has a buffer to decode into, whatever *)
(* is lost, damaged or flushed meanwhile.                                  *)
THEOREM DecoderTyped == Spec => []Typed
BY TypedInit, TypedNext, PTL DEF Spec

(* Type correctness. *)
THEOREM DecoderTypeCorrect == Spec => []TypeOK
BY DecoderTyped, PTL DEF Typed
-----------------------------------------------------------------------------
(* The symbols that wait. *)

(* Where each of them is, and where the next to come will be. *)
Positions ==
    /\ Len(EncodedBytes) \in Nat /\ Len(SymbolsInput) \in Nat
    /\ DOMAIN EncodedBytes = 1..Len(EncodedBytes)
    /\ DOMAIN SymbolsInput = 1..Len(SymbolsInput)
    /\ Waiting \in Nat /\ Waiting = Len(EncodedBytes) + Len(SymbolsInput)
    /\ \A i \in 1..Len(EncodedBytes) : At[i] = EncodedBytes[i].at
    /\ \A i \in 1..Len(SymbolsInput) : At[Len(EncodedBytes) + i] = SymbolsInput[i].at
    /\ At[Waiting + 1] = sent
    /\ \A i \in 1..Waiting + 1 : At[i] \in Nat

(* That is where At says they are. *)
LEMMA AtFacts == Typed => Positions
<1> SUFFICES ASSUME Typed PROVE Positions
  OBVIOUS
<1>1. /\ EncodedBytes \in Seq(Symbol) /\ SymbolsInput \in Seq(Symbol)
      /\ sent \in Nat /\ LastSymbol \in Nat
  BY ConstantFacts DEF Typed, TypeOK
<1>2. /\ Len(EncodedBytes) \in Nat /\ Len(SymbolsInput) \in Nat
      /\ DOMAIN EncodedBytes = 1..Len(EncodedBytes)
      /\ DOMAIN SymbolsInput = 1..Len(SymbolsInput)
  BY <1>1, LenProperties
<1>3. Waiting \in Nat /\ Waiting = Len(EncodedBytes) + Len(SymbolsInput)
  BY <1>2 DEF Waiting
<1>8. \A i \in 1..Waiting + 1 :
         At[i] = IF i <= Len(EncodedBytes) THEN EncodedBytes[i].at
                 ELSE IF i <= Waiting THEN SymbolsInput[i - Len(EncodedBytes)].at
                 ELSE sent
  BY DEF At
<1>4. ASSUME NEW i \in 1..Len(EncodedBytes)
      PROVE  At[i] = EncodedBytes[i].at /\ At[i] \in Nat
  <2>1. EncodedBytes[i] \in Symbol
    BY <1>1, ElementOfSeq
  <2>3. EncodedBytes[i].at \in Nat
    BY <1>1, <2>1 DEF Symbol
  <2>2. i \in 1..Waiting + 1 /\ i <= Len(EncodedBytes)
    BY <1>2, <1>3
  <2> QED
    BY <1>8, <2>2, <2>3
<1>5. ASSUME NEW i \in 1..Len(SymbolsInput)
      PROVE  /\ At[Len(EncodedBytes) + i] = SymbolsInput[i].at
             /\ At[Len(EncodedBytes) + i] \in Nat
  <2>1. SymbolsInput[i] \in Symbol
    BY <1>1, ElementOfSeq
  <2>3. SymbolsInput[i].at \in Nat
    BY <1>1, <2>1 DEF Symbol
  <2>2. /\ Len(EncodedBytes) + i > Len(EncodedBytes) /\ Len(EncodedBytes) + i <= Waiting
        /\ Len(EncodedBytes) + i - Len(EncodedBytes) = i
        /\ Len(EncodedBytes) + i \in 1..Waiting + 1
    BY <1>2, <1>3
  <2> QED
    BY <1>2, <1>8, <2>2, <2>3
<1>6. At[Waiting + 1] = sent
  BY <1>2, <1>3, <1>8
<1>7. ASSUME NEW i \in 1..Waiting + 1
      PROVE  At[i] \in Nat
  <2>1. CASE i \in 1..Len(EncodedBytes)
    BY <1>4, <2>1
  <2>2. CASE i = Waiting + 1
    BY <1>1, <1>6, <2>2
  <2>3. CASE i > Len(EncodedBytes) /\ i <= Waiting
    <3> DEFINE k == i - Len(EncodedBytes)
    <3>1. k \in 1..Len(SymbolsInput) /\ i = Len(EncodedBytes) + k
      BY <1>2, <1>3, <2>3
    <3> HIDE DEF k
    <3> QED
      BY <1>5, <3>1
  <2> QED
    BY <1>2, <1>3, <2>1, <2>2, <2>3
<1> QED
  BY <1>2, <1>3, <1>4, <1>5, <1>6, <1>7 DEF Positions

(* And after a step. *)
LEMMA AtFactsNext == Typed' => Positions'
BY AtFacts, PTL

(* The first k symbols are dropped. *)
Dropped(k) == Waiting' = Waiting - k /\ \A i \in 1..Waiting - k + 1 : At'[i] = At[i + k]

(* StreamInv outlives the loss of leading symbols. *)
LEMMA StreamDropped ==
    ASSUME Typed, StreamInv, NEW k \in 0..Waiting, Dropped(k), hurt' = hurt,
           /\ \A i \in DOMAIN EncodedBytes' : EncodedBytes'[i].ok \/ FrameOf(EncodedBytes'[i]) \in hurt'
           /\ \A i \in DOMAIN SymbolsInput' : SymbolsInput'[i].ok \/ FrameOf(SymbolsInput'[i]) \in hurt'
    PROVE  StreamInv'
<1>1. Waiting \in Nat /\ (\A i \in 1..Waiting + 1 : At[i] \in Nat)
  BY AtFacts DEF Positions
<1>2. Waiting' = Waiting - k /\ \A i \in 1..Waiting' + 1 : At'[i] = At[i + k] /\ i + k \in 1..Waiting + 1
  BY <1>1 DEF Dropped
<1>3. ASSUME NEW i \in 1..Waiting' + 1, NEW j \in 1..Waiting' + 1, i < j
      PROVE  At'[i] + (j - i) <= At'[j]
  <2>1. i + k < j + k /\ (j + k) - (i + k) = j - i
    BY <1>1, <1>2, <1>3
  <2> QED
    BY <1>2, <1>3, <2>1 DEF StreamInv
<1>4. ASSUME NEW i \in 1..Waiting', NEW a \in At'[i] + 1..At'[i + 1] - 1
      PROVE  a \div FrameLen \in hurt'
  <2>1. i + k \in 1..Waiting /\ i \in 1..Waiting' + 1 /\ i + 1 \in 1..Waiting' + 1
    BY <1>1, <1>2
  <2>2. At'[i] = At[i + k] /\ At'[i + 1] = At[(i + k) + 1]
    <3>1. (i + 1) + k = (i + k) + 1
      BY <1>1, <1>2
    <3> QED
      BY <1>2, <2>1, <3>1
  <2> QED
    BY <1>4, <2>1, <2>2 DEF StreamInv
<1> QED
  BY <1>3, <1>4 DEF StreamInv

(* A symbol that waits is in EncodedBytes or in the channel. *)
LEMMA Parts ==
    ASSUME NEW m \in Nat, NEW n \in Nat, NEW i \in 1..m + n
    PROVE  i \in 1..m \/ \E k \in 1..n : i = m + k
<1>1. CASE i > m
  <2> DEFINE k == i - m
  <2>1. k \in 1..n /\ i = m + k
    BY <1>1
  <2> QED
    BY <2>1
<1> QED
  BY <1>1

(* StreamInv is preserved when a symbol is sent. *)
LEMMA StreamSend ==
    ASSUME Typed, StreamInv, NEW ok \in BOOLEAN, SendSymbol(ok)
    PROVE  StreamInv'
<1> DEFINE m == Len(EncodedBytes)
           n == Len(SymbolsInput)
           x == [at |-> sent, ok |-> ok]
<1>1. Positions
  BY AtFacts
<1>2. Positions'
  BY TypedDemod, AtFactsNext
<1>3. x \in Symbol /\ SymbolsInput \in Seq(Symbol) /\ SymbolsInput' = Append(SymbolsInput, x)
      /\ sent' = sent + 1 /\ sent \in Nat /\ EncodedBytes' = EncodedBytes
      /\ hurt' = (IF ok THEN hurt ELSE hurt \cup {sent \div FrameLen})
  BY ConstantFacts DEF SendSymbol, Symbol, Typed, TypeOK, decoder
<1>4. /\ Len(SymbolsInput') = n + 1
      /\ \A i \in 1..n : SymbolsInput'[i] = SymbolsInput[i]
      /\ SymbolsInput'[n + 1] = x
  BY <1>3, AppendProperties
<1>5. x.at = sent /\ x.ok = ok
  OBVIOUS
<1> HIDE DEF x
<1>6. m \in Nat /\ n \in Nat /\ Waiting = m + n /\ Waiting' = m + n + 1
  BY <1>1, <1>2, <1>3, <1>4 DEF Positions
<1>7. \A i \in 1..m : At'[i] = At[i]
  BY <1>1, <1>2, <1>3 DEF Positions
<1>8. \A i \in 1..n : At'[m + i] = At[m + i]
  BY <1>1, <1>2, <1>3, <1>4 DEF Positions
<1>9. At'[m + n + 1] = sent /\ At[m + n + 1] = sent
  <2>1. At'[m + (n + 1)] = SymbolsInput'[n + 1].at
    BY <1>2, <1>3, <1>4, <1>6 DEF Positions
  <2> QED
    BY <1>1, <1>4, <1>5, <1>6, <2>1 DEF Positions
<1>10. At'[m + n + 2] = sent + 1
  <2>1. At'[Waiting' + 1] = sent' /\ Waiting' + 1 = m + n + 2
    BY <1>2, <1>6 DEF Positions
  <2> QED
    BY <1>3, <2>1
<1>11. \A i \in 1..m + n + 1 : At'[i] = At[i] /\ At[i] \in Nat
  <2> SUFFICES ASSUME NEW i \in 1..m + n + 1 PROVE At'[i] = At[i] /\ At[i] \in Nat
    OBVIOUS
  <2> HIDE DEF m, n
  <2>1. CASE i = m + n + 1
    BY <1>3, <1>9, <2>1
  <2>2. CASE i \in 1..m + n
    <3>1. At[i] \in Nat
      BY <1>1, <1>6, <2>2 DEF Positions
    <3>2. i \in 1..m \/ \E k \in 1..n : i = m + k
      BY <1>6, <2>2, Parts
    <3> QED
      BY <1>7, <1>8, <3>1, <3>2
  <2> QED
    BY <1>6, <2>1, <2>2
<1>12. /\ \A i, j \in 1..m + n + 1 : i < j => At[i] + (j - i) <= At[j]
       /\ \A i \in 1..m + n : \A a \in At[i] + 1..At[i + 1] - 1 : a \div FrameLen \in hurt
       /\ \A i \in DOMAIN EncodedBytes : EncodedBytes[i].ok \/ FrameOf(EncodedBytes[i]) \in hurt
       /\ \A i \in 1..n : SymbolsInput[i].ok \/ FrameOf(SymbolsInput[i]) \in hurt
  BY <1>1, <1>6 DEF StreamInv, Positions
<1> HIDE DEF m, n
<1>13. ASSUME NEW i \in 1..m + n + 2, NEW j \in 1..m + n + 2, i < j
       PROVE  At'[i] + (j - i) <= At'[j]
  <2>1. CASE j <= m + n + 1
    <3>1. i \in 1..m + n + 1 /\ j \in 1..m + n + 1
      BY <1>6, <1>13, <2>1
    <3> QED
      BY <1>11, <1>12, <1>13, <3>1
  <2>2. CASE j = m + n + 2
    <3>1. i \in 1..m + n + 1 /\ At'[i] = At[i] /\ At[i] \in Nat
      BY <1>6, <1>11, <1>13, <2>2
    <3>2. At[i] + ((m + n + 1) - i) <= sent
      <4>1. CASE i = m + n + 1
        BY <1>3, <1>6, <1>9, <4>1
      <4>2. CASE i < m + n + 1
        <5>1. m + n + 1 \in 1..m + n + 1
          BY <1>6
        <5> QED
          BY <1>9, <1>12, <3>1, <4>2, <5>1
      <4> QED
        BY <1>6, <3>1, <4>1, <4>2
    <3> QED
      BY <1>3, <1>6, <1>10, <2>2, <3>1, <3>2
  <2> QED
    BY <1>6, <2>1, <2>2
<1>14. ASSUME NEW i \in 1..m + n + 1, NEW a \in At'[i] + 1..At'[i + 1] - 1
       PROVE  a \div FrameLen \in hurt'
  <2>1. CASE i <= m + n
    <3>1. i \in 1..m + n /\ i \in 1..m + n + 1 /\ i + 1 \in 1..m + n + 1
      BY <1>6, <2>1
    <3>2. a \div FrameLen \in hurt
      BY <1>11, <1>12, <1>14, <3>1
    <3> QED
      BY <1>3, <3>2
  <2>2. CASE i = m + n + 1
    <3>1. At'[i] = sent /\ At'[i + 1] = sent + 1
      BY <1>6, <1>9, <1>10, <2>2
    <3> QED
      BY <1>3, <1>14, <3>1
  <2> QED
    BY <1>6, <2>1, <2>2
<1>15. ASSUME NEW i \in 1..n + 1
       PROVE  SymbolsInput'[i].ok \/ FrameOf(SymbolsInput'[i]) \in hurt'
  <2>1. CASE i \in 1..n
    BY <1>3, <1>4, <1>12, <2>1
  <2>2. CASE i = n + 1
    BY <1>3, <1>4, <1>5, <2>2 DEF FrameOf
  <2> QED
    BY <1>6, <2>1, <2>2
<1>16. \A i \in DOMAIN EncodedBytes' : EncodedBytes'[i].ok \/ FrameOf(EncodedBytes'[i]) \in hurt'
  BY <1>3, <1>12
<1>17. DOMAIN SymbolsInput' = 1..n + 1
  BY <1>2, <1>4 DEF Positions
<1>18. Waiting' + 1 = m + n + 2
  BY <1>6
<1> QED
  BY <1>6, <1>13, <1>14, <1>15, <1>16, <1>17, <1>18 DEF StreamInv

(* StreamInv is preserved when symbols are lost. *)
LEMMA StreamLose ==
    ASSUME Typed, StreamInv, NEW n \in 1..FrameLen, LoseSymbols(n)
    PROVE  StreamInv'
<1> DEFINE w == Waiting
<1>1. Positions
  BY AtFacts
<1>2. Positions'
  BY TypedDemod, AtFactsNext
<1>3. /\ SymbolsInput' = SymbolsInput /\ EncodedBytes' = EncodedBytes
      /\ sent' = sent + n /\ n \in Nat \ {0} /\ sent \in Nat
      /\ hurt' = hurt \cup {k \div FrameLen : k \in sent..sent + n - 1}
  BY ConstantFacts DEF LoseSymbols, Typed, TypeOK, decoder
<1>4. w \in Nat /\ Waiting' = w
  BY <1>1, <1>3 DEF Positions, Waiting
<1>5. \A i \in 1..w : At'[i] = At[i]
  <2> SUFFICES ASSUME NEW i \in 1..w PROVE At'[i] = At[i]
    OBVIOUS
  <2> DEFINE m == Len(EncodedBytes)
             l == Len(SymbolsInput)
  <2>1. m \in Nat /\ l \in Nat /\ i \in 1..m + l
    BY <1>1 DEF Positions
  <2>2. i \in 1..m \/ \E k \in 1..l : i = m + k
    <3> HIDE DEF m, l
    <3> QED
      BY <2>1, Parts
  <2> QED
    BY <1>1, <1>2, <1>3, <2>2 DEF Positions
<1>6. At[w + 1] = sent /\ At'[w + 1] = sent + n
  BY <1>1, <1>2, <1>3, <1>4 DEF Positions
<1>7. \A i \in 1..w + 1 : At[i] \in Nat /\ At'[i] \in Nat
  BY <1>1, <1>2, <1>4 DEF Positions
<1>8. /\ \A i, j \in 1..w + 1 : i < j => At[i] + (j - i) <= At[j]
      /\ \A i \in 1..w : \A a \in At[i] + 1..At[i + 1] - 1 : a \div FrameLen \in hurt
  BY DEF StreamInv
<1> HIDE DEF w
<1>9. ASSUME NEW i \in 1..w + 1, NEW j \in 1..w + 1, i < j
      PROVE  At'[i] + (j - i) <= At'[j]
  <2>1. i \in 1..w /\ At'[i] = At[i] /\ At[i] \in Nat /\ At[j] \in Nat
    BY <1>4, <1>5, <1>7, <1>9
  <2>2. At[i] + (j - i) <= At[j]
    BY <1>8, <1>9
  <2>3. CASE j = w + 1
    BY <1>3, <1>4, <1>6, <2>1, <2>2, <2>3
  <2>4. CASE j <= w
    BY <1>4, <1>5, <2>1, <2>2, <2>4
  <2> QED
    BY <1>4, <2>3, <2>4
<1>10. ASSUME NEW i \in 1..w, NEW a \in At'[i] + 1..At'[i + 1] - 1
       PROVE  a \div FrameLen \in hurt'
  <2>1. i \in 1..w + 1 /\ i + 1 \in 1..w + 1 /\ At'[i] = At[i] /\ At[i] \in Nat
        /\ At[i + 1] \in Nat /\ At'[i + 1] \in Nat
    BY <1>4, <1>5, <1>7
  <2>2. CASE a < At[i + 1]
    <3>1. a \in At[i] + 1..At[i + 1] - 1
      BY <1>10, <2>1, <2>2
    <3> QED
      BY <1>3, <1>8, <3>1
  <2>3. CASE a >= At[i + 1]
    <3>1. i = w
      <4>1. CASE i + 1 \in 1..w
        BY <1>5, <1>10, <2>1, <2>3, <4>1
      <4> QED
        BY <1>4, <4>1
    <3>2. At[i + 1] = sent /\ At'[i + 1] = sent + n
      BY <1>6, <3>1
    <3>3. a \in sent..sent + n - 1
      BY <1>3, <1>10, <2>1, <2>3, <3>2
    <3> QED
      BY <1>3, <3>3
  <2> QED
    BY <1>10, <2>1, <2>2, <2>3
<1>11. /\ \A i \in DOMAIN EncodedBytes' : EncodedBytes'[i].ok \/ FrameOf(EncodedBytes'[i]) \in hurt'
       /\ \A i \in DOMAIN SymbolsInput' : SymbolsInput'[i].ok \/ FrameOf(SymbolsInput'[i]) \in hurt'
  BY <1>3 DEF StreamInv
<1> QED
  BY <1>4, <1>9, <1>10, <1>11 DEF StreamInv

(* Receiving a symbol leaves those that wait as they are. *)
LEMMA ReceiveAt ==
    ASSUME Typed, ReceiveSymbol
    PROVE  /\ Waiting' = Waiting /\ Waiting \in Nat
           /\ \A i \in 1..Waiting + 1 : At'[i] = At[i]
           /\ UNCHANGED <<sent, hurt>>
<1> DEFINE m == Len(EncodedBytes)
           n == Len(SymbolsInput)
<1>1. Positions
  BY AtFacts
<1>2. Positions'
  BY TypedFill, AtFactsNext
<1>3. /\ m \in Nat /\ n \in Nat \ {0}
      /\ Len(EncodedBytes') = m + 1 /\ Len(SymbolsInput') = n - 1
      /\ \A i \in 1..m : EncodedBytes'[i] = EncodedBytes[i]
      /\ EncodedBytes'[m + 1] = SymbolsInput[1]
      /\ \A i \in 1..n - 1 : SymbolsInput'[i] = SymbolsInput[i + 1]
  BY ReceiveFacts
<1>4. UNCHANGED <<sent, hurt>>
  BY DEF ReceiveSymbol, Outside, demod
<1>5. Waiting = m + n /\ Waiting' = m + n
  BY <1>1, <1>2, <1>3 DEF Positions
<1>6. \A i \in 1..m : At'[i] = At[i]
  <2>1. \A i \in 1..m : i \in 1..m + 1
    BY <1>3
  <2>2. \A i \in 1..m : At[i] = EncodedBytes[i].at
    BY <1>1 DEF Positions
  <2>3. \A i \in 1..m + 1 : At'[i] = EncodedBytes'[i].at
    BY <1>2, <1>3 DEF Positions
  <2> QED
    BY <1>3, <2>1, <2>2, <2>3
<1>7. At'[m + 1] = At[m + 1]
  <2>1. 1 \in 1..n /\ m + 1 \in 1..m + 1
    BY <1>3
  <2>2. At'[m + 1] = EncodedBytes'[m + 1].at
    BY <1>2, <1>3, <2>1 DEF Positions
  <2> QED
    BY <1>1, <1>3, <2>1, <2>2 DEF Positions
<1>8. ASSUME NEW k \in 2..n
      PROVE  At'[m + k] = At[m + k]
  <2>1. k - 1 \in 1..n - 1 /\ k \in 1..n /\ (k - 1) + 1 = k /\ (m + 1) + (k - 1) = m + k
    BY <1>3
  <2>2. At'[(m + 1) + (k - 1)] = SymbolsInput'[k - 1].at
    BY <1>2, <1>3, <2>1 DEF Positions
  <2>3. SymbolsInput'[k - 1] = SymbolsInput[k] /\ At[m + k] = SymbolsInput[k].at
    BY <1>1, <1>3, <2>1 DEF Positions
  <2> QED
    BY <2>1, <2>2, <2>3
<1>9. At'[m + n + 1] = At[m + n + 1]
  BY <1>1, <1>2, <1>4, <1>5 DEF Positions
<1> HIDE DEF m, n
<1>10. ASSUME NEW i \in 1..m + n + 1
       PROVE  At'[i] = At[i]
  <2>1. CASE i = m + n + 1
    BY <1>9, <2>1
  <2>2. CASE i \in 1..m + n
    <3>1. i \in 1..m \/ \E k \in 1..n : i = m + k
      BY <1>3, <2>2, Parts
    <3>2. ASSUME NEW k \in 1..n, i = m + k PROVE At'[i] = At[i]
      <4>1. CASE k = 1
        BY <1>7, <3>2, <4>1
      <4>2. CASE k \in 2..n
        BY <1>8, <3>2, <4>2
      <4> QED
        BY <1>3, <4>1, <4>2
    <3> QED
      BY <1>6, <3>1, <3>2
  <2> QED
    BY <1>3, <2>1, <2>2
<1> QED
  BY <1>3, <1>4, <1>5, <1>10

(* StreamInv is preserved when a symbol is received. *)
LEMMA StreamReceive ==
    ASSUME Typed, StreamInv, ReceiveSymbol
    PROVE  StreamInv'
<1> DEFINE m == Len(EncodedBytes)
           n == Len(SymbolsInput)
<1>1. /\ m \in Nat /\ n \in Nat \ {0}
      /\ Len(EncodedBytes') = m + 1 /\ Len(SymbolsInput') = n - 1
      /\ \A i \in 1..m : EncodedBytes'[i] = EncodedBytes[i]
      /\ EncodedBytes'[m + 1] = SymbolsInput[1]
      /\ \A i \in 1..n - 1 : SymbolsInput'[i] = SymbolsInput[i + 1]
  BY ReceiveFacts
<1>2. /\ DOMAIN EncodedBytes = 1..m /\ DOMAIN SymbolsInput = 1..n
      /\ DOMAIN EncodedBytes' = 1..m + 1 /\ DOMAIN SymbolsInput' = 1..n - 1
  <2>1. Positions /\ Positions'
    BY AtFacts, TypedFill, AtFactsNext
  <2> QED
    BY <1>1, <2>1 DEF Positions
<1>3. /\ Waiting' = Waiting /\ Waiting \in Nat /\ hurt' = hurt
      /\ \A i \in 1..Waiting + 1 : At'[i] = At[i]
  BY ReceiveAt
<1>4. /\ \A i \in 1..m : EncodedBytes[i].ok \/ FrameOf(EncodedBytes[i]) \in hurt
      /\ \A i \in 1..n : SymbolsInput[i].ok \/ FrameOf(SymbolsInput[i]) \in hurt
  BY <1>2 DEF StreamInv
<1> HIDE DEF m, n
<1>5. ASSUME NEW i \in 1..m + 1
      PROVE  EncodedBytes'[i].ok \/ FrameOf(EncodedBytes'[i]) \in hurt'
  <2>1. CASE i \in 1..m
    BY <1>1, <1>3, <1>4, <2>1 DEF FrameOf
  <2>2. CASE i = m + 1
    <3>1. 1 \in 1..n
      BY <1>1
    <3> QED
      BY <1>1, <1>3, <1>4, <2>2, <3>1 DEF FrameOf
  <2> QED
    BY <1>1, <2>1, <2>2
<1>6. ASSUME NEW i \in 1..n - 1
      PROVE  SymbolsInput'[i].ok \/ FrameOf(SymbolsInput'[i]) \in hurt'
  <2>1. i + 1 \in 1..n
    BY <1>1
  <2> QED
    BY <1>1, <1>3, <1>4, <2>1 DEF FrameOf
<1>7. /\ \A i, j \in 1..Waiting' + 1 : i < j => At'[i] + (j - i) <= At'[j]
      /\ \A i \in 1..Waiting' : \A a \in At'[i] + 1..At'[i + 1] - 1 : a \div FrameLen \in hurt'
  <2>1. \A i \in 1..Waiting : i \in 1..Waiting + 1 /\ i + 1 \in 1..Waiting + 1
    BY <1>3
  <2> QED
    BY <1>3, <2>1 DEF StreamInv
<1> QED
  BY <1>2, <1>5, <1>6, <1>7 DEF StreamInv

(* The decoder throws a whole block away, or what lies before the frame's  *)
(* start.                                                                  *)
LEMMA BlockDropped ==
    ASSUME Typed, EncodedBytes' = << >>, UNCHANGED <<SymbolsInput, sent>>, Typed'
    PROVE  Dropped(Len(EncodedBytes))
<1> DEFINE m == Len(EncodedBytes)
           n == Len(SymbolsInput)
<1>1. Positions /\ Positions'
  BY AtFacts, AtFactsNext
<1>2. Len(EncodedBytes') = 0
  OBVIOUS
<1>3. m \in Nat /\ n \in Nat /\ Waiting = m + n /\ Waiting' = n
  BY <1>1, <1>2 DEF Positions
<1>4. \A i \in 1..n : At'[i] = At[i + m]
  <2> SUFFICES ASSUME NEW i \in 1..n PROVE At'[i] = At[i + m]
    OBVIOUS
  <2>1. At'[0 + i] = SymbolsInput[i].at /\ At[m + i] = SymbolsInput[i].at
    BY <1>1, <1>2 DEF Positions
  <2>2. 0 + i = i /\ m + i = i + m
    BY <1>3
  <2> QED
    BY <2>1, <2>2
<1>5. At'[n + 1] = At[n + 1 + m]
  <2>1. At'[Waiting' + 1] = sent /\ At[Waiting + 1] = sent
    BY <1>1 DEF Positions
  <2>2. Waiting' + 1 = n + 1 /\ Waiting + 1 = n + 1 + m
    BY <1>3
  <2> QED
    BY <2>1, <2>2
<1> HIDE DEF m, n
<1>6. Waiting' = Waiting - m /\ Waiting - m + 1 = n + 1
  BY <1>3
<1>7. \A i \in 1..n + 1 : i \in 1..n \/ i = n + 1
  BY <1>3
<1> QED
  BY <1>4, <1>5, <1>6, <1>7 DEF Dropped, m

(* What correlate drops. *)
LEMMA ShiftDropped ==
    ASSUME Typed, pc = "search", NEW r \in SearchResults, correlate(r)
    PROVE  Dropped(r.c.pos) /\ r.c.pos \in 0..Waiting
<1> DEFINE p == r.c.pos
           n == Len(SymbolsInput)
<1>1. Positions
  BY AtFacts
<1>2. Positions'
  BY TypedSearch, AtFactsNext
<1>3. /\ Len(EncodedBytes) = FrameLen /\ Len(EncodedBytes') = FrameLen - p
      /\ p \in Nat /\ p < FrameLen /\ FrameLen \in Nat
      /\ \A i \in 1..FrameLen - p : EncodedBytes'[i] = EncodedBytes[p + i]
  BY ShiftFacts, ConstantFacts
<1>4. UNCHANGED <<SymbolsInput, sent>>
  BY DEF correlate, Outside, demod
<1>5. n \in Nat /\ Waiting = FrameLen + n /\ Waiting' = FrameLen - p + n
  BY <1>1, <1>2, <1>3, <1>4 DEF Positions
<1>6. \A i \in 1..FrameLen - p : At'[i] = At[i + p]
  <2> SUFFICES ASSUME NEW i \in 1..FrameLen - p PROVE At'[i] = At[i + p]
    OBVIOUS
  <2> HIDE DEF p
  <2>1. p + i \in 1..FrameLen /\ p + i = i + p
    BY <1>3
  <2>2. At'[i] = EncodedBytes'[i].at
    BY <1>2, <1>3 DEF Positions
  <2> QED
    BY <1>1, <1>3, <2>1, <2>2 DEF Positions
<1>7. \A k \in 1..n : At'[(FrameLen - p) + k] = At[FrameLen + k]
  BY <1>1, <1>2, <1>3, <1>4 DEF Positions
<1>8. At'[FrameLen - p + n + 1] = At[FrameLen + n + 1]
  BY <1>1, <1>2, <1>4, <1>5 DEF Positions
<1> HIDE DEF p, n
<1>9. ASSUME NEW i \in 1..FrameLen - p + n + 1
      PROVE  At'[i] = At[i + p]
  <2>1. CASE i = FrameLen - p + n + 1
    <3>1. i + p = FrameLen + n + 1
      BY <1>3, <1>5, <2>1
    <3> QED
      BY <1>8, <2>1, <3>1
  <2>2. CASE i \in 1..(FrameLen - p) + n
    <3>1. FrameLen - p \in Nat
      BY <1>3
    <3>2. i \in 1..FrameLen - p \/ \E k \in 1..n : i = (FrameLen - p) + k
      BY <1>5, <2>2, <3>1, Parts
    <3>3. ASSUME NEW k \in 1..n, i = (FrameLen - p) + k PROVE At'[i] = At[i + p]
      <4>1. i + p = FrameLen + k
        BY <1>3, <1>5, <3>3
      <4> QED
        BY <1>7, <3>3, <4>1
    <3> QED
      BY <1>6, <3>2, <3>3
  <2> QED
    BY <1>3, <1>5, <2>1, <2>2
<1>10. Waiting' = Waiting - p /\ Waiting - p + 1 = FrameLen - p + n + 1 /\ p \in 0..Waiting
  BY <1>3, <1>5
<1> QED
  BY <1>9, <1>10 DEF Dropped, p

(* StreamInv outlives the search and the decoding of a block. *)
LEMMA StreamBlock ==
    ASSUME Typed, StreamInv,
           \/ pc = "search" /\ \E r \in SearchResults : NoPacketLock(r) \/ correlate(r)
           \/ errorCorrectPacket
    PROVE  StreamInv'
<1>1. Typed' /\ UNCHANGED <<SymbolsInput, sent, hurt>>
  BY TypedSearch, TypedDecode
     DEF NoPacketLock, correlate, errorCorrectPacket, Outside, demod
<1>2. \A i \in DOMAIN SymbolsInput' : SymbolsInput'[i].ok \/ FrameOf(SymbolsInput'[i]) \in hurt'
  BY <1>1 DEF StreamInv
<1>3. CASE EncodedBytes' = << >>
  <2>1. Dropped(Len(EncodedBytes))
    BY <1>1, <1>3, BlockDropped
  <2>2. Len(EncodedBytes) \in 0..Waiting
    BY AtFacts DEF Positions
  <2>3. \A i \in DOMAIN EncodedBytes' :
           EncodedBytes'[i].ok \/ FrameOf(EncodedBytes'[i]) \in hurt'
    BY <1>3
  <2> QED
    BY <1>1, <1>2, <2>1, <2>2, <2>3, StreamDropped
<1>4. ASSUME pc = "search", NEW r \in SearchResults, correlate(r)
      PROVE  StreamInv'
  <2>1. Dropped(r.c.pos) /\ r.c.pos \in 0..Waiting
    BY <1>4, ShiftDropped
  <2>2. /\ EncodedBytes \in Seq(Symbol) /\ Len(EncodedBytes) = FrameLen
        /\ EncodedBytes' \in Seq(Symbol) /\ Len(EncodedBytes') = FrameLen - r.c.pos
        /\ r.c.pos \in Nat /\ r.c.pos < FrameLen /\ FrameLen \in Nat
        /\ \A i \in 1..FrameLen - r.c.pos : EncodedBytes'[i] = EncodedBytes[r.c.pos + i]
    BY <1>4, ShiftFacts, ConstantFacts
  <2>3. DOMAIN EncodedBytes = 1..FrameLen /\ DOMAIN EncodedBytes' = 1..FrameLen - r.c.pos
    BY <2>2, LenProperties
  <2>4. ASSUME NEW i \in DOMAIN EncodedBytes'
        PROVE  EncodedBytes'[i].ok \/ FrameOf(EncodedBytes'[i]) \in hurt'
    <3>1. r.c.pos + i \in DOMAIN EncodedBytes
      BY <2>2, <2>3
    <3>2. EncodedBytes'[i] = EncodedBytes[r.c.pos + i]
      BY <2>2, <2>3
    <3> QED
      BY <1>1, <3>1, <3>2 DEF StreamInv, FrameOf
  <2> QED
    BY <1>1, <1>2, <2>1, <2>4, StreamDropped
<1> QED
  BY <1>3, <1>4 DEF NoPacketLock, errorCorrectPacket

(* Flushing takes the first symbol of the channel away. *)
LEMMA FlushAt ==
    ASSUME Typed, FlushSymbol
    PROVE  /\ Waiting' = Waiting - 1 /\ Waiting \in Nat \ {0}
           /\ Len(EncodedBytes) \in Nat /\ Len(EncodedBytes) < Waiting
           /\ \A i \in 1..Len(EncodedBytes) : At'[i] = At[i]
           /\ \A i \in Len(EncodedBytes) + 1..Waiting : At'[i] = At[i + 1]
           /\ hurt' = hurt \cup {At[Len(EncodedBytes) + 1] \div FrameLen}
           /\ sent' = sent /\ EncodedBytes' = EncodedBytes
<1> DEFINE m == Len(EncodedBytes)
           n == Len(SymbolsInput)
<1>1. Positions
  BY AtFacts
<1>2. Positions'
  BY TypedFlush, AtFactsNext DEF FlushStep
<1>3. /\ Len(SymbolsInput') = n - 1 /\ n \in Nat \ {0}
      /\ \A i \in 1..n - 1 : SymbolsInput'[i] = SymbolsInput[i + 1]
      /\ hurt' = hurt \cup {SymbolsInput[1].at \div FrameLen}
  BY FlushSymbolFacts DEF FrameOf
<1>4. UNCHANGED <<sent, EncodedBytes>>
  BY DEF FlushSymbol, Flushing, decoder
<1>5. m \in Nat /\ Waiting = m + n /\ Waiting' = m + n - 1
  BY <1>1, <1>2, <1>3, <1>4 DEF Positions
<1>6. \A i \in 1..m : At'[i] = At[i]
  BY <1>1, <1>2, <1>4 DEF Positions
<1>7. ASSUME NEW k \in 1..n - 1
      PROVE  At'[m + k] = At[m + k + 1]
  <2>1. k + 1 \in 1..n
    BY <1>3
  <2>2. At'[m + k] = SymbolsInput'[k].at /\ At[m + (k + 1)] = SymbolsInput[k + 1].at
    BY <1>1, <1>2, <1>3, <1>4, <2>1 DEF Positions
  <2>3. m + (k + 1) = m + k + 1
    BY <1>5
  <2> QED
    BY <1>3, <2>2, <2>3
<1>8. At'[m + n] = At[m + n + 1]
  <2>1. At'[Waiting' + 1] = sent /\ At[Waiting + 1] = sent /\ Waiting' + 1 = m + n
    BY <1>1, <1>2, <1>3, <1>4, <1>5 DEF Positions
  <2> QED
    BY <1>5, <2>1
<1>9. At[m + 1] = SymbolsInput[1].at
  BY <1>1, <1>3 DEF Positions
<1> HIDE DEF m, n
<1>10. ASSUME NEW i \in m + 1..m + n
       PROVE  At'[i] = At[i + 1]
  <2>1. CASE i = m + n
    BY <1>8, <2>1
  <2>2. CASE i < m + n
    <3> DEFINE k == i - m
    <3>1. k \in 1..n - 1 /\ i = m + k
      BY <1>3, <1>5, <2>2
    <3> HIDE DEF k
    <3> QED
      BY <1>7, <3>1
  <2> QED
    BY <1>3, <1>5, <2>1, <2>2
<1> QED
  BY <1>3, <1>4, <1>5, <1>6, <1>9, <1>10 DEF m

(* StreamInv is preserved when a symbol is flushed. *)
LEMMA StreamFlush ==
    ASSUME Typed, StreamInv, FlushSymbol
    PROVE  StreamInv'
<1> DEFINE m == Len(EncodedBytes)
           w == Waiting
<1>1. /\ Waiting' = w - 1 /\ w \in Nat \ {0} /\ m \in Nat /\ m < w
      /\ \A i \in 1..m : At'[i] = At[i]
      /\ \A i \in m + 1..w : At'[i] = At[i + 1]
      /\ hurt' = hurt \cup {At[m + 1] \div FrameLen} /\ EncodedBytes' = EncodedBytes
  BY FlushAt
<1>2. /\ \A i, j \in 1..w + 1 : i < j => At[i] + (j - i) <= At[j]
      /\ \A i \in 1..w : \A a \in At[i] + 1..At[i + 1] - 1 : a \div FrameLen \in hurt
  BY DEF StreamInv
<1>3. \A i \in 1..w + 1 : At[i] \in Nat
  BY AtFacts DEF Positions
<1>9. Waiting' + 1 = w
  BY <1>1
<1> HIDE DEF m, w
<1>4. ASSUME NEW i \in 1..w, NEW j \in 1..w, i < j
      PROVE  At'[i] + (j - i) <= At'[j]
  <2>1. CASE j <= m
    <3>1. i \in 1..m /\ j \in 1..m /\ i \in 1..w + 1 /\ j \in 1..w + 1
      BY <1>1, <1>4, <2>1
    <3> QED
      BY <1>1, <1>2, <1>4, <3>1
  <2>2. CASE i <= m /\ j > m
    <3>1. i \in 1..m /\ j \in m + 1..w /\ i \in 1..w + 1 /\ j + 1 \in 1..w + 1 /\ i < j + 1
      BY <1>1, <1>4, <2>2
    <3>2. At[i] + ((j + 1) - i) <= At[j + 1] /\ At[i] \in Nat /\ At[j + 1] \in Nat
      BY <1>2, <1>3, <3>1
    <3>3. At[i] + (j - i) <= At[j + 1]
      BY <3>1, <3>2, <1>1
    <3> QED
      BY <1>1, <3>1, <3>3
  <2>3. CASE i > m
    <3>1. i \in m + 1..w /\ j \in m + 1..w /\ i + 1 \in 1..w + 1 /\ j + 1 \in 1..w + 1
          /\ i + 1 < j + 1 /\ (j + 1) - (i + 1) = j - i
      BY <1>1, <1>4, <2>3
    <3>2. At[i + 1] + ((j + 1) - (i + 1)) <= At[j + 1]
      BY <1>2, <3>1
    <3> QED
      BY <1>1, <3>1, <3>2
  <2> QED
    BY <1>1, <2>1, <2>2, <2>3
<1>5. ASSUME NEW i \in 1..w - 1, NEW a \in At'[i] + 1..At'[i + 1] - 1
      PROVE  a \div FrameLen \in hurt'
  <2>1. CASE i + 1 <= m
    <3>1. i \in 1..m /\ i + 1 \in 1..m /\ i \in 1..w
      BY <1>1, <2>1
    <3> QED
      BY <1>1, <1>2, <1>5, <3>1
  <2>2. CASE i > m
    <3>1. i \in m + 1..w /\ i + 1 \in m + 1..w /\ i + 1 \in 1..w
      BY <1>1, <2>2
    <3> QED
      BY <1>1, <1>2, <1>5, <3>1
  <2>3. CASE i = m
    <3>1. i \in 1..m /\ i + 1 \in m + 1..w /\ i \in 1..w /\ i + 1 \in 1..w
          /\ i \in 1..w + 1 /\ i + 1 \in 1..w + 1 /\ (i + 1) + 1 \in 1..w + 1
      BY <1>1, <2>3
    <3>2. At'[i] = At[i] /\ At'[i + 1] = At[(i + 1) + 1] /\ At[i] \in Nat /\ At[i + 1] \in Nat
          /\ At[(i + 1) + 1] \in Nat
      BY <1>1, <1>3, <3>1
    <3>3. CASE a < At[i + 1]
      <4>1. a \in At[i] + 1..At[i + 1] - 1
        BY <1>5, <3>2, <3>3
      <4> QED
        BY <1>1, <1>2, <3>1, <4>1
    <3>4. CASE a > At[i + 1]
      <4>1. a \in At[i + 1] + 1..At[(i + 1) + 1] - 1
        BY <1>5, <3>2, <3>4
      <4> QED
        BY <1>1, <1>2, <3>1, <4>1
    <3>5. CASE a = At[i + 1]
      BY <1>1, <2>3, <3>5
    <3> QED
      BY <1>5, <3>2, <3>3, <3>4, <3>5
  <2> QED
    BY <1>1, <2>1, <2>2, <2>3
<1>6. \A i \in DOMAIN EncodedBytes' : EncodedBytes'[i].ok \/ FrameOf(EncodedBytes'[i]) \in hurt'
  BY <1>1 DEF StreamInv
<1>7. ASSUME NEW i \in DOMAIN SymbolsInput'
      PROVE  SymbolsInput'[i].ok \/ FrameOf(SymbolsInput'[i]) \in hurt'
  <2>1. /\ SymbolsInput \in Seq(Symbol) /\ SymbolsInput' \in Seq(Symbol)
        /\ Len(SymbolsInput) \in Nat \ {0} /\ Len(SymbolsInput') = Len(SymbolsInput) - 1
        /\ \A k \in 1..Len(SymbolsInput) - 1 : SymbolsInput'[k] = SymbolsInput[k + 1]
    BY FlushSymbolFacts DEF Typed, TypeOK
  <2>2. DOMAIN SymbolsInput = 1..Len(SymbolsInput) /\ DOMAIN SymbolsInput' = 1..Len(SymbolsInput) - 1
    BY <2>1, LenProperties
  <2>3. i + 1 \in DOMAIN SymbolsInput /\ SymbolsInput'[i] = SymbolsInput[i + 1]
    BY <2>1, <2>2
  <2> QED
    BY <1>1, <2>3 DEF StreamInv, FrameOf
<1>8. Waiting' = w - 1
  BY <1>1
<1> QED
  BY <1>4, <1>5, <1>6, <1>7, <1>8, <1>9 DEF StreamInv

(* A new decoder waits for the symbol that is sent next. *)
LEMMA StreamInit == Init => StreamInv
<1> SUFFICES ASSUME Init PROVE StreamInv
  OBVIOUS
<1>1. Positions
  BY TypedInit, AtFacts
<1>2. EncodedBytes = << >> /\ SymbolsInput = << >> /\ Waiting = 0
  BY <1>1 DEF Init, Positions
<1>3. DOMAIN EncodedBytes = {} /\ DOMAIN SymbolsInput = {}
  BY <1>2
<1> QED
  BY <1>2, <1>3 DEF StreamInv

(* StreamInv is preserved by every step. *)
LEMMA StreamNext ==
    ASSUME Typed, StreamInv, [Next]_vars
    PROVE  StreamInv'
<1>1. CASE \/ \E ok \in BOOLEAN : SendSymbol(ok)
           \/ \E n \in 1..FrameLen : LoseSymbols(n)
  BY <1>1, StreamSend, StreamLose
<1>2. CASE ReceiveSymbol
  BY <1>2, StreamReceive
<1>3. CASE \/ \E r \in IF pc = "search" THEN SearchResults ELSE {} : NoPacketLock(r) \/ correlate(r)
           \/ errorCorrectPacket
  BY <1>3, StreamBlock
<1>4. CASE FlushSymbol
  BY <1>4, StreamFlush
<1>5. CASE \/ Poll \/ SendFrame \/ clearBuffers \/ TransportStep
           \/ StartFlush \/ TestLength \/ FlushFrame \/ Reset \/ UNCHANGED vars
  <2>1. UNCHANGED <<sent, hurt, SymbolsInput, EncodedBytes>>
    BY <1>5 DEF Poll, SendFrame, clearBuffers, TransportStep, ReceiveFrame, ReadFrame, StartFlush,
                TestLength, FlushFrame, Reset, vars, Outside, demod, decoder, Flushing
  <2> QED
    <3>1. Waiting' = Waiting
      BY <2>1 DEF Waiting
    <3>2. At' = At
      BY <2>1, <3>1 DEF At
    <3> QED
      BY <2>1, <3>1, <3>2 DEF StreamInv, FrameOf
<1> QED
  BY <1>1, <1>2, <1>3, <1>4, <1>5 DEF Next, DecoderStep

(* Symbols wait in the order they were sent in, and whatever is missing or *)
(* spoilt among them is accounted for: neither a search that moves the     *)
(* start of a block nor a flush in the middle of a fill loses track.       *)
THEOREM SymbolsInOrder == Spec => []StreamInv
<1>1. Init => Typed /\ StreamInv
  BY TypedInit, StreamInit
<1>2. Typed /\ StreamInv /\ [Next]_vars => Typed' /\ StreamInv'
  BY TypedNext, StreamNext
<1> QED
  BY <1>1, <1>2, PTL DEF Spec
-----------------------------------------------------------------------------
(* Offsets and the frames they are in. *)

(* Division with remainder. *)
LEMMA Division ==
    ASSUME NEW a \in Nat, NEW d \in Nat \ {0}
    PROVE  /\ a \div d \in Nat /\ a % d \in 0..d - 1
           /\ a = (a \div d) * d + (a % d)
OBVIOUS

(* Multiplication is monotonic. *)
LEMMA Products ==
    ASSUME NEW m \in Nat, NEW n \in Nat, NEW d \in Nat, m <= n
    PROVE  m * d <= n * d /\ m * d \in Nat /\ n * d \in Nat
<1> DEFINE k == n - m
<1>1. k \in Nat /\ n = m + k
  OBVIOUS
<1> HIDE DEF k
<1>2. n * d = m * d + k * d /\ k * d \in Nat /\ m * d \in Nat /\ n * d \in Nat
  BY <1>1
<1> QED
  BY <1>2

(* The quotient is q between the q-th multiple and the next. *)
LEMMA Quotient ==
    ASSUME NEW a \in Nat, NEW d \in Nat \ {0}, NEW q \in Nat
    PROVE  a \div d = q <=> q * d <= a /\ a < (q + 1) * d
<1> DEFINE p == a \div d
           r == a % d
<1>1. p \in Nat /\ r \in 0..d - 1 /\ a = p * d + r
  BY Division
<1> HIDE DEF p, r
<1>2. (q + 1) * d = q * d + d /\ (p + 1) * d = p * d + d /\ q * d \in Nat /\ p * d \in Nat
  BY <1>1
<1>3. CASE p = q
  BY <1>1, <1>2, <1>3
<1>4. CASE p + 1 <= q
  <2>1. (p + 1) * d <= q * d
    BY <1>1, <1>4, Products
  <2> QED
    BY <1>1, <1>2, <1>4, <2>1
<1>5. CASE q + 1 <= p
  <2>1. (q + 1) * d <= p * d
    BY <1>1, <1>5, Products
  <2> QED
    BY <1>1, <1>2, <1>5, <2>1
<1>6. p = q <=> q * d <= a /\ a < (q + 1) * d
  BY <1>1, <1>3, <1>4, <1>5
<1> QED
  BY <1>6 DEF p

(* Where the frames start. *)
FrameStarts == {k * FrameLen : k \in 0..LastSymbol \div FrameLen}

(* A block that starts a frame starts where one was sent. *)
LEMMA StartsSent ==
    ASSUME NEW a \in 0..LastSymbol, a % FrameLen = 0
    PROVE  a \in FrameStarts
<1> DEFINE k == a \div FrameLen
           l == LastSymbol \div FrameLen
<1>1. a \in Nat /\ LastSymbol \in Nat /\ FrameLen \in Nat \ {0} /\ a <= LastSymbol
  BY ConstantFacts
<1>2. k \in Nat /\ l \in Nat /\ a = k * FrameLen /\ LastSymbol < (l + 1) * FrameLen
  <2>1. a = k * FrameLen + (a % FrameLen) /\ k \in Nat /\ l \in Nat
    BY <1>1, Division
  <2>2. k * FrameLen \in Nat
    BY <1>1, <2>1
  <2>3. LastSymbol < (l + 1) * FrameLen
    BY <1>1, <2>1, Quotient
  <2> QED
    BY <2>1, <2>2, <2>3
<1> HIDE DEF k, l
<1>3. k <= l
  <2>1. CASE l + 1 <= k
    <3>1. (l + 1) * FrameLen <= k * FrameLen
      BY <1>1, <1>2, <2>1, Products
    <3>2. (l + 1) * FrameLen \in Nat /\ k * FrameLen \in Nat
      BY <1>1, <1>2
    <3> QED
      BY <1>1, <1>2, <3>1, <3>2
  <2> QED
    BY <1>2, <2>1
<1>4. k \in 0..l
  BY <1>2, <1>3
<1> QED
  BY <1>2, <1>4 DEF FrameStarts, l
-----------------------------------------------------------------------------
(* The frames the transport layer reads. *)

(* Sending a symbol leaves the first one that waits as it is. *)
LEMMA SendFirst ==
    ASSUME Typed, NEW ok \in BOOLEAN, SendSymbol(ok)
    PROVE  At'[1] = At[1]
<1>1. Positions /\ Positions'
  BY AtFacts, TypedDemod, AtFactsNext
<1>2. Waiting \in Nat /\ Waiting' \in Nat /\ At[1] \in Nat /\ At'[1] \in Nat
  <2>1. Waiting \in Nat /\ Waiting' \in Nat
    BY <1>1 DEF Positions
  <2>2. \A w \in Nat : 1 \in 1..w + 1
    OBVIOUS
  <2> QED
    BY <1>1, <2>1, <2>2 DEF Positions
<1>3. CASE Waiting = 0
  <2>1. At[1] = sent
    BY <1>1, <1>3 DEF Positions
  <2>2. EncodedBytes' = EncodedBytes /\ SymbolsInput' = Append(SymbolsInput, [at |-> sent, ok |-> ok])
        /\ SymbolsInput \in Seq(Symbol)
    BY DEF SendSymbol, decoder, Typed, TypeOK
  <2>3. Len(EncodedBytes) = 0 /\ Len(SymbolsInput) = 0
    BY <1>1, <1>3 DEF Positions
  <2>4. Len(EncodedBytes') = 0 /\ Len(SymbolsInput') = 1 /\ SymbolsInput'[1] = [at |-> sent, ok |-> ok]
    <3> DEFINE x == [at |-> sent, ok |-> ok]
    <3>1. SymbolsInput' = Append(SymbolsInput, x)
      BY <2>2
    <3> HIDE DEF x
    <3>2. Len(SymbolsInput') = 1 /\ SymbolsInput'[1] = x
      BY <2>2, <2>3, <3>1
    <3> QED
      BY <2>2, <2>3, <3>2 DEF x
  <2>5. At'[0 + 1] = SymbolsInput'[1].at
    BY <1>1, <2>4 DEF Positions
  <2> QED
    BY <1>2, <2>1, <2>4, <2>5
<1>4. CASE Waiting # 0
  <2>1. Len(EncodedBytes) >= 1 \/ (Len(EncodedBytes) = 0 /\ Len(SymbolsInput) >= 1)
    BY <1>1, <1>4 DEF Positions
  <2>2. /\ EncodedBytes' = EncodedBytes
        /\ Len(SymbolsInput) >= 1 => SymbolsInput'[1] = SymbolsInput[1] /\ Len(SymbolsInput') >= 1
    <3> DEFINE x == [at |-> sent, ok |-> ok]
    <3>1. SymbolsInput' = Append(SymbolsInput, x) /\ EncodedBytes' = EncodedBytes
          /\ SymbolsInput \in Seq(Symbol) /\ Len(SymbolsInput) \in Nat
      BY <1>1 DEF SendSymbol, decoder, Positions, Typed, TypeOK
    <3> HIDE DEF x
    <3> QED
      BY <3>1
  <2>3. CASE Len(EncodedBytes) >= 1
    <3>1. At[1] = EncodedBytes[1].at /\ At'[1] = EncodedBytes'[1].at
      BY <1>1, <2>2, <2>3 DEF Positions
    <3> QED
      BY <1>2, <2>2, <3>1
  <2>4. CASE Len(EncodedBytes) = 0 /\ Len(SymbolsInput) >= 1
    <3>1. At[0 + 1] = SymbolsInput[1].at /\ At'[0 + 1] = SymbolsInput'[1].at
      BY <1>1, <2>2, <2>4 DEF Positions
    <3> QED
      BY <1>2, <2>2, <2>4, <3>1
  <2> QED
    BY <2>1, <2>3, <2>4
<1> QED
  BY <1>3, <1>4

(* Losing symbols does so, too, unless none waits. *)
LEMMA LoseFirst ==
    ASSUME Typed, NEW n \in 1..FrameLen, LoseSymbols(n)
    PROVE  At'[1] = At[1] \/ (At[1] = sent /\ At'[1] = sent + n)
<1>1. Positions /\ Positions'
  BY AtFacts, TypedDemod, AtFactsNext
<1>2. Waiting \in Nat /\ Waiting' \in Nat /\ At[1] \in Nat /\ At'[1] \in Nat
  <2>1. Waiting \in Nat /\ Waiting' \in Nat
    BY <1>1 DEF Positions
  <2>2. \A w \in Nat : 1 \in 1..w + 1
    OBVIOUS
  <2> QED
    BY <1>1, <2>1, <2>2 DEF Positions
<1>3. EncodedBytes' = EncodedBytes /\ SymbolsInput' = SymbolsInput /\ sent' = sent + n /\ n \in Nat
      /\ sent \in Nat
  BY ConstantFacts DEF LoseSymbols, decoder, Typed, TypeOK
<1>4. At[1] = IF 1 <= Len(EncodedBytes) THEN EncodedBytes[1].at
              ELSE IF 1 <= Waiting THEN SymbolsInput[1 - Len(EncodedBytes)].at ELSE sent
  BY <1>2 DEF At
<1>5. At'[1] = IF 1 <= Len(EncodedBytes) THEN EncodedBytes[1].at
               ELSE IF 1 <= Waiting THEN SymbolsInput[1 - Len(EncodedBytes)].at ELSE sent'
  BY <1>2, <1>3 DEF At, Waiting
<1> QED
  BY <1>2, <1>3, <1>4, <1>5

(* The symbols that wait only ever get later ones. *)
LEMMA FirstGrows ==
    ASSUME Typed, StreamInv, [Next]_vars
    PROVE  At[1] <= At'[1] /\ At[1] \in Nat /\ At'[1] \in Nat
<1>1. Positions /\ Positions'
  BY AtFacts, TypedNext, AtFactsNext
<1>2. Waiting \in Nat /\ Waiting' \in Nat /\ At[1] \in Nat /\ At'[1] \in Nat
  <2>1. Waiting \in Nat /\ Waiting' \in Nat
    BY <1>1 DEF Positions
  <2>2. \A w \in Nat : 1 \in 1..w + 1
    OBVIOUS
  <2> QED
    BY <1>1, <2>1, <2>2 DEF Positions
<1>3. \A i \in 1..Waiting + 1 : At[1] <= At[i]
  <2> SUFFICES ASSUME NEW i \in 1..Waiting + 1 PROVE At[1] <= At[i]
    OBVIOUS
  <2>1. CASE i = 1
    BY <1>2, <2>1
  <2>2. CASE i > 1
    <3>1. 1 \in 1..Waiting + 1 /\ 1 < i
      BY <1>2, <2>2
    <3>2. At[1] + (i - 1) <= At[i]
      BY <3>1 DEF StreamInv
    <3>3. At[i] \in Nat
      BY <1>1 DEF Positions
    <3> QED
      BY <1>2, <2>2, <3>2, <3>3
  <2> QED
    BY <1>2, <2>1, <2>2
<1>4. ASSUME NEW k \in 0..Waiting, Dropped(k)
      PROVE  At[1] <= At'[1]
  <2>1. 1 \in 1..Waiting - k + 1 /\ 1 + k \in 1..Waiting + 1
    BY <1>2
  <2> QED
    BY <1>3, <1>4, <2>1 DEF Dropped
<1>5. ASSUME NEW ok \in BOOLEAN, SendSymbol(ok)
      PROVE  At[1] <= At'[1]
  BY <1>2, <1>5, SendFirst
<1>6. ASSUME NEW n \in 1..FrameLen, LoseSymbols(n)
      PROVE  At[1] <= At'[1]
  <2>1. n \in Nat /\ sent \in Nat
    BY ConstantFacts DEF Typed, TypeOK
  <2> QED
    BY <1>2, <1>6, <2>1, LoseFirst
<1>7. CASE ReceiveSymbol
  <2>1. 1 \in 1..Waiting + 1
    BY <1>2
  <2> QED
    BY <1>2, <1>7, <2>1, ReceiveAt
<1>8. CASE FlushSymbol
  <2>1. CASE Len(EncodedBytes) >= 1
    <3>1. 1 \in 1..Len(EncodedBytes)
      BY <1>1, <2>1 DEF Positions
    <3> QED
      BY <1>2, <1>8, <3>1, FlushAt
  <2>2. CASE Len(EncodedBytes) = 0
    <3>1. Waiting \in Nat \ {0} /\ \A i \in Len(EncodedBytes) + 1..Waiting : At'[i] = At[i + 1]
      BY <1>8, FlushAt
    <3>2. At'[1] = At[1 + 1]
      BY <2>2, <3>1
    <3>3. 1 + 1 \in 1..Waiting + 1
      BY <3>1
    <3> QED
      BY <1>2, <1>3, <3>2, <3>3
  <2> QED
    BY <1>1, <2>1, <2>2 DEF Positions
<1>9. CASE \/ \E r \in IF pc = "search" THEN SearchResults ELSE {} : NoPacketLock(r)
           \/ errorCorrectPacket
  <2>1. EncodedBytes' = << >> /\ UNCHANGED <<SymbolsInput, sent>>
    BY <1>9 DEF NoPacketLock, errorCorrectPacket, Outside, demod
  <2>2. Dropped(Len(EncodedBytes)) /\ Len(EncodedBytes) \in 0..Waiting
    BY <1>1, <2>1, TypedNext, BlockDropped DEF Positions
  <2> QED
    BY <1>2, <1>4, <2>2
<1>10. ASSUME NEW r \in IF pc = "search" THEN SearchResults ELSE {}, correlate(r)
       PROVE  At[1] <= At'[1]
  <2>1. Dropped(r.c.pos) /\ r.c.pos \in 0..Waiting
    BY <1>10, ShiftDropped
  <2> QED
    BY <1>4, <2>1
<1>11. CASE \/ Poll \/ SendFrame \/ clearBuffers \/ TransportStep
            \/ StartFlush \/ TestLength \/ FlushFrame \/ Reset \/ UNCHANGED vars
  <2>1. UNCHANGED <<sent, SymbolsInput, EncodedBytes>>
    BY <1>11 DEF Poll, SendFrame, clearBuffers, TransportStep, ReceiveFrame, ReadFrame, StartFlush,
                TestLength, FlushFrame, Reset, vars, Outside, demod, decoder, Flushing
  <2>2. Waiting' = Waiting
    BY <2>1 DEF Waiting
  <2>3. At' = At
    BY <2>1, <2>2 DEF At
  <2> QED
    BY <1>2, <2>3
<1> QED
  BY <1>2, <1>5, <1>6, <1>7, <1>8, <1>9, <1>10, <1>11 DEF Next, DecoderStep

(* Most steps leave the frames alone. *)
Quiet ==
    /\ UNCHANGED <<heap, FramesOutput, held, received, RSCorrectedData>>
    /\ pc' = "send" <=> pc = "send"
    /\ pc' = "clear" <=> pc = "clear"

(* The others are these. *)
LEMMA QuietOrNot ==
    ASSUME [Next]_vars
    PROVE  \/ Quiet
           \/ errorCorrectPacket \/ SendFrame \/ clearBuffers
           \/ ReceiveFrame \/ ReadFrame \/ FlushFrame
<1>1. CASE \/ \E ok \in BOOLEAN : SendSymbol(ok)
           \/ \E n \in 1..FrameLen : LoseSymbols(n)
  BY <1>1 DEF SendSymbol, LoseSymbols, decoder, transport, Quiet
<1>2. CASE Poll \/ ReceiveSymbol
  BY <1>2 DEF Poll, ReceiveSymbol, Outside, Passing, decoder, transport, Quiet
<1>3. ASSUME NEW r \in IF pc = "search" THEN SearchResults ELSE {}, NoPacketLock(r) \/ correlate(r)
      PROVE  Quiet
  BY <1>3 DEF NoPacketLock, correlate, Outside, Passing, transport, Quiet
<1>4. CASE StartFlush \/ TestLength \/ FlushSymbol \/ Reset
  BY <1>4 DEF StartFlush, TestLength, FlushSymbol, Reset, Flushing, decoder, transport, Quiet
<1>5. CASE UNCHANGED vars
  BY <1>5 DEF vars, decoder, transport, Quiet
<1> QED
  BY <1>1, <1>2, <1>3, <1>4, <1>5 DEF Next, DecoderStep, TransportStep

(* Each buffer keeps a single owner. *)
LEMMA OwnerNext ==
    ASSUME Typed, OwnerInv, [Next]_vars
    PROVE  OwnerInv'
<1>1. /\ FramesOutput \in Seq(Buffers) /\ RSCorrectedData \in Buffers /\ Nil \notin Buffers
      /\ \A i \in DOMAIN FramesOutput : FramesOutput[i] \in Buffers
  <2>1. FramesOutput \in Seq(Buffers)
    BY DEF Typed, TypeOK
  <2>2. \A i \in DOMAIN FramesOutput : FramesOutput[i] \in Buffers
    BY <2>1
  <2> QED
    BY <2>1, <2>2, ConstantFacts DEF Typed, TypeOK
<1>2. CASE Quiet
  BY <1>2 DEF Quiet, OwnerInv, InUse
<1>3. CASE errorCorrectPacket
  <2>1. UNCHANGED <<FramesOutput, held, RSCorrectedData>> /\ pc = "decode"
    BY <1>3 DEF errorCorrectPacket, Passing, transport
  <2> QED
    BY <2>1 DEF OwnerInv, InUse
<1>4. CASE SendFrame
  <2>1. /\ Len(FramesOutput) \in Nat
        /\ DOMAIN FramesOutput = 1..Len(FramesOutput)
        /\ DOMAIN FramesOutput' = 1..Len(FramesOutput) + 1
        /\ \A i \in 1..Len(FramesOutput) : FramesOutput'[i] = FramesOutput[i]
        /\ FramesOutput'[Len(FramesOutput) + 1] = RSCorrectedData
    BY <1>4, FramesAppend
  <2>2. pc = "send" /\ pc' = "clear" /\ UNCHANGED <<RSCorrectedData, held>>
    BY <1>4 DEF SendFrame, transport
  <2>3. \A i \in 1..Len(FramesOutput) : FramesOutput[i] # RSCorrectedData
    BY <2>1, <2>2 DEF OwnerInv, InUse
  <2>4. RSCorrectedData # held
    BY <2>2 DEF OwnerInv, InUse
  <2>5. \A i \in DOMAIN FramesOutput' : i \in 1..Len(FramesOutput) \/ i = Len(FramesOutput) + 1
    BY <2>1
  <2> QED
    BY <2>1, <2>2, <2>3, <2>4, <2>5 DEF OwnerInv
<1>5. CASE clearBuffers
  <2>1. RSCorrectedData' \notin InUse
    BY <1>5, FreeBuffer DEF clearBuffers, Typed, TypeOK
  <2>2. UNCHANGED <<FramesOutput, held>>
    BY <1>5 DEF clearBuffers, transport
  <2> QED
    BY <2>1, <2>2 DEF OwnerInv, InUse
<1>6. CASE ReceiveFrame \/ FlushFrame
  <2>1. FramesOutput # << >> /\ FramesOutput' = Tail(FramesOutput)
        /\ UNCHANGED <<pc, RSCorrectedData>>
    BY <1>6 DEF ReceiveFrame, FlushFrame, decoder, Flushing
  <2>2. /\ Len(FramesOutput) \in Nat \ {0}
        /\ DOMAIN FramesOutput = 1..Len(FramesOutput)
        /\ DOMAIN FramesOutput' = 1..Len(FramesOutput) - 1
        /\ \A i \in 1..Len(FramesOutput) - 1 : FramesOutput'[i] = FramesOutput[i + 1]
        /\ Head(FramesOutput) = FramesOutput[1]
    BY <2>1, FramesTail
  <2>3. \A i \in DOMAIN FramesOutput' : i + 1 \in DOMAIN FramesOutput /\ i + 1 # 1
    BY <2>2
  <2>4. \A i, j \in DOMAIN FramesOutput' : FramesOutput'[i] = FramesOutput'[j] => i = j
    <3> SUFFICES ASSUME NEW i \in DOMAIN FramesOutput', NEW j \in DOMAIN FramesOutput',
                        FramesOutput'[i] = FramesOutput'[j]
                 PROVE  i = j
      OBVIOUS
    <3>1. i + 1 = j + 1
      BY <2>2, <2>3 DEF OwnerInv
    <3> QED
      BY <2>2, <3>1
  <2>5. held' = held \/ held' = FramesOutput[1]
    BY <1>6, <2>2 DEF ReceiveFrame, FlushFrame, Flushing, transport
  <2>6. 1 \in DOMAIN FramesOutput
    BY <2>2
  <2>7. \A i \in DOMAIN FramesOutput' : FramesOutput'[i] # held'
    BY <2>2, <2>3, <2>5, <2>6 DEF OwnerInv
  <2>8. InUse' \subseteq InUse
    BY <2>2, <2>3, <2>5, <2>6 DEF InUse
  <2> QED
    BY <2>1, <2>4, <2>7, <2>8 DEF OwnerInv
<1>7. CASE ReadFrame
  <2>1. held' = Nil /\ UNCHANGED <<FramesOutput, pc, RSCorrectedData>>
    BY <1>7 DEF ReadFrame, decoder
  <2> QED
    BY <1>1, <2>1 DEF OwnerInv, InUse
<1> QED
  BY <1>2, <1>3, <1>4, <1>5, <1>6, <1>7, QuietOrNot

(* OrderInv, part by part. *)
LEMMA OrderParts ==
    OrderInv <=>
        /\ Link!InOrder(received)
        /\ \A i \in DOMAIN received : \A b \in InLine : Before(received[i], heap[b])
        /\ held # Nil => \A i \in DOMAIN FramesOutput : Before(heap[held], heap[FramesOutput[i]])
        /\ \A i, j \in DOMAIN FramesOutput :
              i < j => Before(heap[FramesOutput[i]], heap[FramesOutput[j]])
        /\ pc = "send" => \A b \in InUse \ {Nil} : Before(heap[b], heap[RSCorrectedData])
        /\ \A i \in DOMAIN received :
              received[i].good => received[i].from \in FrameStarts /\ received[i].from < At[1]
        /\ \A b \in InLine : heap[b].good => heap[b].from \in FrameStarts /\ heap[b].from < At[1]
BY DEF OrderInv, FrameStarts

(* What it says holds of the frames already received holds for good. *)
LEMMA OrderQuiet ==
    ASSUME Typed, StreamInv, OrderInv, [Next]_vars, Quiet
    PROVE  OrderInv'
<1>1. At[1] <= At'[1] /\ At[1] \in Nat /\ At'[1] \in Nat
  BY FirstGrows
<1>2. InLine' = InLine
  BY DEF Quiet, InLine, InUse
<1>3. /\ UNCHANGED <<heap, FramesOutput, held, received, RSCorrectedData, InUse>>
      /\ pc' = "send" <=> pc = "send"
  BY DEF Quiet, InUse
<1>4. \A f \in {received[i] : i \in DOMAIN received} \cup {heap[b] : b \in InLine} : f.from \in Nat
  <2>1. \A i \in DOMAIN received : received[i] \in Link!SDU
    BY DEF Typed, LoopInv
  <2>2. \A b \in InLine : heap[b] \in Link!SDU
    <3>1. FramesOutput \in Seq(Buffers)
      BY DEF Typed, TypeOK
    <3>2. InLine \subseteq Buffers
      BY <3>1 DEF InLine, InUse, Typed, TypeOK
    <3> QED
      BY <3>2 DEF Typed, LoopInv
  <2> QED
    BY <2>1, <2>2 DEF Link!SDU
<1>5. \A f \in {received[i] : i \in DOMAIN received} \cup {heap[b] : b \in InLine} :
         f.good => f.from \in FrameStarts /\ f.from < At'[1]
  BY <1>1, <1>4 DEF OrderInv, FrameStarts
<1> QED
  BY <1>2, <1>3, <1>5 DEF OrderInv, FrameStarts, Before, Link!InOrder

(* The buffers on their way hold frames. *)
LEMMA InLineTyped ==
    ASSUME Typed
    PROVE  /\ InLine \subseteq Buffers /\ RSCorrectedData \in Buffers
           /\ \A i \in DOMAIN FramesOutput : FramesOutput[i] \in InLine
           /\ held # Nil => held \in InLine
           /\ pc = "send" => RSCorrectedData \in InLine
           /\ \A b \in Buffers : heap[b].from \in Nat
           /\ \A i \in DOMAIN received : received[i].from \in Nat
           /\ heap \in [Buffers -> Link!SDU] /\ Nil \notin Buffers
<1>1. /\ FramesOutput \in Seq(Buffers) /\ RSCorrectedData \in Buffers
      /\ held \in Buffers \cup {Nil} /\ Nil \notin Buffers
  BY ConstantFacts DEF Typed, TypeOK
<1>2. \A i \in DOMAIN FramesOutput : FramesOutput[i] \in Buffers /\ FramesOutput[i] # Nil
  BY <1>1
<1>3. heap \in [Buffers -> Link!SDU] /\ received \in Seq(Link!SDU)
  BY DEF Typed, LoopInv
<1>4. \A i \in DOMAIN received : received[i] \in Link!SDU
  BY <1>3
<1>5. /\ \A b \in Buffers : heap[b].from \in Nat
      /\ \A i \in DOMAIN received : received[i].from \in Nat
  BY <1>3, <1>4 DEF Link!SDU
<1> QED
  BY <1>1, <1>2, <1>3, <1>5 DEF InLine, InUse

(* A frame decoded good follows all that went before. *)
LEMMA OrderDecode ==
    ASSUME Typed, StreamInv, OwnerInv, OrderInv, errorCorrectPacket
    PROVE  OrderInv'
<1> DEFINE R == RSCorrectedData
           a == EncodedBytes[1].at
<1>1. PICK d \in Decodings(EncodedBytes) :
          /\ heap' = [heap EXCEPT ![R] = [from |-> a, good |-> d.good]]
          /\ pc' = IF d.corrected THEN "send" ELSE "clear"
  BY DEF errorCorrectPacket
<1>2. /\ pc = "decode" /\ EncodedBytes' = << >>
      /\ UNCHANGED <<FramesOutput, held, received, RSCorrectedData, SymbolsInput, sent>>
  BY DEF errorCorrectPacket, Passing, transport, demod
<1>3. /\ InLine \subseteq Buffers /\ R \in Buffers
      /\ \A i \in DOMAIN FramesOutput : FramesOutput[i] \in InLine
      /\ held # Nil => held \in InLine
      /\ \A b \in Buffers : heap[b].from \in Nat
      /\ \A i \in DOMAIN received : received[i].from \in Nat
      /\ heap \in [Buffers -> Link!SDU]
  BY InLineTyped
<1>4. InLine = InUse \ {Nil} /\ R \notin InLine /\ InUse' = InUse
  BY <1>2 DEF InLine, InUse, OwnerInv
<1>5. \A b \in InLine : heap'[b] = heap[b]
  BY <1>1, <1>3, <1>4
<1>6. heap'[R] = [from |-> a, good |-> d.good]
  BY <1>1, <1>3
<1>7. heap'[R].from = a /\ heap'[R].good = d.good
  BY <1>6
<1>8. At[1] = a /\ a \in 0..LastSymbol /\ a \in Nat /\ At[1] < At'[1] /\ At'[1] \in Nat
  <2>1. EncodedBytes \in Seq(Symbol) /\ Len(EncodedBytes) = FrameLen /\ FrameLen \in Nat \ {0}
        /\ LastSymbol \in Nat
    BY <1>2, ConstantFacts DEF Typed, TypeOK
  <2>2. EncodedBytes[1] \in Symbol /\ 1 \in 1..FrameLen
    BY <2>1, ElementOfSeq
  <2>3. At[1] = a /\ a \in 0..LastSymbol /\ a \in Nat
    BY <2>1, <2>2, AtFacts DEF Positions, Symbol
  <2>4. Typed'
    BY TypedDecode
  <2>5. Dropped(FrameLen) /\ FrameLen \in 0..Waiting /\ Waiting \in Nat
    BY <1>2, <2>1, <2>4, BlockDropped, AtFacts DEF Positions
  <2>6. 1 \in 1..Waiting - FrameLen + 1 /\ 1 \in 1..Waiting + 1 /\ 1 + FrameLen \in 1..Waiting + 1
        /\ 1 < 1 + FrameLen /\ (1 + FrameLen) - 1 = FrameLen
    BY <2>1, <2>5
  <2>7. At'[1] = At[1 + FrameLen]
    BY <2>5, <2>6 DEF Dropped
  <2>8. At[1] + ((1 + FrameLen) - 1) <= At[1 + FrameLen]
    BY <2>6 DEF StreamInv
  <2>9. At[1 + FrameLen] \in Nat
    BY <2>6, AtFacts DEF Positions
  <2> QED
    BY <2>1, <2>3, <2>6, <2>7, <2>8, <2>9
<1>9. d.good => a \in FrameStarts
  <2>1. d.good => Starts(EncodedBytes)
    BY DEF Decodings
  <2> QED
    BY <1>8, <2>1, StartsSent DEF Starts
<1> HIDE DEF a
<1>10. InLine' = InLine \/ (pc' = "send" /\ InLine' = InLine \cup {R})
  BY <1>1, <1>2, <1>4 DEF InLine
<1>11. /\ \A i \in DOMAIN received : Before(received[i], heap'[R])
       /\ \A b \in InLine : Before(heap[b], heap'[R])
  BY <1>7, <1>8, OrderParts DEF Before
<1>12. ASSUME NEW b \in InLine', heap'[b].good
       PROVE  heap'[b].from \in FrameStarts /\ heap'[b].from < At'[1]
  <2>1. CASE b = R
    BY <1>7, <1>8, <1>9, <1>12, <2>1
  <2>2. CASE b \in InLine
    BY <1>3, <1>5, <1>8, <1>12, <2>2, OrderParts
  <2> QED
    BY <1>10, <2>1, <2>2
<1>13. \A i \in DOMAIN received :
          received[i].good => received[i].from \in FrameStarts /\ received[i].from < At'[1]
  BY <1>3, <1>8, OrderParts
<1>14. \A i \in DOMAIN received : \A b \in InLine' : Before(received[i], heap'[b])
  BY <1>5, <1>10, <1>11, OrderParts
<1>15. /\ held # Nil => \A i \in DOMAIN FramesOutput : Before(heap'[held], heap'[FramesOutput[i]])
       /\ \A i, j \in DOMAIN FramesOutput :
             i < j => Before(heap'[FramesOutput[i]], heap'[FramesOutput[j]])
  BY <1>3, <1>5, OrderParts
<1>16. \A b \in InUse \ {Nil} : Before(heap'[b], heap'[R])
  BY <1>4, <1>5, <1>11
<1>17. Link!InOrder(received)
  BY OrderParts
<1>18. \A f \in {received[i] : i \in DOMAIN received} \cup {heap'[b] : b \in InLine'} :
          f.good => f.from \in FrameStarts /\ f.from < At'[1]
  BY <1>12, <1>13
<1>19. Link!InOrder(received)'
  BY <1>2, <1>17 DEF Link!InOrder
<1> QED
  BY <1>2, <1>4, <1>14, <1>15, <1>16, <1>18, <1>19 DEF OrderInv, FrameStarts

(* A frame that is sent on goes to the end of the line, and the next one   *)
(* gets a buffer outside it.                                               *)
LEMMA OrderPass ==
    ASSUME Typed, StreamInv, OwnerInv, OrderInv, SendFrame \/ clearBuffers
    PROVE  OrderInv'
<1>1. At[1] <= At'[1] /\ At[1] \in Nat /\ At'[1] \in Nat
  <2>1. Next
    BY DEF Next, DecoderStep
  <2> QED
    BY <2>1, FirstGrows
<1>2. UNCHANGED <<held, received>>
  BY DEF SendFrame, clearBuffers, transport
<1>3. /\ InLine \subseteq Buffers /\ RSCorrectedData \in Buffers /\ Nil \notin Buffers
      /\ \A i \in DOMAIN FramesOutput : FramesOutput[i] \in InLine
      /\ held # Nil => held \in InLine
      /\ \A b \in Buffers : heap[b].from \in Nat
      /\ \A i \in DOMAIN received : received[i].from \in Nat
  BY InLineTyped
<1>4. Link!InOrder(received)'
  BY <1>2, OrderParts DEF Link!InOrder
<1>5. /\ \A b \in InLine : heap'[b] = heap[b]
      /\ InLine' = InLine /\ pc' # "send"
      /\ held # Nil => \A i \in DOMAIN FramesOutput' : Before(heap[held], heap[FramesOutput'[i]])
      /\ \A i, j \in DOMAIN FramesOutput' :
            i < j => Before(heap[FramesOutput'[i]], heap[FramesOutput'[j]])
      /\ \A i \in DOMAIN FramesOutput' : FramesOutput'[i] \in InLine
  <2>1. CASE SendFrame
    <3>1. /\ Len(FramesOutput) \in Nat
          /\ DOMAIN FramesOutput = 1..Len(FramesOutput)
          /\ DOMAIN FramesOutput' = 1..Len(FramesOutput) + 1
          /\ \A i \in 1..Len(FramesOutput) : FramesOutput'[i] = FramesOutput[i]
          /\ FramesOutput'[Len(FramesOutput) + 1] = RSCorrectedData
      BY <2>1, FramesAppend
    <3>2. pc = "send" /\ pc' = "clear" /\ heap' = heap
      BY <2>1 DEF SendFrame
    <3>3. \A i \in DOMAIN FramesOutput' : i \in DOMAIN FramesOutput \/ i = Len(FramesOutput) + 1
      BY <3>1
    <3>4. Len(FramesOutput) + 1 \in DOMAIN FramesOutput'
          /\ \A i \in DOMAIN FramesOutput : i \in DOMAIN FramesOutput'
      BY <3>1
    <3>5. InUse' = InUse \cup {RSCorrectedData}
      BY <1>2, <3>1, <3>3, <3>4 DEF InUse
    <3>6. InLine' = InLine
      BY <1>3, <3>2, <3>5 DEF InLine
    <3>7. \A b \in InUse \ {Nil} : Before(heap[b], heap[RSCorrectedData])
      BY <3>2, OrderParts
    <3>8. held # Nil => \A i \in DOMAIN FramesOutput' : Before(heap[held], heap[FramesOutput'[i]])
      BY <3>1, <3>3, <3>7, OrderParts DEF InUse
    <3>9. ASSUME NEW i \in DOMAIN FramesOutput', NEW j \in DOMAIN FramesOutput', i < j
          PROVE  Before(heap[FramesOutput'[i]], heap[FramesOutput'[j]])
      <4>1. i \in DOMAIN FramesOutput /\ FramesOutput'[i] = FramesOutput[i]
        BY <3>1, <3>9
      <4>2. FramesOutput[i] \in InUse \ {Nil}
        BY <1>3, <4>1 DEF InUse
      <4> QED
        BY <3>1, <3>3, <3>7, <3>9, <4>1, <4>2, OrderParts
    <3>10. \A i \in DOMAIN FramesOutput' : FramesOutput'[i] \in InLine
      BY <1>3, <3>1, <3>2, <3>3 DEF InLine
    <3> QED
      BY <3>2, <3>6, <3>8, <3>9, <3>10
  <2>2. CASE clearBuffers
    <3>1. /\ heap' = [b \in Buffers |-> IF b \in InUse THEN heap[b] ELSE Blank]
          /\ pc = "clear" /\ pc' = "poll" /\ FramesOutput' = FramesOutput
      BY <2>2 DEF clearBuffers
    <3>2. InUse' = InUse
      BY <1>2, <3>1 DEF InUse
    <3>3. InLine = InUse \ {Nil} /\ InLine' = InLine
      BY <3>1, <3>2 DEF InLine
    <3>4. \A b \in InLine : heap'[b] = heap[b]
      BY <1>3, <3>1, <3>3
    <3> QED
      BY <1>3, <3>1, <3>3, <3>4, OrderParts
  <2> QED
    BY <2>1, <2>2
<1>6. /\ \A i \in DOMAIN received : \A b \in InLine' : Before(received[i], heap'[b])
      /\ held # Nil => \A i \in DOMAIN FramesOutput' : Before(heap'[held], heap'[FramesOutput'[i]])
      /\ \A i, j \in DOMAIN FramesOutput' :
            i < j => Before(heap'[FramesOutput'[i]], heap'[FramesOutput'[j]])
  BY <1>3, <1>5, OrderParts
<1>7. /\ \A i \in DOMAIN received :
            received[i].good => received[i].from \in FrameStarts /\ received[i].from < At'[1]
      /\ \A b \in InLine' : heap'[b].good => heap'[b].from \in FrameStarts /\ heap'[b].from < At'[1]
  BY <1>1, <1>3, <1>5, OrderParts
<1>8. \A f \in {received[i] : i \in DOMAIN received} \cup {heap'[b] : b \in InLine'} :
         f.good => f.from \in FrameStarts /\ f.from < At'[1]
  BY <1>7
<1> QED
  BY <1>2, <1>4, <1>5, <1>6, <1>8 DEF OrderInv, FrameStarts

(* Frames are taken from the front of the line. *)
LEMMA OrderTake ==
    ASSUME Typed, StreamInv, OwnerInv, OrderInv, ReceiveFrame \/ FlushFrame
    PROVE  OrderInv'
<1>1. At[1] <= At'[1] /\ At[1] \in Nat /\ At'[1] \in Nat
  <2>1. Next
    BY DEF Next, TransportStep
  <2> QED
    BY <2>1, FirstGrows
<1>2. UNCHANGED <<received, heap, pc, RSCorrectedData>>
      /\ FramesOutput # << >> /\ FramesOutput' = Tail(FramesOutput)
  BY DEF ReceiveFrame, FlushFrame, Flushing, decoder, transport
<1>3. /\ Len(FramesOutput) \in Nat \ {0}
      /\ DOMAIN FramesOutput = 1..Len(FramesOutput)
      /\ DOMAIN FramesOutput' = 1..Len(FramesOutput) - 1
      /\ \A i \in 1..Len(FramesOutput) - 1 : FramesOutput'[i] = FramesOutput[i + 1]
      /\ Head(FramesOutput) = FramesOutput[1]
  BY <1>2, FramesTail
<1>4. 1 \in DOMAIN FramesOutput
      /\ \A i \in DOMAIN FramesOutput' : i + 1 \in DOMAIN FramesOutput /\ 1 < i + 1
  BY <1>3
<1>5. held' = held \/ held' = FramesOutput[1]
  BY <1>3 DEF ReceiveFrame, FlushFrame, Flushing, transport
<1>6. /\ InLine \subseteq Buffers
      /\ \A b \in Buffers : heap[b].from \in Nat
      /\ \A i \in DOMAIN received : received[i].from \in Nat
  BY InLineTyped
<1>7. InUse' \subseteq InUse
  BY <1>3, <1>4, <1>5 DEF InUse
<1>8. InLine' \subseteq InLine
  BY <1>2, <1>7 DEF InLine
<1>9. Link!InOrder(received)'
  BY <1>2, OrderParts DEF Link!InOrder
<1>10. held' # Nil => \A i \in DOMAIN FramesOutput' : Before(heap[held'], heap[FramesOutput'[i]])
  BY <1>3, <1>4, <1>5, OrderParts
<1>11. ASSUME NEW i \in DOMAIN FramesOutput', NEW j \in DOMAIN FramesOutput', i < j
       PROVE  Before(heap[FramesOutput'[i]], heap[FramesOutput'[j]])
  <2>1. i + 1 < j + 1
    BY <1>3, <1>11
  <2> QED
    BY <1>3, <1>4, <2>1, OrderParts
<1>12. /\ \A i \in DOMAIN received : \A b \in InLine' : Before(received[i], heap[b])
       /\ pc = "send" => \A b \in InUse' \ {Nil} : Before(heap[b], heap[RSCorrectedData])
  BY <1>7, <1>8, OrderParts
<1>13. /\ \A i \in DOMAIN received :
            received[i].good => received[i].from \in FrameStarts /\ received[i].from < At'[1]
       /\ \A b \in InLine' : heap[b].good => heap[b].from \in FrameStarts /\ heap[b].from < At'[1]
  BY <1>1, <1>6, <1>8, OrderParts
<1>14. \A f \in {received[i] : i \in DOMAIN received} \cup {heap[b] : b \in InLine'} :
         f.good => f.from \in FrameStarts /\ f.from < At'[1]
  BY <1>13
<1> QED
  BY <1>2, <1>9, <1>10, <1>11, <1>12, <1>14 DEF OrderInv, FrameStarts

(* What is received, and what the transport layer then reads. *)
LEMMA ReadFacts ==
    ASSUME Typed, ReadFrame
    PROVE  /\ Len(received) \in Nat /\ DOMAIN received = 1..Len(received)
           /\ received' \in Seq(Link!SDU) /\ Len(received') = Len(received) + 1
           /\ DOMAIN received' = 1..Len(received) + 1
           /\ \A i \in 1..Len(received) : received'[i] = received[i]
           /\ received'[Len(received) + 1] = heap[held]
           /\ held \in Buffers /\ held # Nil
<1>1. received \in Seq(Link!SDU) /\ held \in Buffers /\ held # Nil
      /\ received' = Append(received, heap[held])
  BY DEF ReadFrame, Typed, TypeOK, LoopInv
<1>2. heap[held] \in Link!SDU
  BY <1>1 DEF Typed, LoopInv
<1> QED
  BY <1>1, <1>2, AppendProperties, LenProperties

(* The frame read is the first in line. *)
LEMMA OrderRead ==
    ASSUME Typed, StreamInv, OwnerInv, OrderInv, ReadFrame
    PROVE  OrderInv'
<1> DEFINE n == Len(received)
<1>1. At[1] <= At'[1] /\ At[1] \in Nat /\ At'[1] \in Nat
  <2>1. Next
    BY DEF Next, TransportStep
  <2> QED
    BY <2>1, FirstGrows
<1>2. UNCHANGED <<heap, pc, RSCorrectedData, FramesOutput>> /\ held' = Nil
  BY DEF ReadFrame, decoder
<1>3. /\ n \in Nat /\ DOMAIN received = 1..n /\ DOMAIN received' = 1..n + 1
      /\ \A i \in 1..n : received'[i] = received[i]
      /\ received'[n + 1] = heap[held]
      /\ held \in Buffers /\ held # Nil
  BY ReadFacts
<1> HIDE DEF n
<1>4. /\ InLine \subseteq Buffers /\ held \in InLine /\ Nil \notin Buffers
      /\ \A i \in DOMAIN FramesOutput : FramesOutput[i] \in InLine
      /\ \A b \in Buffers : heap[b].from \in Nat
      /\ \A i \in DOMAIN received : received[i].from \in Nat
  BY <1>3, InLineTyped
<1>5. InUse' \ {Nil} = {FramesOutput[i] : i \in DOMAIN FramesOutput}
  BY <1>2, <1>4 DEF InUse
<1>6. InUse' \ {Nil} \subseteq InUse \ {Nil} /\ InLine' \subseteq InLine
  BY <1>2, <1>5, <1>4 DEF InLine, InUse
<1>7. \A b \in InLine' : Before(heap[held], heap[b])
  <2>1. \A i \in DOMAIN FramesOutput : Before(heap[held], heap[FramesOutput[i]])
    BY <1>3, OrderParts
  <2>2. pc = "send" => Before(heap[held], heap[RSCorrectedData])
    BY <1>3, OrderParts DEF InUse
  <2> QED
    BY <1>2, <1>5, <2>1, <2>2 DEF InLine
<1>8. \A i \in DOMAIN received' : i \in DOMAIN received \/ i = n + 1
  BY <1>3
<1>9. \A i \in DOMAIN received' : \A b \in InLine' : Before(received'[i], heap[b])
  BY <1>3, <1>6, <1>7, <1>8, OrderParts
<1>10. \A i \in DOMAIN received : Before(received[i], heap[held])
  BY <1>4, OrderParts
<1>11. \A i, j \in DOMAIN received' : i < j => Before(received'[i], received'[j])
  <2> SUFFICES ASSUME NEW i \in DOMAIN received', NEW j \in DOMAIN received', i < j
               PROVE  Before(received'[i], received'[j])
    OBVIOUS
  <2>1. i \in DOMAIN received /\ received'[i] = received[i]
    BY <1>3
  <2>2. CASE j \in DOMAIN received
    BY <1>3, <2>1, <2>2, OrderParts DEF Link!InOrder, Before
  <2>3. CASE j = n + 1
    BY <1>3, <1>10, <2>1, <2>3
  <2> QED
    BY <1>8, <2>2, <2>3
<1>12. \A i \in DOMAIN received' :
          received'[i].good => received'[i].from \in FrameStarts /\ received'[i].from < At'[1]
  <2> SUFFICES ASSUME NEW i \in DOMAIN received', received'[i].good
               PROVE  received'[i].from \in FrameStarts /\ received'[i].from < At'[1]
    OBVIOUS
  <2>1. CASE i \in DOMAIN received
    BY <1>1, <1>3, <1>4, <2>1, OrderParts
  <2>2. CASE i = n + 1
    BY <1>1, <1>3, <1>4, <2>2, OrderParts
  <2> QED
    BY <1>8, <2>1, <2>2
<1>13. Link!InOrder(received)'
  BY <1>11, <1>12 DEF Link!InOrder, Before, FrameStarts
<1>14. \A b \in InLine' : heap[b].good => heap[b].from \in FrameStarts /\ heap[b].from < At'[1]
  BY <1>1, <1>4, <1>6, OrderParts
<1>15. \A f \in {received'[i] : i \in DOMAIN received'} \cup {heap[b] : b \in InLine'} :
          f.good => f.from \in FrameStarts /\ f.from < At'[1]
  BY <1>12, <1>14
<1>16. /\ \A i, j \in DOMAIN FramesOutput :
             i < j => Before(heap[FramesOutput[i]], heap[FramesOutput[j]])
       /\ pc = "send" => \A b \in InUse' \ {Nil} : Before(heap[b], heap[RSCorrectedData])
  BY <1>6, OrderParts
<1> QED
  BY <1>2, <1>9, <1>13, <1>15, <1>16 DEF OrderInv, FrameStarts

(* Everything the link promises rests on these four. *)
LinkInv == Typed /\ StreamInv /\ OwnerInv /\ OrderInv

(* A new decoder has passed nothing on. *)
LEMMA LinkInit == Init => LinkInv
<1> SUFFICES ASSUME Init PROVE OwnerInv /\ OrderInv
  BY TypedInit, StreamInit DEF LinkInv
<1>1. DOMAIN FramesOutput = {} /\ DOMAIN received = {} /\ held = Nil /\ pc = "poll"
      /\ RSCorrectedData = 0 /\ Nil # 0
  BY ConstantFacts DEF Init
<1>2. InUse = {Nil}
  BY <1>1 DEF InUse
<1>3. InLine = {}
  BY <1>1, <1>2 DEF InLine
<1> QED
  BY <1>1, <1>2, <1>3 DEF OwnerInv, OrderInv, Link!InOrder

(* The frames on their way, and those received, stay in order. *)
LEMMA LinkNext ==
    ASSUME LinkInv, [Next]_vars
    PROVE  LinkInv'
<1>1. Typed' /\ StreamInv' /\ OwnerInv'
  BY TypedNext, StreamNext, OwnerNext DEF LinkInv
<1>2. OrderInv'
  BY QuietOrNot, OrderQuiet, OrderDecode, OrderPass, OrderTake, OrderRead DEF LinkInv
<1> QED
  BY <1>1, <1>2 DEF LinkInv

(* A step reads a frame, which Link allows, or leaves what was read alone. *)
LEMMA LinkStep ==
    ASSUME LinkInv, [Next]_vars
    PROVE  [Link!HandOver]_<<FrameStarts, received>>
<1>1. CASE ReadFrame
  <2>1. /\ received' \in Seq(Link!SDU) /\ Len(received) \in Nat
        /\ Len(received') = Len(received) + 1 /\ DOMAIN received = 1..Len(received)
        /\ \A i \in 1..Len(received) : received'[i] = received[i]
    BY <1>1, ReadFacts DEF LinkInv
  <2>2. Link!InOrder(received')
    <3>1. OrderInv'
      BY LinkNext DEF LinkInv
    <3> QED
      BY <3>1 DEF OrderInv, Link!InOrder
  <2>3. Len(received) <= Len(received')
    BY <2>1
  <2> QED
    BY <2>1, <2>2, <2>3 DEF Link!HandOver
<1>2. CASE ~ReadFrame
  <2>1. received' = received
    BY <1>2, QuietOrNot DEF Quiet, errorCorrectPacket, SendFrame, clearBuffers, ReceiveFrame,
                            FlushFrame, Flushing, transport
  <2> QED
    BY <2>1 DEF FrameStarts
<1> QED
  BY <1>1, <1>2

(* The good frames the transport layer reads are frames that were sent,    *)
(* each at most once and in order, whenever it reads them and whatever is  *)
(* lost, damaged or flushed: Start never writes into a buffer it has       *)
(* passed on, and never decodes the same symbols twice.  This is the link  *)
(* that Demux assumes.                                                     *)
THEOREM DecoderImplementsLink == Spec => LinkSpec
<1>1. Init => LinkInv
  BY LinkInit
<1>2. LinkInv /\ [Next]_vars => LinkInv'
  BY LinkNext
<1>3. Init => Link!Init
  <2>1. ASSUME NEW k \in 0..LastSymbol \div FrameLen
        PROVE  k * FrameLen \in Nat
    <3>1. k \in Nat /\ FrameLen \in Nat
      BY ConstantFacts
    <3> QED
      BY <3>1, Products
  <2> QED
    BY <2>1 DEF Init, Link!Init
<1>4. LinkInv /\ [Next]_vars => [Link!HandOver]_<<{k * FrameLen : k \in 0..LastSymbol \div FrameLen}, received>>
  BY LinkStep DEF FrameStarts
<1> QED
  BY <1>1, <1>2, <1>3, <1>4, PTL DEF Spec, LinkSpec, Link!Spec

-----------------------------------------------------------------------------
(***************************************************************************)
(* Of frames whose symbols all get through, the third in a row behind a    *)
(* fault is passed on.  A frame that starts a block is decoded; behind one *)
(* undamaged frame the search is a whole one and finds the next start;     *)
(* behind two nothing is in its way.                                       *)
(***************************************************************************)

(* Every nonempty set of naturals has a least element. *)
LEMMA LeastOf ==
    ASSUME NEW S, S \subseteq Nat, S # {}
    PROVE  \E x \in S : \A y \in S : x <= y
<1> DEFINE R == OpToRel(<, Nat)
<1>1. IsWellFoundedOn(R, Nat)
  BY NatLessThanWellFounded, Zenon
<1>2. \A x, y \in Nat : y < x => <<y, x>> \in R
  BY Zenon DEF OpToRel
<1> HIDE DEF R
<1>3. PICK x \in S : \A y \in S : ~(<<y, x>> \in R)
  BY <1>1, WFMin
<1>4. x \in Nat /\ \A y \in S : y \in Nat /\ ~(y < x)
  BY <1>2, <1>3
<1> QED
  BY <1>4

(* The frames of the offsets from c up to d are undamaged. *)
Undamaged(c, d) == \A a \in c..d : a \div FrameLen \notin hurt

(* Offsets and the frame that starts at s. *)
LEMMA InFrame ==
    ASSUME NEW n \in Nat, NEW a \in Nat, NEW s, s = n * FrameLen, s <= a, a < s + FrameLen
    PROVE  a \div FrameLen = n /\ a % FrameLen = a - s
<1>1. FrameLen \in Nat \ {0}
  BY ConstantFacts
<1>2. s \in Nat /\ (n + 1) * FrameLen = s + FrameLen
  BY <1>1
<1>3. a \div FrameLen = n
  BY <1>1, <1>2, Quotient
<1>4. a = s + (a % FrameLen) /\ a % FrameLen \in Nat
  <2> DEFINE q == a \div FrameLen
             r == a % FrameLen
  <2>1. a = q * FrameLen + r /\ r \in Nat
    BY <1>1, Division
  <2>2. q * FrameLen = s
    BY <1>3
  <2> HIDE DEF q, r
  <2>3. a = s + r
    BY <2>1, <2>2
  <2> QED
    BY <2>1, <2>3 DEF r
<1> QED
  BY <1>2, <1>3, <1>4

(* Undamaged frames in a row are undamaged offsets in a row. *)
LEMMA TwoFrames ==
    ASSUME NEW n \in Nat, n \notin hurt, n + 1 \notin hurt, NEW s, s = n * FrameLen
    PROVE  Undamaged(s, s + 2 * FrameLen - 1)
<1>1. FrameLen \in Nat \ {0} /\ n + 1 \in Nat
  BY ConstantFacts
<1>2. s \in Nat /\ (n + 1) * FrameLen = s + FrameLen
  BY <1>1
<1>3. ASSUME NEW a \in s..s + 2 * FrameLen - 1
      PROVE  a \div FrameLen \notin hurt
  <2>1. CASE a < s + FrameLen
    <3>1. a \in Nat /\ s <= a /\ a < s + FrameLen
      BY <1>2, <1>3, <2>1
    <3>2. a \div FrameLen = n
      BY <3>1, InFrame
    <3> QED
      BY <3>2
  <2>2. CASE a >= s + FrameLen
    <3> DEFINE t == s + FrameLen
    <3>1. t = (n + 1) * FrameLen /\ t <= a /\ a < t + FrameLen /\ a \in Nat
      BY <1>1, <1>2, <1>3, <2>2
    <3> HIDE DEF t
    <3>2. a \div FrameLen = n + 1
      BY <1>1, <3>1, InFrame
    <3> QED
      BY <3>2
  <2> QED
    BY <1>1, <1>2, <2>1, <2>2
<1> QED
  BY <1>3 DEF Undamaged

(* And one frame. *)
LEMMA OneFrame ==
    ASSUME NEW n \in Nat, n \notin hurt, NEW s, s = n * FrameLen
    PROVE  Undamaged(s, s + FrameLen - 1)
<1>1. FrameLen \in Nat \ {0}
  BY ConstantFacts
<1>2. s \in Nat
  BY <1>1
<1>3. ASSUME NEW a \in s..s + FrameLen - 1
      PROVE  a \div FrameLen \notin hurt
  <2>1. a \in Nat /\ s <= a /\ a < s + FrameLen
    BY <1>1, <1>2, <1>3
  <2>2. a \div FrameLen = n
    BY <2>1, InFrame
  <2> QED
    BY <2>2
<1> QED
  BY <1>3 DEF Undamaged
-----------------------------------------------------------------------------
(* The symbols of a block. *)

(* k symbols on from one before c is one before c + k, if the k offsets    *)
(* from c on are undamaged: none of them is missing.                       *)
LEMMA Cross ==
    ASSUME Typed, StreamInv, NEW c \in Nat, NEW k \in 0..Waiting, At[1] < c,
           Undamaged(c, c + k - 1)
    PROVE  At[1 + k] < c + k
<1> DEFINE S == {j \in 0..k : At[1 + j] >= c + j}
<1>1. Waiting \in Nat /\ k \in Nat /\ \A i \in 1..Waiting + 1 : At[i] \in Nat
  BY AtFacts DEF Positions
<1>2. CASE S # {}
  <2>1. PICK x \in S : \A y \in S : x <= y
    <3>1. S \subseteq Nat
      OBVIOUS
    <3> HIDE DEF S
    <3> QED
      BY <1>2, <3>1, LeastOf
  <2>2. x \in 0..k /\ At[1 + x] >= c + x
    BY <2>1
  <2>3. x # 0
    <3>1. 1 + 0 = 1 /\ 1 \in 1..Waiting + 1 /\ At[1] \in Nat /\ c + 0 = c
      BY <1>1
    <3> QED
      BY <2>2, <3>1
  <2> DEFINE w == x - 1
  <2>4. w \in 0..k /\ 1 + w = x /\ w < x /\ x \in 1..Waiting /\ x \in 1..Waiting + 1
        /\ 1 + x \in 1..Waiting + 1 /\ 1 + x = x + 1
    BY <1>1, <2>2, <2>3
  <2>5. w \notin S
    <3> HIDE DEF w
    <3> QED
      BY <1>1, <2>1, <2>4
  <2>6. At[x] < c + w
    <3>1. ~(At[1 + w] >= c + w)
      BY <2>4, <2>5
    <3>2. At[x] \in Nat /\ c + w \in Nat
      BY <1>1, <2>4
    <3> HIDE DEF w
    <3> QED
      BY <2>4, <3>1, <3>2
  <2>7. c + w \in At[x] + 1..At[x + 1] - 1 /\ c + w \in c..c + k - 1
    <3>1. At[x] \in Nat /\ At[x + 1] \in Nat /\ At[x + 1] >= c + x
      BY <1>1, <2>2, <2>4
    <3> QED
      BY <1>1, <2>2, <2>4, <2>6, <3>1
  <2> HIDE DEF w
  <2>8. (c + w) \div FrameLen \in hurt
    BY <2>4, <2>7 DEF StreamInv
  <2> QED
    BY <2>7, <2>8 DEF Undamaged
<1>3. CASE S = {}
  <2>1. k \in 0..k /\ k \notin S /\ 1 + k \in 1..Waiting + 1
    BY <1>1, <1>3
  <2>2. ~(At[1 + k] >= c + k) /\ At[1 + k] \in Nat /\ c + k \in Nat
    BY <1>1, <2>1
  <2> HIDE DEF S
  <2> QED
    BY <2>2
<1> QED
  BY <1>2, <1>3

(* From an offset on that is followed by undamaged ones no symbol is       *)
(* missing.                                                                *)
LEMMA Dense ==
    ASSUME Typed, StreamInv, NEW k \in 0..Waiting, Undamaged(At[1] + 1, At[1] + k)
    PROVE  At[1 + k] = At[1] + k
<1>1. Waiting \in Nat /\ k \in Nat /\ At[1] \in Nat /\ At[1 + k] \in Nat
  <2>1. Waiting \in Nat /\ \A i \in 1..Waiting + 1 : At[i] \in Nat
    BY AtFacts DEF Positions
  <2>2. 1 \in 1..Waiting + 1 /\ 1 + k \in 1..Waiting + 1
    BY <2>1
  <2> QED
    BY <2>1, <2>2
<1>2. At[1 + k] < (At[1] + 1) + k
  <2> DEFINE c == At[1] + 1
  <2>1. c \in Nat /\ At[1] < c /\ c + k - 1 = At[1] + k
    BY <1>1
  <2>2. Undamaged(c, c + k - 1)
    BY <2>1
  <2> HIDE DEF c
  <2>3. At[1 + k] < c + k
    BY <2>1, <2>2, Cross
  <2> QED
    BY <2>3 DEF c
<1>3. At[1] + k <= At[1 + k]
  <2>1. CASE k = 0
    BY <1>1, <2>1
  <2>2. CASE k > 0
    <3>1. 1 \in 1..Waiting + 1 /\ 1 + k \in 1..Waiting + 1 /\ 1 < 1 + k /\ (1 + k) - 1 = k
      BY <1>1, <2>2
    <3> QED
      BY <3>1 DEF StreamInv
  <2> QED
    BY <1>1, <2>1, <2>2
<1> QED
  BY <1>1, <1>2, <1>3

(* The block that is searched or decoded is the first of the symbols that  *)
(* wait.                                                                   *)
LEMMA BlockAt ==
    ASSUME Typed, pc \in {"search", "decode"}
    PROVE  /\ FrameLen \in Nat \ {0} /\ FrameLen \in 0..Waiting /\ Waiting \in Nat
           /\ DOMAIN EncodedBytes = 1..FrameLen
           /\ \A i \in 1..FrameLen : At[i] = EncodedBytes[i].at
           /\ \A i \in 1..Waiting + 1 : At[i] \in Nat
<1>1. Len(EncodedBytes) = FrameLen /\ FrameLen \in Nat \ {0}
  BY ConstantFacts DEF Typed, TypeOK
<1>2. Positions
  BY AtFacts
<1>3. FrameLen \in 0..Waiting /\ Waiting \in Nat
  BY <1>1, <1>2 DEF Positions
<1> QED
  BY <1>1, <1>2, <1>3 DEF Positions

(* A block of undamaged frames is as it was sent. *)
LEMMA BlockDense ==
    ASSUME Typed, StreamInv, pc \in {"search", "decode"},
           Undamaged(At[1], At[1] + FrameLen - 1)
    PROVE  /\ \A i \in 1..FrameLen : EncodedBytes[i].at = At[1] + i - 1 /\ EncodedBytes[i].ok
           /\ Unbroken(EncodedBytes) /\ Clean(EncodedBytes)
<1>1. /\ FrameLen \in Nat \ {0} /\ FrameLen \in 0..Waiting /\ Waiting \in Nat
      /\ DOMAIN EncodedBytes = 1..FrameLen
      /\ \A i \in 1..FrameLen : At[i] = EncodedBytes[i].at
      /\ \A i \in 1..Waiting + 1 : At[i] \in Nat
  BY BlockAt
<1>2. At[1] \in Nat
  <2>1. 1 \in 1..Waiting + 1
    BY <1>1
  <2> QED
    BY <1>1, <2>1
<1>3. ASSUME NEW i \in 1..FrameLen
      PROVE  EncodedBytes[i].at = At[1] + i - 1 /\ EncodedBytes[i].ok
  <2> DEFINE k == i - 1
  <2>1. k \in 0..Waiting /\ 1 + k = i /\ At[1] + k = At[1] + i - 1
        /\ At[1] + k \in At[1]..At[1] + FrameLen - 1
    BY <1>1, <1>2
  <2>2. Undamaged(At[1] + 1, At[1] + k)
    <3>1. \A a \in At[1] + 1..At[1] + k : a \in At[1]..At[1] + FrameLen - 1
      BY <1>1, <1>2
    <3> QED
      BY <3>1 DEF Undamaged
  <2> HIDE DEF k
  <2>3. At[1 + k] = At[1] + k
    BY <2>1, <2>2, Dense
  <2>4. EncodedBytes[i].at = At[1] + k
    BY <1>1, <2>1, <2>3
  <2>5. EncodedBytes[i].ok \/ FrameOf(EncodedBytes[i]) \in hurt
    BY <1>1 DEF StreamInv
  <2> QED
    BY <2>1, <2>4, <2>5 DEF Undamaged, FrameOf
<1>4. EncodedBytes[1].at = At[1]
  BY <1>1
<1>5. Unbroken(EncodedBytes) /\ Clean(EncodedBytes)
  BY <1>1, <1>3, <1>4 DEF Unbroken, Clean
<1> QED
  BY <1>3, <1>5

(* In a block that is an undamaged frame the only sync word is at its      *)
(* front, where any search finds it.                                       *)
LEMMA SyncsAtFront ==
    ASSUME Typed, StreamInv, pc \in {"search", "decode"},
           NEW n \in Nat, n \notin hurt, At[1] = n * FrameLen
    PROVE  /\ Starts(EncodedBytes) /\ Unbroken(EncodedBytes) /\ Clean(EncodedBytes)
           /\ Syncs(EncodedBytes, FrameLen) = {0} /\ Syncs(EncodedBytes, ShortLen) = {0}
<1> DEFINE s == At[1]
<1>1. /\ FrameLen \in Nat \ {0} /\ \A i \in 1..FrameLen : At[i] = EncodedBytes[i].at
      /\ s \in Nat
  <2>1. /\ FrameLen \in Nat \ {0} /\ Waiting \in Nat
        /\ \A i \in 1..FrameLen : At[i] = EncodedBytes[i].at
        /\ \A i \in 1..Waiting + 1 : At[i] \in Nat
    BY BlockAt
  <2>2. 1 \in 1..Waiting + 1
    BY <2>1
  <2> QED
    BY <2>1, <2>2
<1>2. Undamaged(At[1], At[1] + FrameLen - 1)
  BY OneFrame
<1>3. /\ \A i \in 1..FrameLen : EncodedBytes[i].at = At[1] + i - 1 /\ EncodedBytes[i].ok
      /\ Unbroken(EncodedBytes) /\ Clean(EncodedBytes)
  BY <1>2, BlockDense
<1>4. ASSUME NEW i \in 1..FrameLen
      PROVE  EncodedBytes[i].at % FrameLen = i - 1
  <2> DEFINE a == s + i - 1
  <2>1. a \in Nat /\ s <= a /\ a < s + FrameLen /\ a - s = i - 1 /\ s = n * FrameLen
    BY <1>1
  <2>2. EncodedBytes[i].at = a
    BY <1>3
  <2> HIDE DEF a, s
  <2>3. a % FrameLen = a - s
    BY <2>1, InFrame
  <2> QED
    BY <2>1, <2>2, <2>3
<1>5. Starts(EncodedBytes)
  <2>1. 1 \in 1..FrameLen /\ 1 - 1 = 0
    BY <1>1
  <2> QED
    BY <1>4, <2>1 DEF Starts
<1>6. ASSUME NEW len \in {ShortLen, FrameLen}
      PROVE  Syncs(EncodedBytes, len) = {0}
  <2>1. len \in Nat /\ SyncLen \in Nat \ {0} /\ SyncLen <= len /\ len <= FrameLen
    BY ConstantFacts
  <2>2. ASSUME NEW q \in 0..len - SyncLen, SyncAt(EncodedBytes, q)
        PROVE  q = 0
    <3>1. 1 \in 1..SyncLen /\ q + 1 \in 1..FrameLen /\ 1 - 1 = 0 /\ (q + 1) - 1 = q
      BY <1>1, <2>1
    <3>2. EncodedBytes[q + 1].at % FrameLen = 0
      BY <2>2, <3>1 DEF SyncAt
    <3> QED
      BY <1>4, <3>1, <3>2
  <2>3. SyncAt(EncodedBytes, 0)
    <3> SUFFICES ASSUME NEW i \in 1..SyncLen
                 PROVE  /\ EncodedBytes[0 + i].ok
                        /\ EncodedBytes[0 + i].at % FrameLen = i - 1
                        /\ EncodedBytes[0 + i].at = EncodedBytes[0 + 1].at + i - 1
      BY DEF SyncAt
    <3>1. i \in 1..FrameLen /\ 0 + i = i /\ 0 + 1 = 1 /\ 1 \in 1..FrameLen
      BY <1>1, <2>1
    <3> QED
      BY <1>1, <1>3, <1>4, <3>1
  <2>4. 0 \in 0..len - SyncLen
    BY <2>1
  <2> QED
    BY <2>2, <2>3, <2>4 DEF Syncs
<1> QED
  BY <1>3, <1>5, <1>6

(* In a block that begins inside an undamaged frame, before another, the   *)
(* only sync word is the other's.                                          *)
LEMMA SyncsInside ==
    ASSUME Typed, StreamInv, pc \in {"search", "decode"},
           NEW n \in Nat, n \notin hurt, n + 1 \notin hurt,
           NEW s, s = n * FrameLen, s < At[1], At[1] < s + FrameLen
    PROVE  /\ Unbroken(EncodedBytes) /\ Clean(EncodedBytes)
           /\ \A q \in Syncs(EncodedBytes, FrameLen) : At[1 + q] = s + FrameLen
<1> DEFINE y == At[1]
<1>1. /\ FrameLen \in Nat \ {0} /\ \A i \in 1..FrameLen : At[i] = EncodedBytes[i].at
      /\ y \in Nat /\ s \in Nat
  <2>1. /\ FrameLen \in Nat \ {0} /\ Waiting \in Nat
        /\ \A i \in 1..FrameLen : At[i] = EncodedBytes[i].at
        /\ \A i \in 1..Waiting + 1 : At[i] \in Nat
    BY BlockAt
  <2>2. 1 \in 1..Waiting + 1
    BY <2>1
  <2>3. n * FrameLen \in Nat
    BY <2>1
  <2> QED
    BY <2>1, <2>2, <2>3
<1>2. Undamaged(At[1], At[1] + FrameLen - 1)
  <2>1. Undamaged(s, s + 2 * FrameLen - 1)
    BY TwoFrames
  <2>2. \A a \in y..y + FrameLen - 1 : a \in s..s + 2 * FrameLen - 1
    <3> HIDE DEF y
    <3>1. s < y /\ y < s + FrameLen
      BY DEF y
    <3> QED
      BY <1>1, <3>1
  <2> QED
    BY <2>1, <2>2 DEF Undamaged
<1>3. /\ \A i \in 1..FrameLen : EncodedBytes[i].at = y + i - 1 /\ EncodedBytes[i].ok
      /\ Unbroken(EncodedBytes) /\ Clean(EncodedBytes)
  BY <1>2, BlockDense
<1>4. s < y /\ y < s + FrameLen
  OBVIOUS
<1> HIDE DEF y
<1>5. ASSUME NEW q \in Syncs(EncodedBytes, FrameLen)
      PROVE  At[1 + q] = s + FrameLen
  <2>1. q \in 0..FrameLen - SyncLen /\ SyncLen \in Nat \ {0} /\ SyncAt(EncodedBytes, q)
    BY ConstantFacts DEF Syncs
  <2>2. 1 \in 1..SyncLen /\ q + 1 \in 1..FrameLen /\ 1 - 1 = 0 /\ 1 + q = q + 1
    BY <1>1, <2>1
  <2> DEFINE a == y + q
  <2>3. EncodedBytes[q + 1].at = a /\ EncodedBytes[q + 1].at % FrameLen = 0 /\ a \in Nat
    <3>1. y + (q + 1) - 1 = a /\ a \in Nat
      BY <1>1, <2>1
    <3>2. EncodedBytes[q + 1].at % FrameLen = 0
      BY <2>1, <2>2 DEF SyncAt
    <3> QED
      BY <1>3, <2>2, <3>1, <3>2
  <2>4. s < a /\ a < s + 2 * FrameLen
    BY <1>1, <1>4, <2>1
  <2>5. At[1 + q] = a
    BY <1>1, <2>2, <2>3
  <2>6. a % FrameLen = 0
    BY <2>3
  <2> HIDE DEF a
  <2>7. CASE a < s + FrameLen
    <3>1. a % FrameLen = a - s
      BY <2>3, <2>4, <2>7, InFrame
    <3> QED
      BY <1>1, <2>3, <2>4, <2>6, <3>1
  <2>8. CASE a >= s + FrameLen
    <3> DEFINE t == s + FrameLen
    <3>1. t = (n + 1) * FrameLen /\ n + 1 \in Nat
      BY <1>1
    <3>2. t \in Nat /\ t <= a /\ a < t + FrameLen
      BY <1>1, <2>3, <2>4, <2>8
    <3> HIDE DEF t
    <3>3. a % FrameLen = a - t
      BY <2>3, <3>1, <3>2, InFrame
    <3>4. a = t
      BY <2>3, <2>6, <3>2, <3>3
    <3> QED
      BY <2>5, <3>4 DEF t
  <2> QED
    BY <1>1, <2>3, <2>7, <2>8
<1> QED
  BY <1>3, <1>5
-----------------------------------------------------------------------------
(* SyncInv and the steps that leave the frames they find alone. *)

(* Undamaged frame n was passed on, or is about to be. *)
PassedOn(n) ==
    \/ n \in sentOn
    \/ pc = "send" /\ heap[RSCorrectedData] = [from |-> n * FrameLen, good |-> TRUE]

(* The bounds of a frame. *)
LEMMA FrameBounds ==
    ASSUME NEW n \in Nat
    PROVE  /\ n * FrameLen \in Nat /\ (n + 1) * FrameLen = n * FrameLen + FrameLen
           /\ FrameLen \in Nat \ {0}
BY ConstantFacts

(* SyncInv, for one frame. *)
SyncAtFrame(n) ==
    /\ n >= 1 /\ {n - 1, n} \cap hurt = {} /\ Inside(At[1], n) /\ ~Aligned => ~lastFrameOk
    /\ n >= 2 /\ (n - 2..n) \cap hurt = {} =>
          /\ ~Inside(At[1], n)
          /\ Aligned => ~Inside(At[1], n - 1)
          /\ At[1] >= (n + 1) * FrameLen => PassedOn(n)

(* Frame by frame. *)
LEMMA SyncFrames ==
    SyncInv <=> (~split => \A n \in 0..LastSymbol \div FrameLen : SyncAtFrame(n))
BY DEF SyncInv, SyncAtFrame, PassedOn

(* When only damaged symbols leave, the first one that waits does not      *)
(* enter an undamaged frame anywhere but at its start, and does not pass   *)
(* one.                                                                    *)
LEMMA SkipDamaged ==
    ASSUME NEW y \in Nat, NEW z \in Nat, y <= z, NEW n \in Nat, NEW h, n \notin h,
           \A a \in y..z - 1 : a \div FrameLen \in h
    PROVE  /\ Inside(z, n) => Inside(y, n)
           /\ z >= (n + 1) * FrameLen => y >= (n + 1) * FrameLen
<1> DEFINE s == n * FrameLen
           t == (n + 1) * FrameLen
<1>1. s \in Nat /\ t = s + FrameLen /\ FrameLen \in Nat \ {0}
  BY FrameBounds
<1>2. ASSUME NEW a \in y..z - 1 PROVE ~(s <= a /\ a < s + FrameLen)
  <2>1. a \in Nat
    OBVIOUS
  <2>2. s <= a /\ a < s + FrameLen => a \div FrameLen = n
    BY <2>1, InFrame
  <2> QED
    BY <2>2
<1> HIDE DEF s, t
<1>3. s < z /\ z < t => s < y /\ y < t
  <2>1. CASE y <= s /\ s < z
    <3>1. s \in y..z - 1
      BY <1>1, <2>1
    <3> QED
      BY <1>1, <1>2, <3>1
  <2> QED
    BY <1>1, <2>1
<1>4. z >= t => y >= t
  <2>1. CASE y < t /\ z >= t
    <3> DEFINE a == t - 1
    <3>1. a \in y..z - 1 /\ s <= a /\ a < s + FrameLen
      BY <1>1, <2>1
    <3> HIDE DEF a
    <3> QED
      BY <1>2, <3>1
  <2> QED
    BY <1>1, <2>1
<1> QED
  BY <1>3, <1>4 DEF Inside, s, t

(* SyncInv outlives a step after which no symbol is missing that was not   *)
(* damaged.                                                                *)
LEMMA SyncSkip ==
    ASSUME SyncInv, At[1] \in Nat, At'[1] \in Nat, At[1] <= At'[1], hurt \subseteq hurt',
           \A a \in At[1]..At'[1] - 1 : a \div FrameLen \in hurt',
           UNCHANGED <<split, lastFrameOk>>, Aligned' <=> Aligned,
           \A n \in Nat : PassedOn(n) => PassedOn(n)'
    PROVE  SyncInv'
<1> SUFFICES ASSUME ~split, NEW n \in 0..LastSymbol \div FrameLen
             PROVE  SyncAtFrame(n)'
  BY DEF SyncInv, SyncAtFrame, PassedOn
<1>1. n \in Nat
  <2>1. LastSymbol \div FrameLen \in Nat
    BY ConstantFacts, FrameNumber
  <2> QED
    BY <2>1
<1>2. SyncAtFrame(n)
  BY SyncFrames
<1>3. ASSUME n >= 1, {n - 1, n} \cap hurt' = {}, Inside(At'[1], n), ~Aligned
      PROVE  ~lastFrameOk
  <2>1. n \notin hurt' /\ {n - 1, n} \cap hurt = {}
    BY <1>3
  <2>2. Inside(At[1], n)
    BY <1>1, <1>3, <2>1, SkipDamaged
  <2> QED
    BY <1>2, <1>3, <2>1, <2>2 DEF SyncAtFrame
<1>4. ASSUME n >= 2, (n - 2..n) \cap hurt' = {}
      PROVE  /\ ~Inside(At'[1], n)
             /\ Aligned => ~Inside(At'[1], n - 1)
             /\ At'[1] >= (n + 1) * FrameLen => PassedOn(n)'
  <2>1. n \in n - 2..n /\ n - 1 \in n - 2..n /\ n - 1 \in Nat
    BY <1>1, <1>4
  <2>2. n \notin hurt' /\ n - 1 \notin hurt' /\ (n - 2..n) \cap hurt = {}
    BY <1>4, <2>1
  <2>3. /\ Inside(At'[1], n) => Inside(At[1], n)
        /\ At'[1] >= (n + 1) * FrameLen => At[1] >= (n + 1) * FrameLen
    BY <1>1, <2>2, SkipDamaged
  <2>4. Inside(At'[1], n - 1) => Inside(At[1], n - 1)
    <3> DEFINE m == n - 1
    <3>1. m \in Nat /\ m \notin hurt'
      BY <2>1, <2>2
    <3> HIDE DEF m
    <3>2. Inside(At'[1], m) => Inside(At[1], m)
      BY <3>1, SkipDamaged
    <3> QED
      BY <3>2 DEF m
  <2>5. /\ ~Inside(At[1], n)
        /\ Aligned => ~Inside(At[1], n - 1)
        /\ At[1] >= (n + 1) * FrameLen => PassedOn(n)
    BY <1>2, <1>4, <2>2 DEF SyncAtFrame
  <2> QED
    BY <1>1, <2>3, <2>4, <2>5
<1> QED
  BY <1>3, <1>4 DEF SyncAtFrame, Inside

(* SyncInv is preserved by the demodulator, and while EncodedBytes is      *)
(* filled.                                                                 *)
LEMMA SyncStream ==
    ASSUME Typed, StreamInv, SyncInv,
           \/ \E ok \in BOOLEAN : SendSymbol(ok)
           \/ \E n \in 1..FrameLen : LoseSymbols(n)
           \/ Poll \/ ReceiveSymbol
    PROVE  SyncInv'
<1>1. At[1] <= At'[1] /\ At[1] \in Nat /\ At'[1] \in Nat
  <2>1. Next
    BY DEF Next, DecoderStep
  <2> QED
    BY <2>1, FirstGrows
<1>2. UNCHANGED <<split, lastFrameOk, sentOn, RSCorrectedData, heap>>
      /\ (pc' = "send" <=> pc = "send")
  BY DEF SendSymbol, LoseSymbols, Poll, ReceiveSymbol, decoder, Outside, Locking, Passing
<1>3. Aligned' <=> Aligned
  BY DEF SendSymbol, LoseSymbols, Poll, ReceiveSymbol, Aligned
<1>4. \A n \in Nat : PassedOn(n) => PassedOn(n)'
  BY <1>2 DEF PassedOn
<1>5. hurt \subseteq hurt' /\ \A a \in At[1]..At'[1] - 1 : a \div FrameLen \in hurt'
  <2>1. CASE \E ok \in BOOLEAN : SendSymbol(ok)
    <3>1. At'[1] = At[1]
      BY <2>1, SendFirst
    <3>2. hurt \subseteq hurt'
      BY <2>1 DEF SendSymbol
    <3> QED
      BY <1>1, <3>1, <3>2
  <2>2. ASSUME NEW n \in 1..FrameLen, LoseSymbols(n)
        PROVE  hurt \subseteq hurt' /\ \A a \in At[1]..At'[1] - 1 : a \div FrameLen \in hurt'
    <3>1. hurt' = hurt \cup {k \div FrameLen : k \in sent..sent + n - 1}
      BY <2>2 DEF LoseSymbols
    <3>2. At'[1] = At[1] \/ (At[1] = sent /\ At'[1] = sent + n)
      BY <2>2, LoseFirst
    <3> QED
      BY <1>1, <3>1, <3>2
  <2>3. CASE Poll
    <3>1. UNCHANGED <<sent, EncodedBytes, SymbolsInput, hurt>>
      BY <2>3 DEF Poll, Outside, demod, decoder
    <3>2. Waiting' = Waiting
      BY <3>1 DEF Waiting
    <3>3. At' = At
      BY <3>1, <3>2 DEF At
    <3> QED
      BY <1>1, <3>1, <3>3
  <2>4. CASE ReceiveSymbol
    <3>1. Waiting \in Nat /\ (\A i \in 1..Waiting + 1 : At'[i] = At[i]) /\ hurt' = hurt
      BY <2>4, ReceiveAt
    <3>2. At'[1] = At[1]
      BY <3>1
    <3> QED
      BY <1>1, <3>1, <3>2
  <2> QED
    BY <2>1, <2>2, <2>3, <2>4
<1> QED
  BY <1>1, <1>2, <1>3, <1>4, <1>5, SyncSkip

(* SyncInv is preserved while frames are passed on, by the transport       *)
(* layer, and by flushing.                                                 *)
LEMMA SyncRest ==
    ASSUME Typed, StreamInv, SyncInv,
           SendFrame \/ clearBuffers \/ TransportStep \/ FlushStep \/ UNCHANGED vars
    PROVE  SyncInv'
<1>1. At[1] <= At'[1] /\ At[1] \in Nat /\ At'[1] \in Nat
  <2>1. [Next]_vars
    BY DEF Next, DecoderStep, FlushStep
  <2> QED
    BY <2>1, FirstGrows
<1>2. UNCHANGED <<split, lastFrameOk>>
  BY DEF SendFrame, clearBuffers, TransportStep, ReceiveFrame, ReadFrame, FlushStep, StartFlush,
         TestLength, FlushSymbol, FlushFrame, Reset, Flushing, vars, decoder, Locking
<1>3. Aligned' <=> Aligned
  BY DEF SendFrame, clearBuffers, TransportStep, ReceiveFrame, ReadFrame, FlushStep, StartFlush,
         TestLength, FlushSymbol, FlushFrame, Reset, Flushing, vars, Aligned
<1>4. ASSUME NEW n \in Nat, PassedOn(n)
      PROVE  PassedOn(n)'
  <2>1. CASE SendFrame
    <3>1. /\ pc = "send"
          /\ sentOn' = IF heap[RSCorrectedData].good
                       THEN sentOn \cup {heap[RSCorrectedData].from \div FrameLen} ELSE sentOn
      BY <2>1 DEF SendFrame
    <3>2. CASE heap[RSCorrectedData] = [from |-> n * FrameLen, good |-> TRUE]
      <4> DEFINE s == n * FrameLen
      <4>1. s \in Nat /\ s < s + FrameLen
        BY FrameBounds
      <4>2. heap[RSCorrectedData].good /\ heap[RSCorrectedData].from = s
        BY <3>2
      <4> HIDE DEF s
      <4>3. s \div FrameLen = n
        <5>1. s = n * FrameLen /\ s <= s
          BY <4>1 DEF s
        <5> QED
          BY <4>1, <5>1, InFrame
      <4> QED
        BY <3>1, <4>2, <4>3 DEF PassedOn
    <3> QED
      BY <1>4, <3>1, <3>2 DEF PassedOn
  <2>2. CASE clearBuffers
    BY <1>4, <2>2 DEF clearBuffers, PassedOn
  <2>3. CASE TransportStep \/ FlushStep \/ UNCHANGED vars
    <3>1. UNCHANGED <<sentOn, heap, pc, RSCorrectedData>>
      BY <2>3 DEF TransportStep, ReceiveFrame, ReadFrame, FlushStep, StartFlush,
                  TestLength, FlushSymbol, FlushFrame, Reset, Flushing, vars, decoder
    <3> QED
      BY <1>4, <3>1 DEF PassedOn
  <2> QED
    BY <2>1, <2>2, <2>3
<1>5. hurt \subseteq hurt' /\ \A a \in At[1]..At'[1] - 1 : a \div FrameLen \in hurt'
  <2>1. CASE FlushSymbol
    <3>1. /\ Waiting \in Nat \ {0} /\ Len(EncodedBytes) \in Nat
          /\ \A i \in 1..Len(EncodedBytes) : At'[i] = At[i]
          /\ \A i \in Len(EncodedBytes) + 1..Waiting : At'[i] = At[i + 1]
          /\ hurt' = hurt \cup {At[Len(EncodedBytes) + 1] \div FrameLen}
      BY <2>1, FlushAt
    <3>2. CASE Len(EncodedBytes) = 0
      <4>1. At'[1] = At[1 + 1] /\ hurt' = hurt \cup {At[1] \div FrameLen} /\ 1 \in 1..Waiting
        BY <3>1, <3>2
      <4>2. \A a \in At[1] + 1..At[1 + 1] - 1 : a \div FrameLen \in hurt
        BY <4>1 DEF StreamInv
      <4>3. \A a \in At[1]..At[1 + 1] - 1 : a = At[1] \/ a \in At[1] + 1..At[1 + 1] - 1
        BY <1>1, <4>1
      <4> QED
        BY <4>1, <4>2, <4>3
    <3>3. CASE Len(EncodedBytes) # 0
      <4>1. At'[1] = At[1]
        BY <3>1, <3>3
      <4> QED
        BY <1>1, <3>1, <4>1
    <3> QED
      BY <3>2, <3>3
  <2>2. CASE ~FlushSymbol
    <3>1. UNCHANGED <<sent, EncodedBytes, SymbolsInput, hurt>>
      BY <2>2 DEF SendFrame, clearBuffers, TransportStep, ReceiveFrame, ReadFrame, FlushStep,
                  StartFlush, TestLength, FlushFrame, Reset, Flushing, vars, demod, decoder
    <3>2. Waiting' = Waiting
      BY <3>1 DEF Waiting
    <3>3. At' = At
      BY <3>1, <3>2 DEF At
    <3> QED
      BY <1>1, <3>1, <3>3
  <2> QED
    BY <2>1, <2>2
<1> QED
  BY <1>1, <1>2, <1>3, <1>4, <1>5, SyncSkip
-----------------------------------------------------------------------------
(* What a search finds, and where the next block begins. *)

(* Three undamaged frames in a row. *)
LEMMA ThreeFrames ==
    ASSUME NEW n \in Nat, n >= 2, (n - 2..n) \cap hurt = {}
    PROVE  /\ n - 1 \in Nat /\ n - 2 \in Nat
           /\ n \notin hurt /\ n - 1 \notin hurt /\ n - 2 \notin hurt
           /\ n * FrameLen \in Nat /\ (n - 1) * FrameLen \in Nat /\ (n - 2) * FrameLen \in Nat
           /\ (n + 1) * FrameLen = n * FrameLen + FrameLen
           /\ n * FrameLen = (n - 1) * FrameLen + FrameLen
           /\ (n - 1) * FrameLen = (n - 2) * FrameLen + FrameLen
<1> DEFINE l == n - 1
           k == n - 2
<1>1. l \in Nat /\ k \in Nat /\ n = l + 1 /\ l = k + 1
  OBVIOUS
<1>2. n \in n - 2..n /\ l \in n - 2..n /\ k \in n - 2..n
  OBVIOUS
<1>3. n \notin hurt /\ l \notin hurt /\ k \notin hurt
  BY <1>2
<1> HIDE DEF l, k
<1>4. n * FrameLen \in Nat /\ (n + 1) * FrameLen = n * FrameLen + FrameLen
  BY FrameBounds
<1>5. l * FrameLen \in Nat /\ (l + 1) * FrameLen = l * FrameLen + FrameLen
  BY <1>1, FrameBounds
<1>6. k * FrameLen \in Nat /\ (k + 1) * FrameLen = k * FrameLen + FrameLen
  BY <1>1, FrameBounds
<1> QED
  BY <1>1, <1>3, <1>4, <1>5, <1>6 DEF l, k

(* An undamaged frame that starts the block is found at once. *)
LEMMA SearchFront ==
    ASSUME Typed, StreamInv, pc = "search", NEW r \in SearchResults,
           NEW n \in Nat, n \notin hurt, At[1] = n * FrameLen
    PROVE  r.c.enough /\ r.c.pos = 0
<1>1. Syncs(EncodedBytes, FrameLen) = {0} /\ Syncs(EncodedBytes, ShortLen) = {0}
  BY SyncsAtFront
<1>2. r.c \in Correlations(EncodedBytes, FrameLen) \/ r.c \in Correlations(EncodedBytes, ShortLen)
  BY SearchFacts
<1>3. r.c \in [enough : {TRUE}, pos : {0}]
  BY <1>1, <1>2 DEF Correlations
<1> QED
  BY <1>3

(* A whole search of a block that begins inside an undamaged frame finds   *)
(* the next one, unless its sync word is split.                            *)
LEMMA SearchInside ==
    ASSUME Typed, StreamInv, pc = "search", NEW r \in SearchResults, r.whole,
           checkIfFrameLocked(r), ~split',
           NEW n \in Nat, n \notin hurt, n + 1 \notin hurt,
           n * FrameLen < At[1], At[1] < n * FrameLen + FrameLen
    PROVE  r.c.enough /\ At[1 + r.c.pos] = n * FrameLen + FrameLen
<1> DEFINE s == n * FrameLen
<1>1. s = n * FrameLen /\ s < At[1] /\ At[1] < s + FrameLen
  OBVIOUS
<1> HIDE DEF s
<1>2. /\ Unbroken(EncodedBytes) /\ Clean(EncodedBytes)
      /\ \A q \in Syncs(EncodedBytes, FrameLen) : At[1 + q] = s + FrameLen
  BY <1>1, SyncsInside
<1>3. Syncs(EncodedBytes, FrameLen) # {}
  BY <1>2 DEF checkIfFrameLocked
<1>4. r.c \in Correlations(EncodedBytes, FrameLen)
  BY SearchFacts
<1>5. r.c \in [enough : {TRUE}, pos : Syncs(EncodedBytes, FrameLen)]
  BY <1>3, <1>4 DEF Correlations
<1>6. r.c.enough /\ r.c.pos \in Syncs(EncodedBytes, FrameLen)
  BY <1>5
<1> QED
  BY <1>1, <1>2, <1>6

(* A block that begins before an undamaged frame ends before that one      *)
(* does.                                                                   *)
LEMMA EndsBefore ==
    ASSUME Typed, StreamInv, pc \in {"search", "decode"},
           NEW n \in Nat, n \notin hurt, At[1] < n * FrameLen
    PROVE  At[1 + FrameLen] < n * FrameLen + FrameLen
<1> DEFINE c == n * FrameLen
<1>1. c \in Nat /\ At[1] < c /\ FrameLen \in 0..Waiting
  BY FrameBounds, BlockAt
<1>2. Undamaged(c, c + FrameLen - 1)
  BY OneFrame
<1> HIDE DEF c
<1>3. At[1 + FrameLen] < c + FrameLen
  BY <1>1, <1>2, Cross
<1> QED
  BY <1>3 DEF c

(* Nor does one shifted by less than a frame leave it behind, if it begins *)
(* at the start of that frame.                                             *)
LEMMA ShiftBefore ==
    ASSUME Typed, StreamInv, pc \in {"search", "decode"},
           NEW n \in Nat, n \notin hurt, At[1] <= n * FrameLen,
           NEW p \in Nat, p < FrameLen
    PROVE  At[1 + p] < n * FrameLen + FrameLen
<1> DEFINE s == n * FrameLen
           c == s + 1
<1>1. /\ s \in Nat /\ s = n * FrameLen /\ FrameLen \in Nat \ {0} /\ FrameLen \in 0..Waiting
      /\ Waiting \in Nat
  BY FrameBounds, BlockAt
<1>2. \A i \in 1..Waiting + 1 : At[i] \in Nat
  BY BlockAt
<1>3. At[1] <= s
  OBVIOUS
<1>4. Undamaged(s, s + FrameLen - 1)
  BY OneFrame
<1> HIDE DEF s
<1>5. 1 \in 1..Waiting + 1 /\ 1 + p \in 1..Waiting + 1 /\ p \in 0..Waiting
  BY <1>1
<1>6. At[1] \in Nat /\ At[1 + p] \in Nat
  BY <1>2, <1>5
<1>7. Undamaged(c, c + p - 1)
  <2>1. \A a \in c..c + p - 1 : a \in s..s + FrameLen - 1
    BY <1>1
  <2> QED
    BY <1>4, <2>1 DEF Undamaged
<1>8. c \in Nat /\ At[1] < c
  BY <1>1, <1>3, <1>6
<1>9. At[1 + p] < c + p
  <2> HIDE DEF c
  <2> QED
    BY <1>5, <1>7, <1>8, Cross
<1>10. At[1 + p] < s + FrameLen
  BY <1>1, <1>6, <1>9
<1> QED
  BY <1>10 DEF s

(* The next block begins behind what is dropped. *)
LEMMA NextBlock ==
    ASSUME Typed, StreamInv, pc \in {"search", "decode"}, [Next]_vars,
           NEW k \in 0..FrameLen, Dropped(k)
    PROVE  /\ At'[1] = At[1 + k] /\ At[1] <= At'[1]
           /\ At[1] \in Nat /\ At'[1] \in Nat
<1>1. FrameLen \in 0..Waiting /\ Waiting \in Nat /\ FrameLen \in Nat
  BY BlockAt
<1>2. 1 \in 1..Waiting - k + 1
  BY <1>1
<1> QED
  BY <1>2, FirstGrows DEF Dropped

(* Frames are numbered up to the last one. *)
LEMMA EarlierFrame ==
    ASSUME NEW n \in 0..LastSymbol \div FrameLen
    PROVE  /\ n \in Nat
           /\ n >= 2 => n - 1 \in 0..LastSymbol \div FrameLen
<1>1. LastSymbol \div FrameLen \in Nat
  BY ConstantFacts, FrameNumber
<1> QED
  BY <1>1

(* A search out of lock is a whole one; a block that begins behind an      *)
(* undamaged frame, inside the next, is searched out of lock.              *)
LEMMA WholeSearch ==
    ASSUME pc = "search", NEW r \in SearchResults,
           NEW n \in Nat, n >= 1, SyncAtFrame(n), n - 1 \notin hurt, n \notin hurt, Inside(At[1], n)
    PROVE  r.whole
<1>1. ~lastFrameOk
  BY DEF SyncAtFrame, Aligned
<1> QED
  BY <1>1, SearchFacts DEF FullDue

(* SyncInv is preserved when a block is thrown away. *)
LEMMA SyncThrown ==
    ASSUME Typed, StreamInv, SyncInv, pc = "search", NEW r \in SearchResults, NoPacketLock(r)
    PROVE  SyncInv'
<1>1. /\ checkIfFrameLocked(r) /\ ~r.c.enough /\ EncodedBytes' = << >> /\ pc' = "poll"
      /\ UNCHANGED <<SymbolsInput, sent, hurt, sentOn>>
  BY DEF NoPacketLock, Outside, Passing, demod
<1>2. At'[1] = At[1 + FrameLen] /\ At[1] <= At'[1] /\ At[1] \in Nat /\ At'[1] \in Nat
  <2>1. Next /\ Typed'
    BY TypedSearch DEF Next, DecoderStep
  <2>2. Len(EncodedBytes) = FrameLen /\ FrameLen \in 0..FrameLen
    BY ConstantFacts DEF Typed, TypeOK
  <2>3. Dropped(FrameLen)
    BY <1>1, <2>1, <2>2, BlockDropped
  <2> QED
    BY <2>1, <2>2, <2>3, NextBlock
<1> SUFFICES ASSUME ~split', NEW n \in 0..LastSymbol \div FrameLen
             PROVE  SyncAtFrame(n)'
  BY DEF SyncInv, SyncAtFrame, PassedOn
<1>3. ~split /\ ~lastFrameOk' /\ ~Aligned'
  BY <1>1 DEF checkIfFrameLocked, Aligned
<1>4. ASSUME n >= 2, (n - 2..n) \cap hurt = {}
      PROVE  ~Inside(At'[1], n) /\ (At'[1] >= (n + 1) * FrameLen => n \in sentOn)
  <2> DEFINE y == At[1]
             s == n * FrameLen
             t == (n - 1) * FrameLen
  <2>1. /\ n - 1 \in Nat /\ n \in Nat /\ n \notin hurt /\ n - 1 \notin hurt /\ n - 2 \notin hurt
        /\ s \in Nat /\ t \in Nat /\ s = t + FrameLen /\ (n + 1) * FrameLen = s + FrameLen
        /\ FrameLen \in Nat
    BY <1>4, EarlierFrame, ThreeFrames, ConstantFacts
  <2>2. SyncAtFrame(n) /\ SyncAtFrame(n - 1)
    BY <1>3, <1>4, EarlierFrame, SyncFrames
  <2>3. ~Inside(y, n) /\ (y >= (n + 1) * FrameLen => n \in sentOn)
    BY <1>4, <2>2 DEF SyncAtFrame, PassedOn
  <2>4. y # s
    BY <1>1, <2>1, SearchFront
  <2>5. y # t
    BY <1>1, <2>1, SearchFront
  <2>6. ~(t < y /\ y < s)
    <3> DEFINE l == n - 1
    <3>1. l \in Nat /\ l >= 1 /\ l - 1 = n - 2 /\ l + 1 = n
      BY <1>4, <2>1
    <3> SUFFICES ASSUME t < y, y < s PROVE FALSE
      OBVIOUS
    <3>2. Inside(y, l)
      <4>1. (l + 1) * FrameLen = s
        BY <3>1
      <4> QED
        BY <4>1 DEF Inside
    <3>3. SyncAtFrame(l) /\ l \notin hurt /\ l - 1 \notin hurt /\ l + 1 \notin hurt
      BY <2>1, <2>2, <3>1
    <3>4. l * FrameLen < At[1] /\ At[1] < l * FrameLen + FrameLen
      BY <2>1
    <3> HIDE DEF l, y
    <3>5. r.whole
      BY <3>1, <3>2, <3>3, WholeSearch DEF y
    <3>6. r.c.enough
      BY <1>1, <3>1, <3>3, <3>4, <3>5, SearchInside
    <3> QED
      BY <1>1, <3>6
  <2>7. y < t => At'[1] < s
    <3>1. y < t => At[1 + FrameLen] < t + FrameLen
      BY <2>1, EndsBefore
    <3> QED
      BY <1>2, <2>1, <3>1
  <2> HIDE DEF y, s, t
  <2>8. y \in Nat /\ y <= At'[1] /\ At'[1] \in Nat
    BY <1>2 DEF y
  <2>9. CASE y >= s + FrameLen
    <3>1. At'[1] >= s + FrameLen
      BY <2>1, <2>8, <2>9
    <3> QED
      BY <2>1, <2>3, <2>8, <2>9, <3>1 DEF Inside
  <2>10. CASE y < s + FrameLen
    <3>1. ~(s < y)
      BY <2>1, <2>3, <2>10 DEF Inside, s
    <3>2. y < t
      BY <2>1, <2>4, <2>5, <2>6, <2>8, <3>1
    <3>3. At'[1] < s
      BY <2>7, <3>2
    <3> QED
      BY <2>1, <2>8, <3>3 DEF Inside, s
  <2> QED
    BY <2>1, <2>8, <2>9, <2>10
<1> QED
  BY <1>1, <1>3, <1>4 DEF SyncAtFrame, PassedOn, Inside

(* SyncInv is preserved when a frame is moved to the front.                *)
LEMMA SyncMoved ==
    ASSUME Typed, StreamInv, SyncInv, pc = "search", NEW r \in SearchResults, correlate(r)
    PROVE  SyncInv'
<1> DEFINE p == r.c.pos
<1>1. /\ checkIfFrameLocked(r) /\ pc' \in {"decode", "backfill"}
      /\ UNCHANGED <<SymbolsInput, sent, hurt, sentOn>>
  BY DEF correlate, Outside, Passing, demod
<1>2. /\ At'[1] = At[1 + p] /\ At[1] <= At'[1] /\ At[1] \in Nat /\ At'[1] \in Nat
      /\ p \in Nat /\ p < FrameLen
  <2>1. Next
    BY DEF Next, DecoderStep
  <2>2. Dropped(p) /\ p \in Nat /\ p < FrameLen /\ FrameLen \in Nat
    BY ShiftDropped, ShiftFacts, ConstantFacts
  <2>3. p \in 0..FrameLen
    BY <2>2
  <2> HIDE DEF p
  <2> QED
    BY <2>1, <2>2, <2>3, NextBlock
<1>3. p = 0 => At'[1] = At[1]
  <2>1. 1 + 0 = 1
    OBVIOUS
  <2> QED
    BY <1>2, <2>1
<1>4. ~r.whole => p = 0
  BY SearchFacts
<1> SUFFICES ASSUME ~split', NEW n \in 0..LastSymbol \div FrameLen
             PROVE  SyncAtFrame(n)'
  BY DEF SyncInv, SyncAtFrame, PassedOn
<1>5. ~split /\ Aligned'
  BY <1>1 DEF checkIfFrameLocked, Aligned
<1>6. ASSUME n >= 2, (n - 2..n) \cap hurt = {}
      PROVE  /\ ~Inside(At'[1], n) /\ ~Inside(At'[1], n - 1)
             /\ At'[1] >= (n + 1) * FrameLen => n \in sentOn
  <2> DEFINE y == At[1]
             s == n * FrameLen
             t == (n - 1) * FrameLen
             u == (n - 2) * FrameLen
             z == At'[1]
  <2>1. /\ n - 1 \in Nat /\ n - 2 \in Nat /\ n \in Nat
        /\ n \notin hurt /\ n - 1 \notin hurt /\ n - 2 \notin hurt
        /\ s \in Nat /\ t \in Nat /\ u \in Nat /\ FrameLen \in Nat \ {0}
        /\ (n + 1) * FrameLen = s + FrameLen /\ s = t + FrameLen /\ t = u + FrameLen
    BY <1>6, EarlierFrame, ThreeFrames, ConstantFacts
  <2>2. SyncAtFrame(n) /\ SyncAtFrame(n - 1)
    BY <1>5, <1>6, EarlierFrame, SyncFrames
  <2>3. ~Inside(y, n) /\ (y >= (n + 1) * FrameLen => n \in sentOn)
    BY <1>6, <2>2 DEF SyncAtFrame, PassedOn
  <2>4. y = s => z = s
    BY <1>3, <2>1, SearchFront
  <2>5. y = t => z = t
    BY <1>3, <2>1, SearchFront
  <2>6. t < y /\ y < s => z = s
    <3> DEFINE l == n - 1
    <3>1. l \in Nat /\ l >= 1 /\ l - 1 = n - 2 /\ l + 1 = n
      BY <1>6, <2>1
    <3> SUFFICES ASSUME t < y, y < s PROVE z = s
      OBVIOUS
    <3>2. Inside(y, l)
      <4>1. (l + 1) * FrameLen = s
        BY <3>1
      <4> QED
        BY <4>1 DEF Inside
    <3>3. SyncAtFrame(l) /\ l \notin hurt /\ l - 1 \notin hurt /\ l + 1 \notin hurt
      BY <2>1, <2>2, <3>1
    <3>4. l * FrameLen < At[1] /\ At[1] < l * FrameLen + FrameLen
      BY <2>1
    <3>5. l * FrameLen + FrameLen = s
      BY <2>1
    <3> HIDE DEF l, y, s, z, p
    <3>6. r.whole
      BY <3>1, <3>2, <3>3, WholeSearch DEF y
    <3>7. At[1 + r.c.pos] = l * FrameLen + FrameLen
      BY <1>1, <3>1, <3>3, <3>4, <3>6, SearchInside
    <3> QED
      BY <1>2, <3>5, <3>7 DEF z, p
  <2>7. u < y /\ y < t => z = t \/ z = y
    <3> DEFINE k == n - 2
    <3>1. k \in Nat /\ k + 1 = n - 1 /\ k \notin hurt /\ k + 1 \notin hurt
      BY <1>6, <2>1
    <3> SUFFICES ASSUME u < y, y < t, r.whole PROVE z = t
      BY <1>3, <1>4
    <3>2. k * FrameLen < At[1] /\ At[1] < k * FrameLen + FrameLen /\ k * FrameLen + FrameLen = t
      BY <2>1
    <3> HIDE DEF k, y, t, z, p
    <3>3. At[1 + r.c.pos] = k * FrameLen + FrameLen
      BY <1>1, <3>1, <3>2, SearchInside
    <3> QED
      BY <1>2, <3>2, <3>3 DEF z, p
  <2>8. y <= u => z < t
    <3> DEFINE k == n - 2
    <3>1. k \in Nat /\ k \notin hurt /\ u = k * FrameLen
      BY <2>1
    <3> SUFFICES ASSUME At[1] <= k * FrameLen PROVE z < t
      BY <3>1
    <3> HIDE DEF k, p
    <3>2. At[1 + p] < k * FrameLen + FrameLen
      BY <1>2, <3>1, ShiftBefore
    <3> QED
      BY <1>2, <2>1, <3>1, <3>2
  <2>9. y \in Nat /\ y <= z /\ z \in Nat
    BY <1>2
  <2>10. /\ Inside(z, n) <=> s < z /\ z < s + FrameLen
         /\ Inside(z, n - 1) <=> t < z /\ z < s
         /\ Inside(y, n) <=> s < y /\ y < s + FrameLen
    <3>1. ((n - 1) + 1) * FrameLen = s
      <4>1. (n - 1) + 1 = n
        BY <2>1
      <4> QED
        BY <4>1
    <3> QED
      BY <2>1, <3>1 DEF Inside
  <2> HIDE DEF y, s, t, u, z
  <2>11. /\ ~(s < z /\ z < s + FrameLen) /\ ~(t < z /\ z < s)
         /\ z >= s + FrameLen => y >= s + FrameLen
    BY <2>1, <2>3, <2>4, <2>5, <2>6, <2>7, <2>8, <2>9, <2>10
  <2> QED
    BY <2>1, <2>3, <2>10, <2>11 DEF z
<1> QED
  BY <1>1, <1>5, <1>6 DEF SyncAtFrame, PassedOn, Inside

(* Decoding begins the next block.                                         *)
LEMMA SyncDecoded ==
    ASSUME Typed, StreamInv, SyncInv, errorCorrectPacket
    PROVE  SyncInv'
<1>1. PICK d \in Decodings(EncodedBytes) :
          /\ heap' = [heap EXCEPT ![RSCorrectedData] =
                         [from |-> EncodedBytes[1].at, good |-> d.good]]
          /\ lastFrameOk' = d.corrected
          /\ pc' = IF d.corrected THEN "send" ELSE "clear"
  BY DEF errorCorrectPacket
<1>2. /\ pc = "decode" /\ EncodedBytes' = << >>
      /\ UNCHANGED <<SymbolsInput, sent, hurt, sentOn, split, RSCorrectedData>>
  BY DEF errorCorrectPacket, Passing, demod
<1>3. At'[1] = At[1 + FrameLen] /\ At[1] <= At'[1] /\ At[1] \in Nat /\ At'[1] \in Nat
  <2>1. Next /\ Typed'
    BY TypedDecode DEF Next, DecoderStep
  <2>2. Len(EncodedBytes) = FrameLen /\ FrameLen \in 0..FrameLen
    BY <1>2, ConstantFacts DEF Typed, TypeOK
  <2>3. Dropped(FrameLen)
    BY <1>2, <2>1, <2>2, BlockDropped
  <2> QED
    BY <1>2, <2>1, <2>2, <2>3, NextBlock
<1>4. At[1] + FrameLen <= At'[1] /\ EncodedBytes[1].at = At[1]
  <2>1. /\ FrameLen \in Nat \ {0} /\ FrameLen \in 0..Waiting /\ Waiting \in Nat
        /\ \A i \in 1..FrameLen : At[i] = EncodedBytes[i].at
    BY <1>2, BlockAt
  <2>2. 1 \in 1..Waiting + 1 /\ 1 + FrameLen \in 1..Waiting + 1 /\ 1 < 1 + FrameLen
        /\ (1 + FrameLen) - 1 = FrameLen /\ 1 \in 1..FrameLen
    BY <2>1
  <2>3. At[1] + ((1 + FrameLen) - 1) <= At[1 + FrameLen]
    BY <2>2 DEF StreamInv
  <2> QED
    BY <1>3, <2>1, <2>2, <2>3
<1> SUFFICES ASSUME ~split, NEW n \in 0..LastSymbol \div FrameLen
             PROVE  SyncAtFrame(n)'
  BY <1>2 DEF SyncInv, SyncAtFrame, PassedOn
<1>5. n \in Nat /\ SyncAtFrame(n) /\ Aligned /\ ~Aligned'
  BY <1>1, <1>2, EarlierFrame, SyncFrames DEF Aligned
<1>6. ASSUME n >= 1, n - 1 \notin hurt, n \notin hurt, Inside(At'[1], n)
      PROVE  Inside(At[1], n - 1) /\ ~d.corrected
  <2> DEFINE l == n - 1
             t == l * FrameLen
             s == n * FrameLen
             y == At[1]
             z == At'[1]
  <2>1. l \in Nat /\ l + 1 = n /\ l \notin hurt /\ l + 1 \notin hurt
    BY <1>5, <1>6
  <2>2. t \in Nat /\ (l + 1) * FrameLen = t + FrameLen /\ FrameLen \in Nat \ {0}
    <3> HIDE DEF l
    <3> QED
      BY <2>1, FrameBounds
  <2>3. s = t + FrameLen /\ (n + 1) * FrameLen = s + FrameLen /\ s \in Nat
    <3>1. s = (l + 1) * FrameLen
      BY <2>1
    <3>2. s \in Nat /\ (n + 1) * FrameLen = s + FrameLen
      BY <1>5, FrameBounds
    <3> HIDE DEF s, t
    <3> QED
      BY <2>2, <3>1, <3>2
  <2>4. s < z /\ z < s + FrameLen
    BY <1>6, <2>3 DEF Inside
  <2>5. y < t => z < t + FrameLen
    <3> HIDE DEF l
    <3>1. At[1] < l * FrameLen => At[1 + FrameLen] < l * FrameLen + FrameLen
      BY <1>2, <2>1, EndsBefore
    <3> QED
      BY <1>3, <3>1
  <2>6. y = t => z = t + FrameLen
    <3> SUFFICES ASSUME y = t PROVE z = t + FrameLen
      OBVIOUS
    <3>1. Undamaged(t, t + 2 * FrameLen - 1)
      <4> HIDE DEF l
      <4> QED
        BY <2>1, TwoFrames
    <3>2. \A a \in y + 1..y + FrameLen : a \in t..t + 2 * FrameLen - 1
      <4>1. y = t
        OBVIOUS
      <4> HIDE DEF y, t
      <4> QED
        BY <2>2, <4>1
    <3>3. Undamaged(At[1] + 1, At[1] + FrameLen)
      BY <3>1, <3>2 DEF Undamaged
    <3>4. FrameLen \in 0..Waiting
      BY <1>2, BlockAt
    <3>5. At[1 + FrameLen] = At[1] + FrameLen
      BY <3>3, <3>4, Dense
    <3> QED
      BY <1>3, <3>5
  <2>7. y + FrameLen <= z /\ y \in Nat /\ z \in Nat
    BY <1>3, <1>4
  <2> HIDE DEF t, s, y, z
  <2>8. t < y /\ y < s
    BY <2>2, <2>3, <2>4, <2>5, <2>6, <2>7
  <2>9. Inside(At[1], n - 1)
    BY <2>1, <2>8 DEF Inside, t, s, y
  <2>10. y % FrameLen # 0
    <3>1. y % FrameLen = y - t
      <4> HIDE DEF l
      <4>1. t = l * FrameLen /\ t <= y /\ y < t + FrameLen
        BY <2>2, <2>3, <2>7, <2>8 DEF t
      <4> QED
        BY <2>1, <2>7, <4>1, InFrame
    <3> QED
      BY <2>2, <2>7, <2>8, <3>1
  <2>11. ~Starts(EncodedBytes)
    BY <1>4, <2>10 DEF Starts, y
  <2> QED
    BY <2>9, <2>11 DEF Decodings
<1>7. ASSUME n >= 2, (n - 2..n) \cap hurt = {}
      PROVE  ~Inside(At'[1], n) /\ (At'[1] >= (n + 1) * FrameLen => PassedOn(n)')
  <2> DEFINE y == At[1]
             s == n * FrameLen
             z == At'[1]
  <2>1. /\ n \notin hurt /\ n - 1 \notin hurt /\ s \in Nat
        /\ (n + 1) * FrameLen = s + FrameLen /\ FrameLen \in Nat \ {0}
    BY <1>5, <1>7, ThreeFrames, ConstantFacts
  <2>2. /\ ~Inside(y, n) /\ ~Inside(y, n - 1)
        /\ y >= (n + 1) * FrameLen => n \in sentOn
    BY <1>2, <1>5, <1>7 DEF SyncAtFrame, PassedOn
  <2>3. ~Inside(z, n)
    BY <1>6, <1>7, <2>1, <2>2
  <2>4. y < s => z < s + FrameLen
    BY <1>2, <1>3, <1>5, <2>1, EndsBefore
  <2>5. y = s => PassedOn(n)'
    <3> SUFFICES ASSUME y = s PROVE PassedOn(n)'
      OBVIOUS
    <3>1. Starts(EncodedBytes) /\ Unbroken(EncodedBytes) /\ Clean(EncodedBytes)
      BY <1>2, <1>5, <2>1, SyncsAtFront
    <3>2. d \in [corrected : {TRUE}, good : {TRUE}]
      BY <3>1 DEF Decodings
    <3>3. d.corrected = TRUE /\ d.good = TRUE
      BY <3>2
    <3>4. RSCorrectedData \in Buffers /\ heap \in [Buffers -> Link!SDU]
      BY DEF Typed, TypeOK, LoopInv
    <3>5. heap'[RSCorrectedData] = [from |-> s, good |-> TRUE]
      BY <1>1, <1>4, <3>3, <3>4
    <3>6. pc' = "send"
      BY <1>1, <3>3
    <3> QED
      BY <1>2, <3>5, <3>6 DEF PassedOn
  <2>6. z \in Nat /\ y \in Nat
    BY <1>3
  <2>7. Inside(y, n) <=> s < y /\ y < s + FrameLen
    BY <2>1 DEF Inside
  <2>8. n \in sentOn => PassedOn(n)'
    BY <1>2 DEF PassedOn
  <2> HIDE DEF y, s, z
  <2>9. z >= s + FrameLen => PassedOn(n)'
    BY <2>1, <2>2, <2>4, <2>5, <2>6, <2>7, <2>8
  <2> QED
    BY <2>1, <2>3, <2>9 DEF z
<1>8. ASSUME n >= 1, {n - 1, n} \cap hurt = {}, Inside(At'[1], n)
      PROVE  ~lastFrameOk'
  BY <1>1, <1>6, <1>8
<1> QED
  BY <1>2, <1>5, <1>7, <1>8 DEF SyncAtFrame, PassedOn, Inside
-----------------------------------------------------------------------------
(* The theorem. *)

(* Reception starts in frame 0, so no frame but that one is behind.        *)
LEMMA SyncInit == Init => SyncInv
<1> SUFFICES ASSUME Init PROVE SyncInv
  OBVIOUS
<1>1. At[1] \in Nat /\ At[1] < FrameLen /\ FrameLen \in Nat
  <2>1. Positions
    BY TypedInit, AtFacts
  <2>2. Waiting = 0 /\ sent \in 0..FrameLen - 1
    BY <2>1 DEF Init, Positions
  <2>3. At[1] = sent
    BY <2>1, <2>2 DEF Positions
  <2> QED
    BY <2>2, <2>3, ConstantFacts
<1>2. ASSUME NEW n \in Nat, n >= 1
      PROVE  ~Inside(At[1], n) /\ ~(At[1] >= (n + 1) * FrameLen)
  <2> DEFINE s == n * FrameLen
  <2>1. 1 * FrameLen <= n * FrameLen
    BY <1>1, <1>2, Products
  <2>2. s \in Nat /\ (n + 1) * FrameLen = s + FrameLen
    BY FrameBounds
  <2>3. 1 * FrameLen = FrameLen
    BY <1>1
  <2> HIDE DEF s
  <2>4. FrameLen <= s
    BY <2>1, <2>3 DEF s
  <2> QED
    BY <1>1, <2>2, <2>4 DEF Inside, s
<1>3. ~Aligned
  BY DEF Init, Aligned
<1>4. ASSUME NEW n \in 0..LastSymbol \div FrameLen
      PROVE  SyncAtFrame(n)
  <2>1. n \in Nat
    BY EarlierFrame
  <2> QED
    BY <1>2, <1>3, <2>1 DEF SyncAtFrame
<1> QED
  BY <1>4, SyncFrames

(* SyncInv is preserved by every step. *)
LEMMA SyncNext ==
    ASSUME Typed, StreamInv, SyncInv, [Next]_vars
    PROVE  SyncInv'
<1>1. CASE \/ \E ok \in BOOLEAN : SendSymbol(ok)
           \/ \E n \in 1..FrameLen : LoseSymbols(n)
           \/ Poll \/ ReceiveSymbol
  BY <1>1, SyncStream
<1>2. ASSUME NEW r \in IF pc = "search" THEN SearchResults ELSE {}, NoPacketLock(r) \/ correlate(r)
      PROVE  SyncInv'
  BY <1>2, SyncThrown, SyncMoved
<1>3. CASE errorCorrectPacket
  BY <1>3, SyncDecoded
<1>4. CASE SendFrame \/ clearBuffers \/ TransportStep \/ FlushStep \/ UNCHANGED vars
  BY <1>4, SyncRest
<1> QED
  BY <1>1, <1>2, <1>3, <1>4 DEF Next, DecoderStep, FlushStep

(* Whatever was lost, damaged or flushed before, and wherever in a frame   *)
(* it began to listen: of undamaged frames in a row Start passes on all    *)
(* from the third on, unless it once looked for a sync word that lay       *)
(* across the end of a block.                                              *)
THEOREM DecoderResynchronises == Spec => []Resynchronises
<1>1. Init => Typed /\ StreamInv /\ SyncInv
  BY TypedInit, StreamInit, SyncInit
<1>2. Typed /\ StreamInv /\ SyncInv /\ [Next]_vars => Typed' /\ StreamInv' /\ SyncInv'
  BY TypedNext, StreamNext, SyncNext
<1>3. Typed /\ StreamInv /\ SyncInv => Resynchronises
  <2> SUFFICES ASSUME Typed, StreamInv, SyncInv, pc = "poll", ~split,
                      NEW n \in 2..LastSymbol \div FrameLen,
                      (n + 1) * FrameLen <= Upto, (n - 2..n) \cap hurt = {}
               PROVE  n \in sentOn
    BY DEF Resynchronises
  <2>1. n \in 0..LastSymbol \div FrameLen /\ n \in Nat /\ n >= 2
    <3>1. LastSymbol \div FrameLen \in Nat
      BY ConstantFacts, FrameNumber
    <3> QED
      BY <3>1
  <2>2. At[1] = Upto /\ At[1] \in Nat
    <3>1. EncodedBytes = << >> /\ SymbolsInput \in Seq(Symbol)
      BY DEF Typed, TypeOK, LoopInv
    <3>2. Positions /\ Len(EncodedBytes) = 0
      BY <3>1, AtFacts
    <3>3. CASE SymbolsInput = << >>
      <4>1. Waiting = 0
        BY <3>2, <3>3 DEF Positions
      <4> QED
        BY <3>2, <3>3, <4>1 DEF Positions, Upto
    <3>4. CASE SymbolsInput # << >>
      <4>1. Len(SymbolsInput) \in Nat \ {0} /\ Head(SymbolsInput) = SymbolsInput[1]
        BY <3>1, <3>4, EmptySeq
      <4>2. At[0 + 1] = SymbolsInput[1].at /\ Waiting = Len(SymbolsInput)
        BY <3>2, <4>1 DEF Positions
      <4>3. 1 \in 1..Waiting + 1
        BY <4>1, <4>2
      <4> QED
        BY <3>2, <3>4, <4>1, <4>2, <4>3 DEF Positions, Upto
    <3> QED
      BY <3>3, <3>4
  <2>3. At[1] >= (n + 1) * FrameLen
    <3>1. (n + 1) * FrameLen \in Nat
      <4>1. n * FrameLen \in Nat /\ (n + 1) * FrameLen = n * FrameLen + FrameLen /\ FrameLen \in Nat
        BY <2>1, FrameBounds
      <4> QED
        BY <4>1
    <3> QED
      BY <2>2, <3>1
  <2>4. SyncAtFrame(n)
    BY <2>1, SyncFrames
  <2> QED
    BY <2>1, <2>3, <2>4 DEF SyncAtFrame, PassedOn
<1> QED
  BY <1>1, <1>2, <1>3, PTL DEF Spec
=============================================================================
