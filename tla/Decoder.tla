------------------------------ MODULE Decoder ------------------------------
(***************************************************************************)
(* The datalink layer: Decoder.Start cuts the demodulator's symbols into   *)
(* frames, and Pipeline.Flush and Pipeline.Reset interfere with it from    *)
(* another goroutine.  The counts that Start keeps are modelled in         *)
(* Statistics; the averages for display are left out.                      *)
(*                                                                         *)
(* A symbol is named by its offset in what the satellite sends: frame n    *)
(* occupies offsets n * FrameLen up to the next frame, and its first       *)
(* SyncLen symbols are the sync word.  `ok' says that the symbol came      *)
(* through well.  The correlator, Viterbi and Reed-Solomon are libraries:  *)
(* see Correlations and Decodings.  Frames are passed by reference, so     *)
(* the buffers they live in are part of the state.                         *)
(***************************************************************************)
EXTENDS Naturals, Sequences, FiniteSets

CONSTANTS
    FrameLen,      \* symbols in a frame (EncodedFrameSize, 16384)
    SyncLen,       \* symbols in a sync word (64)
    ShortLen,      \* symbols searched while in lock (EncodedFrameSize / 64)
    MaxRecheck,    \* MaxRecheckThreshold (100)
    SymbolBuffer,  \* capacity of SymbolsInput
    FrameBuffer,   \* capacity of FramesOutput
    LastSymbol,    \* bound: the satellite sends symbols 0..LastSymbol
    MaxFaults,     \* bound: symbols damaged and runs of symbols lost
    MaxFlushes,    \* bound: how often the channels are flushed
    Nil            \* no buffer

ASSUME DecoderAssumption ==
    /\ FrameLen \in Nat /\ SyncLen \in Nat \ {0} /\ ShortLen \in Nat
    /\ SyncLen <= ShortLen /\ ShortLen <= FrameLen
    /\ MaxRecheck \in Nat \ {0}
    /\ SymbolBuffer \in Nat /\ SymbolBuffer >= FrameLen
    /\ FrameBuffer \in Nat \ {0}
    /\ LastSymbol \in Nat /\ LastSymbol >= FrameLen
    /\ MaxFaults \in Nat /\ MaxFlushes \in Nat
    /\ Nil \notin Nat

VARIABLES
    sent,            \* how many symbols the demodulator has dealt with
    faults,          \* how many faults there were
    hurt,            \* frames with symbols that did not get through (history)
    SymbolsInput,    \* channel from the demodulator
    pc,              \* where Start's loop is
    EncodedBytes,    \* the symbols of the frame being filled
    lastFrameOk, recheckCounter, FrameLock,
    RSCorrectedData, \* the buffer that frames are decoded into
    heap,            \* what the buffers hold
    FramesOutput,    \* channel to the transport layer: buffers
    sentOn,          \* undamaged frames that were put there (history)
    split,           \* a sync word was looked for that lay across two blocks (history)
    held,            \* the buffer the transport layer works on, or Nil
    received,        \* the frames the transport layer saw (history)
    flush,           \* where the flushing goroutine is
    flushes          \* how many flushes there were

demod == <<sent, faults, hurt>>
decoder == <<EncodedBytes, lastFrameOk, recheckCounter, RSCorrectedData, sentOn, split>>
transport == <<held, received>>
flusher == <<flush, flushes>>
vars == <<demod, SymbolsInput, pc, decoder, FrameLock, heap, FramesOutput, transport, flusher>>

Symbol == [at : 0..LastSymbol, ok : BOOLEAN]
Buffers == 0..FrameBuffer + 2
FrameOf(s) == s.at \div FrameLen
-----------------------------------------------------------------------------
(* The libraries. *)

(* A whole sync word at position q of block b. *)
SyncAt(b, q) ==
    \A i \in 1..SyncLen :
        /\ b[q + i].ok
        /\ b[q + i].at % FrameLen = i - 1
        /\ b[q + i].at = b[q + 1].at + i - 1

(* Where the first len symbols of b hold a whole sync word. *)
Syncs(b, len) == {q \in 0..len - SyncLen : SyncAt(b, q)}

(***************************************************************************)
(* Correlate over the first len symbols of b: a whole sync word scores     *)
(* highest; without one the best score may be anywhere, and high enough    *)
(* (MinCorrelationBits) or not.                                            *)
(***************************************************************************)
Correlations(b, len) ==
    IF Syncs(b, len) # {} THEN [enough : {TRUE}, pos : Syncs(b, len)]
    ELSE [enough : BOOLEAN, pos : 0..len - SyncLen]

Starts(b) == b[1].at % FrameLen = 0
Unbroken(b) == \A i \in DOMAIN b : b[i].at = b[1].at + i - 1
Clean(b) == \A i \in DOMAIN b : b[i].ok

(***************************************************************************)
(* What Viterbi and Reed-Solomon make of b.  `corrected' if at least one   *)
(* Reed-Solomon block was, `good' if the result is the frame that was      *)
(* sent.  Symbols that do not start a frame cannot be corrected.           *)
(***************************************************************************)
Decodings(b) ==
    IF ~Starts(b) THEN [corrected : {FALSE}, good : {FALSE}]
    ELSE IF ~Unbroken(b) THEN [corrected : BOOLEAN, good : {FALSE}]
    ELSE IF ~Clean(b) THEN {d \in [corrected : BOOLEAN, good : BOOLEAN] : d.good => d.corrected}
    ELSE [corrected : {TRUE}, good : {TRUE}]
-----------------------------------------------------------------------------
Blank == [from |-> 0, good |-> FALSE]

(* Reception may start anywhere in a frame. *)
Init ==
    /\ sent \in 0..FrameLen - 1
    /\ faults = 0
    /\ hurt = IF sent = 0 THEN {} ELSE {0}
    /\ SymbolsInput = << >>
    /\ pc = "poll"
    /\ EncodedBytes = << >>
    /\ lastFrameOk = FALSE
    /\ recheckCounter = 0
    /\ FrameLock = FALSE
    /\ RSCorrectedData = 0
    /\ heap = [b \in Buffers |-> Blank]
    /\ FramesOutput = << >>
    /\ sentOn = {}
    /\ split = FALSE
    /\ held = Nil
    /\ received = << >>
    /\ flush = "no"
    /\ flushes = 0

(* The demodulator's blocking send of the next symbol, good or not. *)
SendSymbol(ok) ==
    /\ sent <= LastSymbol
    /\ Len(SymbolsInput) < SymbolBuffer
    /\ ok \/ faults < MaxFaults
    /\ SymbolsInput' = Append(SymbolsInput, [at |-> sent, ok |-> ok])
    /\ sent' = sent + 1
    /\ faults' = IF ok THEN faults ELSE faults + 1
    /\ hurt' = IF ok THEN hurt ELSE hurt \cup {sent \div FrameLen}
    /\ UNCHANGED <<pc, decoder, FrameLock, heap, FramesOutput, transport, flusher>>

(* The signal fades, or samples are lost: n symbols are missing. *)
LoseSymbols(n) ==
    /\ sent + n <= LastSymbol + 1
    /\ faults < MaxFaults
    /\ sent' = sent + n
    /\ faults' = faults + 1
    /\ hurt' = hurt \cup {k \div FrameLen : k \in sent..sent + n - 1}
    /\ UNCHANGED <<SymbolsInput, pc, decoder, FrameLock, heap, FramesOutput, transport, flusher>>
-----------------------------------------------------------------------------
(* Start's loop. *)

Outside == <<demod, FrameLock, heap, FramesOutput, transport, flusher>>
Locking == <<lastFrameOk, recheckCounter, split>>
Passing == <<RSCorrectedData, sentOn>>

(* Mutant: more than a frame's worth is waited for. *)
PollForMore ==
    /\ pc = "poll"
    /\ Len(SymbolsInput) > FrameLen
    /\ pc' = "fill"
    /\ UNCHANGED <<Outside, SymbolsInput, decoder>>

(* The loop goes on only when the channel holds a frame's worth of symbols. *)
Poll ==
    /\ pc = "poll"
    /\ Len(SymbolsInput) >= FrameLen
    /\ pc' = "fill"
    /\ UNCHANGED <<Outside, SymbolsInput, decoder>>

(* One blocking receive, of the first fill or of correlate's backfill. *)
ReceiveSymbol ==
    /\ pc \in {"fill", "backfill"}
    /\ SymbolsInput # << >>
    /\ EncodedBytes' = Append(EncodedBytes, Head(SymbolsInput))
    /\ SymbolsInput' = Tail(SymbolsInput)
    /\ pc' = IF Len(EncodedBytes') < FrameLen THEN pc
             ELSE IF pc = "fill" THEN "search" ELSE "decode"
    /\ UNCHANGED <<Outside, Locking, Passing>>

(* Whether the whole block has to be searched. *)
FullDue == ~lastFrameOk \/ recheckCounter >= MaxRecheck

(***************************************************************************)
(* checkIfFrameLocked: out of lock, or after MaxRecheck frames, the whole  *)
(* block is searched; in lock just its beginning, and the whole again if   *)
(* the best match is not right there.                                      *)
(***************************************************************************)
SearchResults ==
    LET short == Correlations(EncodedBytes, ShortLen) IN
    {[c |-> c, whole |-> FALSE] : c \in {c \in short : ~FullDue /\ c.pos = 0}}
    \cup {[c |-> c, whole |-> TRUE] : c \in
             IF FullDue \/ \E c \in short : c.pos # 0
             THEN Correlations(EncodedBytes, FrameLen) ELSE {}}

(* Mutant: the counter is not reset. *)
checkIfFrameLockedNoReset(r) ==
    /\ pc = "search"
    /\ recheckCounter' = recheckCounter + 1
    /\ lastFrameOk' = (~FullDue /\ r.c.enough)
    /\ split' = split

(***************************************************************************)
(* A whole search starts the count to the next one anew, and the decoder   *)
(* counts as out of lock until a frame is decoded.  `split' notes a whole  *)
(* search of good symbols that holds no whole sync word.                   *)
(***************************************************************************)
checkIfFrameLocked(r) ==
    /\ pc = "search"
    /\ recheckCounter' = IF r.whole THEN 1 ELSE recheckCounter + 1
    /\ lastFrameOk' = (~FullDue /\ r.c.enough)
    /\ split' = (split \/ /\ r.whole /\ Unbroken(EncodedBytes) /\ Clean(EncodedBytes)
                          /\ Syncs(EncodedBytes, FrameLen) = {})

(* correlate fails, "No packet lock": the block is thrown away. *)
NoPacketLock(r) ==
    /\ checkIfFrameLocked(r)
    /\ ~r.c.enough
    /\ EncodedBytes' = << >>
    /\ pc' = "poll"
    /\ UNCHANGED <<Outside, SymbolsInput, Passing>>

(* Mutant: the symbols before the frame's start are kept. *)
correlateUnshifted(r) ==
    /\ checkIfFrameLocked(r)
    /\ r.c.enough
    /\ pc' = "decode"
    /\ UNCHANGED <<Outside, SymbolsInput, EncodedBytes, Passing>>

(* correlate succeeds: the frame is moved to the front, the rest refilled. *)
correlate(r) ==
    /\ checkIfFrameLocked(r)
    /\ r.c.enough
    /\ EncodedBytes' = SubSeq(EncodedBytes, r.c.pos + 1, FrameLen)
    /\ pc' = IF r.c.pos = 0 THEN "decode" ELSE "backfill"
    /\ UNCHANGED <<Outside, SymbolsInput, Passing>>

(* Mutant: a frame that cannot be corrected leaves the decoder in lock. *)
errorCorrectPacketStayingOk ==
    /\ pc = "decode"
    /\ \E d \in Decodings(EncodedBytes) :
          /\ heap' = [heap EXCEPT ![RSCorrectedData] =
                         [from |-> EncodedBytes[1].at, good |-> d.good]]
          /\ lastFrameOk' = TRUE
          /\ FrameLock' = d.corrected
          /\ pc' = IF d.corrected THEN "send" ELSE "clear"
    /\ EncodedBytes' = << >>
    /\ UNCHANGED <<demod, SymbolsInput, recheckCounter, split, Passing,
                   FramesOutput, transport, flusher>>

(***************************************************************************)
(* Viterbi, derandomising and errorCorrectPacket, into RSCorrectedData; a  *)
(* frame of which nothing could be corrected is not sent on.  FrameLock is *)
(* set here, the assignments after it touch only statistics.  What is left *)
(* in EncodedBytes is not read again.                                      *)
(* A buffer stands for the frame in it: that Reed-Solomon writes a whole   *)
(* code word (datalink.go:273), longer than the frame without parity for   *)
(* which clearBuffers allocates (datalink.go:112,293), is not modelled.    *)
(***************************************************************************)
errorCorrectPacket ==
    /\ pc = "decode"
    /\ \E d \in Decodings(EncodedBytes) :
          /\ heap' = [heap EXCEPT ![RSCorrectedData] =
                         [from |-> EncodedBytes[1].at, good |-> d.good]]
          /\ lastFrameOk' = d.corrected
          /\ FrameLock' = d.corrected
          /\ pc' = IF d.corrected THEN "send" ELSE "clear"
    /\ EncodedBytes' = << >>
    /\ UNCHANGED <<demod, SymbolsInput, recheckCounter, split, Passing,
                   FramesOutput, transport, flusher>>

(* The blocking send passes the buffer itself on. *)
SendFrame ==
    /\ pc = "send"
    /\ Len(FramesOutput) < FrameBuffer
    /\ FramesOutput' = Append(FramesOutput, RSCorrectedData)
    /\ sentOn' = IF heap[RSCorrectedData].good
                 THEN sentOn \cup {heap[RSCorrectedData].from \div FrameLen} ELSE sentOn
    /\ pc' = "clear"
    /\ UNCHANGED <<demod, SymbolsInput, EncodedBytes, Locking,
                   RSCorrectedData, FrameLock, heap, transport, flusher>>

(* Mutant: the next frame is decoded into the same buffer. *)
clearBuffersInPlace ==
    /\ pc = "clear"
    /\ pc' = "poll"
    /\ UNCHANGED <<Outside, SymbolsInput, decoder>>

(* The next frame gets a buffer that nobody else has. *)
InUse == {FramesOutput[i] : i \in DOMAIN FramesOutput} \cup {held}
clearBuffers ==
    /\ pc = "clear"
    /\ RSCorrectedData' = CHOOSE b \in Buffers : b \notin InUse
    /\ heap' = [b \in Buffers |-> IF b \in InUse THEN heap[b] ELSE Blank]
    /\ pc' = "poll"
    /\ UNCHANGED <<demod, SymbolsInput, EncodedBytes, Locking, sentOn,
                   FrameLock, FramesOutput, transport, flusher>>

DecoderStep ==
    \/ Poll \/ ReceiveSymbol
    \/ \E r \in IF pc = "search" THEN SearchResults ELSE {} : NoPacketLock(r) \/ correlate(r)
    \/ errorCorrectPacket \/ SendFrame \/ clearBuffers
-----------------------------------------------------------------------------
(* The transport layer receives a frame, and reads it later. *)

ReceiveFrame ==
    /\ held = Nil /\ FramesOutput # << >>
    /\ held' = Head(FramesOutput)
    /\ FramesOutput' = Tail(FramesOutput)
    /\ UNCHANGED <<demod, SymbolsInput, pc, decoder, FrameLock, heap, received, flusher>>

ReadFrame ==
    /\ held # Nil
    /\ received' = Append(received, heap[held])
    /\ held' = Nil
    /\ UNCHANGED <<demod, SymbolsInput, pc, decoder, FrameLock, heap, FramesOutput, flusher>>

TransportStep == ReceiveFrame \/ ReadFrame
-----------------------------------------------------------------------------
(***************************************************************************)
(* Flush empties the two channels; it tests a channel's length and then    *)
(* receives.  (Pipeline.Flush empties the demodulator's channels before:   *)
(* its output is SymbolsInput again, its input is the demodulator's loss.) *)
(* Pipeline.Reset flushes and then calls Reset, which unlocks; the counts  *)
(* it sets to zero are left to Statistics.                                 *)
(***************************************************************************)
Flushing == <<sent, faults, pc, decoder, heap, transport, flushes>>

StartFlush ==
    /\ flush = "no" /\ flushes < MaxFlushes
    /\ flush' = "symbols"
    /\ flushes' = flushes + 1
    /\ UNCHANGED <<demod, SymbolsInput, pc, decoder, FrameLock, heap, FramesOutput, transport>>

TestLength ==
    /\ \/ flush = "symbols" /\ flush' = IF Len(SymbolsInput) > 0 THEN "symbol" ELSE "frames"
       \/ flush = "frames" /\ flush' = IF Len(FramesOutput) > 0 THEN "frame" ELSE "reset"
    /\ UNCHANGED <<Flushing, hurt, SymbolsInput, FrameLock, FramesOutput>>

FlushSymbol ==
    /\ flush = "symbol" /\ SymbolsInput # << >>
    /\ hurt' = hurt \cup {FrameOf(Head(SymbolsInput))}
    /\ SymbolsInput' = Tail(SymbolsInput)
    /\ flush' = "symbols"
    /\ UNCHANGED <<Flushing, FrameLock, FramesOutput>>

FlushFrame ==
    /\ flush = "frame" /\ FramesOutput # << >>
    /\ FramesOutput' = Tail(FramesOutput)
    /\ flush' = "frames"
    /\ UNCHANGED <<Flushing, hurt, SymbolsInput, FrameLock>>

(* The caller wanted Reset, or just Flush. *)
Reset ==
    /\ flush = "reset"
    /\ FrameLock' \in {FALSE, FrameLock}
    /\ flush' = "no"
    /\ UNCHANGED <<Flushing, hurt, SymbolsInput, FramesOutput>>

Next ==
    \/ \E ok \in BOOLEAN : SendSymbol(ok)
    \/ \E n \in 1..FrameLen : LoseSymbols(n)
    \/ DecoderStep
    \/ TransportStep
    \/ StartFlush \/ TestLength \/ FlushSymbol \/ FlushFrame \/ Reset

Spec == Init /\ [][Next]_vars

(***************************************************************************)
(* Both goroutines loop for ever, and receive and send when they can.      *)
(* Nothing obliges the demodulator to send or anybody to flush.            *)
(***************************************************************************)
FairSpec == Spec /\ WF_vars(DecoderStep) /\ WF_vars(TransportStep)
-----------------------------------------------------------------------------
TypeOK ==
    /\ sent \in 0..LastSymbol + 1
    /\ hurt \subseteq Nat /\ sentOn \subseteq Nat
    /\ SymbolsInput \in Seq(Symbol) /\ Len(SymbolsInput) <= SymbolBuffer
    /\ pc \in {"poll", "fill", "search", "backfill", "decode", "send", "clear"}
    /\ EncodedBytes \in Seq(Symbol) /\ Len(EncodedBytes) <= FrameLen
    /\ pc \in {"search", "decode"} => Len(EncodedBytes) = FrameLen
    /\ recheckCounter \in 0..MaxRecheck
    /\ FrameLock \in BOOLEAN /\ lastFrameOk \in BOOLEAN
    /\ RSCorrectedData \in Buffers /\ held \in Buffers \cup {Nil}
    /\ FramesOutput \in Seq(Buffers) /\ Len(FramesOutput) <= FrameBuffer
    /\ flush \in {"no", "symbols", "symbol", "frames", "frame", "reset"}

(***************************************************************************)
(* What the transport layer reads, whenever it reads it, are frames that   *)
(* were sent, each at most once and in order, with damaged ones between:   *)
(* although frames are passed by reference, the decoder never writes into  *)
(* one it has passed on.  This is what Demux assumes of its link.          *)
(* (Not said here: what lies in memory behind a buffer, where Reed-Solomon *)
(* writes the parity; see errorCorrectPacket.)                             *)
(***************************************************************************)
Link == INSTANCE SduStream
            WITH sent <- {k * FrameLen : k \in 0..LastSymbol \div FrameLen}, out <- received
LinkSpec == Link!Spec

(* The symbols before this one have left the channel. *)
Upto == IF SymbolsInput = << >> THEN sent ELSE Head(SymbolsInput).at

(***************************************************************************)
(* After a fault the decoder finds its way back by itself: of frames whose *)
(* symbols all get through, the third in a row is passed on, and so are    *)
(* those behind it.  The exception is a sync word that lies across the end *)
(* of a block, which no search of a block can find.                        *)
(***************************************************************************)
Resynchronises ==
    pc = "poll" /\ ~split =>
        \A n \in 2..LastSymbol \div FrameLen :
            (n + 1) * FrameLen <= Upto /\ (n - 2..n) \cap hurt = {} => n \in sentOn

(***************************************************************************)
(* A demodulator that waits for room in the channel gets some: a full      *)
(* channel does not stay full for ever.                                    *)
(***************************************************************************)
SymbolsDrained ==
    Len(SymbolsInput) = SymbolBuffer ~> Len(SymbolsInput) < SymbolBuffer
-----------------------------------------------------------------------------
(***************************************************************************)
(* What makes those properties inductive.  The symbols that wait are those *)
(* in EncodedBytes and behind them those in SymbolsInput; At[i] is the     *)
(* offset of the i-th, and behind the last one that of the next to come.   *)
(***************************************************************************)
Waiting == Len(EncodedBytes) + Len(SymbolsInput)
At == [i \in 1..Waiting + 1 |->
          IF i <= Len(EncodedBytes) THEN EncodedBytes[i].at
          ELSE IF i <= Waiting THEN SymbolsInput[i - Len(EncodedBytes)].at
          ELSE sent]

(* Symbols wait in the order they were sent in; what is missing between    *)
(* them, or came through badly, belongs to frames that are hurt.           *)
StreamInv ==
    /\ \A i, j \in 1..Waiting + 1 : i < j => At[i] + (j - i) <= At[j]
    /\ \A i \in 1..Waiting : \A a \in At[i] + 1..At[i + 1] - 1 : a \div FrameLen \in hurt
    /\ \A i \in DOMAIN EncodedBytes : EncodedBytes[i].ok \/ FrameOf(EncodedBytes[i]) \in hurt
    /\ \A i \in DOMAIN SymbolsInput : SymbolsInput[i].ok \/ FrameOf(SymbolsInput[i]) \in hurt

(* How full EncodedBytes is, and what the buffers hold. *)
LoopInv ==
    /\ pc \in {"fill", "backfill"} => Len(EncodedBytes) < FrameLen
    /\ pc = "backfill" => EncodedBytes # << >>
    /\ pc \in {"poll", "send", "clear"} => EncodedBytes = << >>
    /\ heap \in [Buffers -> Link!SDU]
    /\ received \in Seq(Link!SDU)

(* Each buffer has one owner: Start's loop, the channel, or the transport  *)
(* layer.                                                                  *)
OwnerInv ==
    /\ \A i, j \in DOMAIN FramesOutput : FramesOutput[i] = FramesOutput[j] => i = j
    /\ \A i \in DOMAIN FramesOutput : FramesOutput[i] # held
    /\ pc # "clear" => RSCorrectedData \notin InUse

(* The buffers on their way to the transport layer. *)
InLine == (InUse \ {Nil}) \cup (IF pc = "send" THEN {RSCorrectedData} ELSE {})
Before(f, g) == f.good /\ g.good => f.from < g.from

(* They are in order, behind what was received, and before the symbols     *)
(* that wait.                                                              *)
OrderInv ==
    /\ Link!InOrder(received)
    /\ \A i \in DOMAIN received : \A b \in InLine : Before(received[i], heap[b])
    /\ held # Nil => \A i \in DOMAIN FramesOutput : Before(heap[held], heap[FramesOutput[i]])
    /\ \A i, j \in DOMAIN FramesOutput :
          i < j => Before(heap[FramesOutput[i]], heap[FramesOutput[j]])
    /\ pc = "send" => \A b \in InUse \ {Nil} : Before(heap[b], heap[RSCorrectedData])
    /\ \A f \in {received[i] : i \in DOMAIN received} \cup {heap[b] : b \in InLine} :
          f.good => f.from \in {k * FrameLen : k \in 0..LastSymbol \div FrameLen} /\ f.from < At[1]

(* Offset p is in frame n, but not at its start. *)
Inside(p, n) == n * FrameLen < p /\ p < (n + 1) * FrameLen

(***************************************************************************)
(* How the decoder finds back.  Behind an undamaged frame it does not lock *)
(* on to the middle of the next one for long: a block that ends there was  *)
(* not corrected, so the next search is a whole one; and behind two        *)
(* undamaged frames no block begins there at all.                          *)
(***************************************************************************)
Aligned == pc \in {"backfill", "decode"}
SyncInv ==
    ~split => \A n \in 0..LastSymbol \div FrameLen :
        /\ n >= 1 /\ {n - 1, n} \cap hurt = {} /\ Inside(At[1], n) /\ ~Aligned => ~lastFrameOk
        /\ n >= 2 /\ (n - 2..n) \cap hurt = {} =>
              /\ ~Inside(At[1], n)
              /\ Aligned => ~Inside(At[1], n - 1)
              /\ At[1] >= (n + 1) * FrameLen =>
                    \/ n \in sentOn
                    \/ pc = "send" /\ heap[RSCorrectedData] = [from |-> n * FrameLen, good |-> TRUE]
=============================================================================
