--------------------------- MODULE PipelineProofs ---------------------------
(***************************************************************************)
(* What Pipeline keeps for any number of blocks, symbols, registrations    *)
(* and calls: the panic of the demodulator needs the application's Close,  *)
(* and the counts are those since Reset.                                   *)
(***************************************************************************)
EXTENDS Pipeline, FiniteSetTheorems, TLAPS

(***************************************************************************)
(* Close is only ever under way because the application asked for it, as   *)
(* Destroy does not reach the demodulator; the channel is closed after     *)
(* Stopping is set; and a test of Stopping that found it unset while it is *)
(* set now was overtaken by Close.                                         *)
(***************************************************************************)
CloseInv ==
    /\ {asked, Stopping, closed, tested, caught} \subseteq BOOLEAN
    /\ app.at = "flush" => app = [at |-> "flush", left |-> app.left, seen |-> app.seen,
                                  reset |-> app.reset]
    /\ app.at \in {"close", "closing"} => asked
    /\ app.at = "closing" => Stopping
    /\ Stopping => asked
    /\ closed => Stopping
    /\ tested /\ Stopping => caught
    /\ crashed = "send" => asked /\ caught

(* At the start nothing is closed. *)
LEMMA CloseInit == Init => CloseInv
<1> SUFFICES ASSUME Init PROVE CloseInv
    OBVIOUS
<1>1. /\ asked = FALSE /\ Stopping = FALSE /\ closed = FALSE /\ tested = FALSE /\ caught = FALSE
      /\ crashed = "no"
    BY DEF Init, DemodInit
<1>2. app.at = "setup"
    BY DEF Init, SetUp
<1> QED BY <1>1, <1>2 DEF CloseInv

(* Only Close, and the demodulator's own test and send, touch the parts of  *)
(* CloseInv.                                                                *)
LEMMA CloseApp ==
    ASSUME CloseInv, crashed = "no", AppRuns
    PROVE  CloseInv'
<1>1. ASSUME NEW id \in LayerType, Register(id) PROVE CloseInv'
    BY <1>1 DEF CloseInv, Register, RegisterPhysical, RegisterAbove, Registered, closing,
                sending, appVars
<1>2. CASE Start
    BY <1>2 DEF CloseInv, Start, closing, sending, Up, SetUp
<1>3. CASE StartFlush
    BY <1>3 DEF CloseInv, StartFlush, Calls, Up, demodVars, closing, sending
<1>4. CASE FlushTest
    BY <1>4 DEF CloseInv, FlushTest, demodVars, closing, sending
<1>5. CASE FlushReceive
    BY <1>5 DEF CloseInv, FlushReceive, closing
<1>6. CASE FlushReturns
    BY <1>6 DEF CloseInv, FlushReturns, Up, demodVars, closing, sending
<1>7. CASE ResetGoesOn
    BY <1>7 DEF CloseInv, ResetGoesOn, Up, demodVars, closing, sending
<1>8. CASE Destroy
  <2>1. PhysicalLayer \notin Destroyed(NumLayersRegistered)
    BY DEF PhysicalLayer, Destroyed
  <2> QED BY <1>8, <2>1 DEF CloseInv, Destroy, Up, demodVars, closing, sending
<1>9. CASE AskClose
    BY <1>9 DEF CloseInv, AskClose, demodVars, closing, sending
<1>10. CASE CloseStops
    BY <1>10 DEF CloseInv, CloseStops, Stop, sending
<1>11. CASE CloseEnds
    BY <1>11 DEF CloseInv, CloseEnds, CloseOutput, Up, sending
<1> QED BY <1>1, <1>2, <1>3, <1>4, <1>5, <1>6, <1>7, <1>8, <1>9, <1>10, <1>11 DEF AppRuns

(* The demodulator's steps keep it. *)
LEMMA CloseDemod ==
    ASSUME CloseInv, crashed = "no", DemodStep, UNCHANGED appVars
    PROVE  CloseInv'
<1>1. CASE TakeBlock
    BY <1>1 DEF CloseInv, TakeBlock, closing, appVars
<1>2. CASE StartFFT
    BY <1>2 DEF CloseInv, StartFFT, closing, appVars
<1>3. CASE TestStopping
    BY <1>3 DEF CloseInv, TestStopping, closing, appVars
<1>4. CASE SendSymbol
    BY <1>4 DEF CloseInv, SendSymbol, closing, appVars
<1>5. CASE EndBlock
    BY <1>5 DEF CloseInv, EndBlock, closing, appVars
<1> QED BY <1>1, <1>2, <1>3, <1>4, <1>5 DEF DemodStep

(* So does every step. *)
LEMMA CloseNext == CloseInv /\ [Next]_vars => CloseInv'
<1> SUFFICES ASSUME CloseInv, [Next]_vars PROVE CloseInv'
    OBVIOUS
<1>1. CASE Next /\ AppRuns
    BY <1>1, CloseApp DEF Next
<1>2. CASE Next /\ RadioRuns
    BY <1>2 DEF Next, RadioRuns, Sample, CloseInv, closing, sending, appVars
<1>3. CASE Next /\ DemodRuns
    BY <1>3, CloseDemod DEF Next, DemodRuns
<1>4. CASE Next /\ DecoderRuns
    BY <1>4 DEF Next, DecoderRuns, DecoderTakes, DecoderReceives, CloseInv, demodVars, closing,
                sending, appVars
<1>5. ASSUME Next, NEW n \in 1..MaxBlocks, SpectrumRuns(n) PROVE CloseInv'
    BY <1>5 DEF Next, SpectrumRuns, FFTOf, FFTStep, SetWorking, Publish, EndFFT, Moves, CloseInv,
                closing, sending, appVars
<1>6. CASE UNCHANGED vars
    BY <1>6 DEF vars, demodVars, closing, sending, appVars, CloseInv
<1> QED BY <1>1, <1>2, <1>3, <1>4, <1>5, <1>6 DEF Next

(***************************************************************************)
(* The demodulator sends on its closed channel only if the application     *)
(* closed it between a test of Stopping and the send.                      *)
(***************************************************************************)
THEOREM PanicNeedsClose == Spec => []SendPanicOnlyCaught
<1>1. CloseInv => SendPanicOnlyCaught
    BY DEF CloseInv, SendPanicOnlyCaught
<1> QED BY <1>1, CloseInit, CloseNext, PTL DEF Spec
-----------------------------------------------------------------------------
(***************************************************************************)
(* What the counters hold between two steps.  Behind Reset, the maps count *)
(* every frame begun and finished since and no other; while Reset is under *)
(* way that holds of the maps it has emptied.  A frame on its way to be    *)
(* counted knows the map of now if it was begun behind Reset; until it is  *)
(* counted it is in the total but not among those finished.                *)
(***************************************************************************)
CounterTypes ==
    /\ TotalFramesProcessed \in Nat /\ since \in Nat /\ begun \in Nat
    /\ Rx \in [map : Nat, sum : Nat] /\ Dropped \in [map : Nat, sum : Nat]
    /\ overlapped \in BOOLEAN
    /\ resetting \in {"none", "rx", "dropped", "total"}
    /\ decoder \in [at : {"idle"}]
                   \cup [at : {"total"}, total : Nat, fresh : BOOLEAN]
                   \cup [at : {"decoded"}, fresh : BOOLEAN]
                   \cup [at : {"counting"}, fresh : BOOLEAN, corrupt : BOOLEAN, map : Nat]

Fresh == decoder.at # "idle" /\ decoder.fresh
InTotal == decoder.at \in {"decoded", "counting"}

MapsInv ==
    /\ resetting # "none" => begun = 0 /\ ~Fresh
    /\ resetting = "none" => begun <= Rx.sum + Dropped.sum /\ Rx.sum + Dropped.sum <= since
    /\ resetting = "dropped" => Rx.sum <= since
    /\ resetting = "total" => Rx.sum + Dropped.sum <= since
    /\ Fresh /\ decoder.at = "counting" =>
           decoder.map = IF decoder.corrupt THEN Dropped.map ELSE Rx.map

TotalInv ==
    resetting = "none" /\ ~overlapped =>
        /\ begun <= TotalFramesProcessed
        /\ Fresh /\ InTotal => begun + 1 <= TotalFramesProcessed
        /\ TotalFramesProcessed <= since + 1
        /\ ~InTotal => TotalFramesProcessed <= since
        /\ decoder.at = "total" => decoder.total = TotalFramesProcessed

CounterInv == CounterTypes /\ MapsInv /\ TotalInv

(* At the start nothing is counted. *)
LEMMA CounterInit == StatInit => CounterInv
<1> SUFFICES ASSUME StatInit PROVE CounterInv
    OBVIOUS
<1>1. decoder \in [at : {"idle"}] /\ decoder.at = "idle"
    BY DEF StatInit, Idle
<1>2. /\ Rx \in [map : Nat, sum : Nat] /\ Rx.sum = 0
      /\ Dropped \in [map : Nat, sum : Nat] /\ Dropped.sum = 0
    BY DEF StatInit
<1>3. /\ TotalFramesProcessed = 0 /\ since = 0 /\ begun = 0
      /\ resetting = "none" /\ overlapped = FALSE
    BY DEF StatInit
<1>4. CounterTypes
    BY <1>1, <1>2, <1>3 DEF CounterTypes
<1>5. ~Fresh /\ ~InTotal
    BY <1>1 DEF Fresh, InTotal
<1>6. MapsInv
    BY <1>2, <1>3, <1>5 DEF MapsInv
<1>7. TotalInv
    BY <1>1, <1>3, <1>5 DEF TotalInv
<1> QED BY <1>4, <1>6, <1>7 DEF CounterInv

(* The decoder's updates keep it. *)
LEMMA CounterDecoder ==
    ASSUME CounterInv, (decoder = Idle /\ ReadTotal) \/ CountStep
    PROVE  CounterInv'
<1>1. CASE decoder = Idle /\ ReadTotal
    BY <1>1 DEF ReadTotal, Idle, counters, CounterInv, CounterTypes, MapsInv, TotalInv, Fresh, InTotal
<1>2. CASE WriteTotal
    BY <1>2 DEF WriteTotal, counters, CounterInv, CounterTypes, MapsInv, TotalInv, Fresh, InTotal
<1>3. CASE LookUp
    BY <1>3 DEF LookUp, counters, CounterInv, CounterTypes, MapsInv, TotalInv, Fresh, InTotal
<1>4. CASE Count
    BY <1>4 DEF Count, Counted, Idle, CounterInv, CounterTypes, MapsInv, TotalInv, Fresh, InTotal
<1> QED BY <1>1, <1>2, <1>3, <1>4 DEF CountStep

(* The steps of Reset keep it. *)
LEMMA CounterReset ==
    ASSUME CounterInv, StartReset \/ ResetStep
    PROVE  CounterInv'
<1>1. CASE StartReset
    BY <1>1 DEF StartReset, Idle, counters, CounterInv, CounterTypes, MapsInv, TotalInv, Fresh, InTotal
<1>2. CASE ResetRx
    BY <1>2 DEF ResetRx, Emptied, CounterInv, CounterTypes, MapsInv, TotalInv, Fresh, InTotal
<1>3. CASE ResetDropped
    BY <1>3 DEF ResetDropped, Emptied, CounterInv, CounterTypes, MapsInv, TotalInv, Fresh, InTotal
<1>4. CASE ResetTotal
  <2>1. CounterTypes'
    BY <1>4 DEF ResetTotal, CounterInv, CounterTypes
  <2>2. MapsInv'
    BY <1>4 DEF ResetTotal, CounterInv, CounterTypes, MapsInv, Fresh
  <2>3. begun = 0 /\ ~Fresh /\ ~Fresh'
    BY <1>4 DEF ResetTotal, CounterInv, MapsInv, Fresh
  <2>4. ~overlapped' => decoder'.at # "total"
    BY <1>4 DEF ResetTotal
  <2> QED BY <1>4, <2>1, <2>2, <2>3, <2>4 DEF ResetTotal, CounterInv, CounterTypes, TotalInv
<1> QED BY <1>1, <1>2, <1>3, <1>4 DEF ResetStep

(* Nothing else touches the counters. *)
LEMMA CounterSteps ==
    ASSUME [Next]_vars
    PROVE  \/ (decoder = Idle /\ ReadTotal) \/ CountStep
           \/ StartReset \/ ResetStep
           \/ UNCHANGED statVars
<1>1. CASE Next /\ AppRuns
    BY <1>1 DEF AppRuns, Register, Start, StartFlush, FlushTest, FlushReceive, FlushReturns,
                ResetGoesOn, Destroy, AskClose, CloseStops, CloseEnds
<1>2. CASE Next /\ RadioRuns
    BY <1>2 DEF RadioRuns
<1>3. CASE Next /\ DemodRuns
    BY <1>3 DEF DemodRuns
<1>4. CASE Next /\ DecoderRuns
    BY <1>4 DEF DecoderRuns, DecoderTakes
<1>5. CASE Next /\ \E n \in 1..MaxBlocks : SpectrumRuns(n)
    BY <1>5 DEF SpectrumRuns
<1>6. CASE UNCHANGED vars
    BY <1>6 DEF vars
<1> QED BY <1>1, <1>2, <1>3, <1>4, <1>5, <1>6 DEF Next

(***************************************************************************)
(* Behind Reset the counts are those of the frames decoded since, and so   *)
(* is the total unless Reset overlapped with its update.                   *)
(***************************************************************************)
THEOREM CountsAreSinceReset == Spec => []CountsSinceReset
<1>1. Init => CounterInv
    BY CounterInit DEF Init
<1>2. CounterInv /\ [Next]_vars => CounterInv'
  <2>1. CounterInv /\ UNCHANGED statVars => CounterInv'
    BY DEF statVars, counters, CounterInv, CounterTypes, MapsInv, TotalInv, Fresh, InTotal
  <2> QED BY <2>1, CounterSteps, CounterDecoder, CounterReset
<1>3. CounterInv => CountsSinceReset
    BY DEF CounterInv, CounterTypes, MapsInv, TotalInv, CountsSinceReset, InTotal
<1> QED BY <1>1, <1>2, <1>3, PTL DEF Spec
-----------------------------------------------------------------------------
(***************************************************************************)
(* Unless a block was tested too early, there is one goroutine at most,    *)
(* and the flag is set once it is past its start.                          *)
(***************************************************************************)
SpectrumInv ==
    /\ {FFTWorking, raced} \subseteq BOOLEAN
    /\ \A g \in ffts : g = [block |-> g.block, at |-> g.at]
    /\ \A g \in ffts : g.at \in {"started", "computing", "sleeping"}
    /\ ~raced => /\ \A g, h \in ffts : g = h
                 /\ \A g \in ffts : g.at # "started" => FFTWorking

(* At the start there is no spectrum. *)
LEMMA SpectrumInit == DemodInit => SpectrumInv
    BY DEF DemodInit, SpectrumInv

(* The steps of a spectrum's goroutine keep it. *)
LEMMA SpectrumFFT ==
    ASSUME SpectrumInv, NEW g \in ffts, FFTStep(g)
    PROVE  SpectrumInv'
<1>1. ASSUME NEW at \in {"started", "computing", "sleeping"}, Moves(g, at),
             ~raced /\ at # "started" => FFTWorking', g.at # "started" => FFTWorking' = FFTWorking,
             FFTWorking' \in BOOLEAN
      PROVE  SpectrumInv'
  <2> DEFINE moved == [g EXCEPT !.at = at]
  <2>1. moved = [block |-> g.block, at |-> at]
    BY DEF SpectrumInv
  <2>2. moved.at = at /\ moved = [block |-> moved.block, at |-> moved.at]
    BY <2>1
  <2> HIDE DEF moved
  <2>3. ffts' = (ffts \ {g}) \cup {moved} /\ raced' = raced
    BY <1>1 DEF Moves, moved
  <2> QED BY <1>1, <2>2, <2>3 DEF SpectrumInv
<1>2. CASE SetWorking(g)
    BY <1>1, <1>2 DEF SetWorking
<1>3. CASE Publish(g)
    BY <1>1, <1>3 DEF Publish, SpectrumInv
<1>4. CASE EndFFT(g)
    BY <1>4 DEF EndFFT, SpectrumInv
<1> QED BY <1>2, <1>3, <1>4 DEF FFTStep

(* The flag is tested and a goroutine started: if it was started for        *)
(* nothing that runs already, it is the only one.                           *)
LEMMA SpectrumStart ==
    ASSUME SpectrumInv, StartFFT
    PROVE  SpectrumInv'
<1>1. CASE DoFFT /\ ~FFTWorking
  <2> DEFINE new == [block |-> block, at |-> "started"]
  <2>1. new = [block |-> new.block, at |-> new.at] /\ new.at = "started"
    OBVIOUS
  <2> HIDE DEF new
  <2>2. /\ ffts' = ffts \cup {new} /\ FFTWorking' = FFTWorking
        /\ raced' = (raced \/ \E g \in ffts : g.at = "started")
    BY <1>1 DEF StartFFT, new
  <2>3. raced' \in BOOLEAN
    BY <2>2 DEF SpectrumInv
  <2>4. ~raced' => ~raced /\ ffts = {}
    BY <1>1, <2>2 DEF SpectrumInv
  <2> QED BY <2>1, <2>2, <2>3, <2>4 DEF SpectrumInv
<1>2. CASE ~(DoFFT /\ ~FFTWorking)
    BY <1>2 DEF StartFFT, SpectrumInv
<1> QED BY <1>1, <1>2

(* So does every step. *)
LEMMA SpectrumNext ==
    ASSUME SpectrumInv, [Next]_vars
    PROVE  SpectrumInv'
<1>1. UNCHANGED spectrum => SpectrumInv'
    BY DEF spectrum, SpectrumInv
<1>2. CASE Next /\ AppRuns
  <2>1. UNCHANGED spectrum
    BY <1>2 DEF AppRuns, Register, Start, StartFlush, FlushTest, FlushReceive, FlushReturns,
                ResetGoesOn, Destroy, AskClose, CloseStops, CloseEnds, Stop, CloseOutput, demodVars
  <2> QED BY <1>1, <2>1
<1>3. CASE Next /\ RadioRuns
    BY <1>1, <1>3 DEF RadioRuns, Sample
<1>4. CASE Next /\ DemodRuns
    BY <1>1, <1>4, SpectrumStart
       DEF DemodRuns, DemodStep, TakeBlock, TestStopping, SendSymbol, EndBlock
<1>5. CASE Next /\ DecoderRuns
    BY <1>1, <1>5 DEF DecoderRuns, DecoderTakes, DecoderReceives, demodVars
<1>6. CASE Next /\ \E n \in 1..MaxBlocks : SpectrumRuns(n)
    BY <1>6, SpectrumFFT DEF SpectrumRuns, FFTOf
<1>7. CASE UNCHANGED vars
    BY <1>1, <1>7 DEF vars, demodVars
<1> QED BY <1>2, <1>3, <1>4, <1>5, <1>6, <1>7 DEF Next

(***************************************************************************)
(* One spectrum at a time, unless a block overtook the flag.               *)
(***************************************************************************)
THEOREM OneSpectrumAtATime == Spec => []OneSpectrum
<1>1. SpectrumInv => OneSpectrum
  <2> SUFFICES ASSUME SpectrumInv, ~raced PROVE Cardinality(ffts) <= 1
    BY DEF OneSpectrum
  <2>1. CASE ffts = {}
    BY <2>1, FS_EmptySet
  <2>2. ASSUME NEW g \in ffts PROVE Cardinality(ffts) <= 1
    <3>1. ffts = {g}
      BY DEF SpectrumInv
    <3>2. Cardinality(ffts) = 1
      BY <3>1, FS_Singleton, Zenon
    <3> QED BY <3>2
  <2> QED BY <2>1, <2>2
<1>2. Init => SpectrumInv
    BY SpectrumInit DEF Init
<1> QED BY <1>1, <1>2, SpectrumNext, PTL DEF Spec
-----------------------------------------------------------------------------
(***************************************************************************)
(* There are at least as many registrations as filled slots, and if there  *)
(* are just as many, each slot was filled once: then from below, so that   *)
(* the layers form a chain.                                                *)
(***************************************************************************)
Filled == {i \in LayerType : Layers[i] # Nil}
Chain ==
    \A i \in Filled : i > 0 => i - 1 \in Filled /\ Layers[i].input = Layers[i - 1].output

ChainInv ==
    /\ channels \in Nat /\ NumLayersRegistered \in Nat
    /\ Layers \in [LayerType -> [input : Nat, output : Nat] \cup {Nil}]
    /\ Cardinality(Filled) <= NumLayersRegistered
    /\ Cardinality(Filled) = NumLayersRegistered => Chain
    /\ app # SetUp =>
           \A i \in FirstSlots(NumLayersRegistered) : i \in LayerType /\ Layers[i] # Nil

(* The filled slots are finitely many. *)
LEMMA FilledFinite == IsFiniteSet(Filled) /\ Cardinality(Filled) \in Nat
<1>1. IsFiniteSet(LayerType)
  <2>1. LayerType = 0..5
    BY DEF LayerType, PhysicalLayer, ApplicationLayer
  <2>2. 0 \in Int /\ 5 \in Int
    OBVIOUS
  <2>3. IsFiniteSet(0..5)
    BY <2>2, FS_Interval, Zenon
  <2> QED BY <2>1, <2>3
<1>2. IsFiniteSet(Filled)
    BY <1>1, FS_Subset DEF Filled
<1> QED BY <1>2, FS_CardinalityType

(* At the start no slot is filled. *)
LEMMA ChainInit == Init => ChainInv
<1> SUFFICES ASSUME Init PROVE ChainInv
    OBVIOUS
<1>1. Filled = {}
    BY DEF Init, Filled
<1>2. Cardinality(Filled) = 0
    BY <1>1, FS_EmptySet, Zenon
<1> QED BY <1>1, <1>2 DEF Init, ChainInv, Chain

(* A layer in a new slot extends a chain; in a slot that was filled already *)
(* it makes the registrations outnumber the slots.                          *)
LEMMA ChainRegistered ==
    ASSUME ChainInv, app = SetUp, app' = app,
           NEW id \in DataLinkLayer..SessionLayer \cup {PhysicalLayer},
           NEW layer \in [input : Nat, output : Nat],
           layer.output \in Nat, Registered(layer, id),
           id # PhysicalLayer => id - 1 \in Filled /\ layer.input = Layers[id - 1].output
    PROVE  ChainInv'
<1>1. /\ id \in LayerType /\ Layers' = [Layers EXCEPT ![id] = layer] /\ channels' \in Nat
      /\ NumLayersRegistered' = NumLayersRegistered + 1
      /\ NumLayersRegistered \in Nat
    BY DEF Registered, ChainInv, LayerType, PhysicalLayer, DataLinkLayer, SessionLayer,
           ApplicationLayer
<1>2. Layers' \in [LayerType -> [input : Nat, output : Nat] \cup {Nil}]
    BY <1>1 DEF ChainInv
<1>3. Filled' = Filled \cup {id}
    BY <1>1, PipelineAssumption DEF ChainInv, Filled
<1>4. CASE id \in Filled
  <2>1. Filled' = Filled
    BY <1>3, <1>4
  <2> QED BY <1>1, <1>2, <2>1, FilledFinite DEF ChainInv
<1>5. CASE id \notin Filled
  <2>1. Cardinality(Filled') = Cardinality(Filled) + 1
    BY <1>3, <1>5, FilledFinite, FS_AddElement
  <2>2. ASSUME Chain PROVE Chain'
    <3> SUFFICES ASSUME NEW i \in Filled', i > 0
                 PROVE  i - 1 \in Filled' /\ Layers'[i].input = Layers'[i - 1].output
      BY DEF Chain
    <3>1. CASE i = id
      BY <1>1, <1>3, <3>1 DEF ChainInv, Filled, LayerType, PhysicalLayer, ApplicationLayer
    <3>2. CASE i # id
      <4>1. i \in Filled /\ i - 1 \in Filled /\ Layers[i].input = Layers[i - 1].output
        BY <1>3, <2>2, <3>2 DEF Chain
      <4>2. i - 1 # id
        BY <1>5, <4>1
      <4> QED BY <1>1, <1>3, <3>2, <4>1, <4>2
           DEF ChainInv, Filled, LayerType, PhysicalLayer, ApplicationLayer
    <3> QED BY <3>1, <3>2
  <2> QED BY <1>1, <1>2, <2>1, <2>2, FilledFinite DEF ChainInv
<1> QED BY <1>4, <1>5

(* Register keeps it. *)
LEMMA ChainRegister ==
    ASSUME ChainInv, NEW id \in LayerType, Register(id)
    PROVE  ChainInv'
<1>1. app = SetUp /\ app' = app
    BY DEF Register, appVars
<1>2. CASE UNCHANGED pipeVars
    BY <1>1, <1>2 DEF pipeVars, ChainInv, Chain, Filled
<1>3. CASE id = PhysicalLayer /\ RegisterPhysical
  <2>1. [input |-> channels + 1, output |-> channels + 2] \in [input : Nat, output : Nat]
    BY DEF ChainInv
  <2> QED BY <1>1, <1>3, <2>1, ChainRegistered DEF RegisterPhysical
<1>4. CASE id \in DataLinkLayer..SessionLayer /\ RegisterAbove(id) /\ Layers[id - 1] # Nil
  <2> DEFINE layer == [input |-> Layers[id - 1].output, output |-> channels + 1]
  <2>1. id - 1 \in Filled
    BY <1>4 DEF Filled, LayerType, PhysicalLayer, DataLinkLayer, SessionLayer, ApplicationLayer
  <2>2. layer \in [input : Nat, output : Nat] /\ layer.input = Layers[id - 1].output
        /\ layer.output \in Nat
    BY <2>1 DEF ChainInv, Filled
  <2>3. Registered(layer, id)
    BY <1>4 DEF RegisterAbove
  <2> HIDE DEF layer
  <2> QED BY <1>1, <1>4, <2>1, <2>2, <2>3, ChainRegistered
<1> QED BY <1>2, <1>3, <1>4 DEF Register, RegisterAbove

(* So does every step. *)
LEMMA ChainNext ==
    ASSUME ChainInv, [Next]_vars
    PROVE  ChainInv'
<1>1. ASSUME UNCHANGED pipeVars, app # SetUp \/ app' = app PROVE ChainInv'
    BY <1>1 DEF pipeVars, ChainInv, Chain, Filled
<1>2. ASSUME NEW id \in LayerType, Register(id) PROVE ChainInv'
    BY <1>2, ChainRegister
<1>3. CASE Start
    BY <1>3 DEF Start, pipeVars, ChainInv, Chain, Filled, FirstSlots, LayerType, PhysicalLayer,
                ApplicationLayer
<1>4. CASE \/ StartFlush \/ FlushTest \/ FlushReceive \/ FlushReturns \/ ResetGoesOn
           \/ Destroy \/ AskClose \/ CloseStops \/ CloseEnds
  <2>1. app.at # "setup"
    BY <1>4 DEF StartFlush, FlushTest, FlushReceive, FlushReturns, ResetGoesOn, Destroy, AskClose,
                CloseStops, CloseEnds, Calls, Up
  <2>2. app # SetUp
    BY <2>1 DEF SetUp
  <2>3. UNCHANGED pipeVars
    BY <1>4 DEF StartFlush, FlushTest, FlushReceive, FlushReturns, ResetGoesOn, Destroy, AskClose,
                CloseStops, CloseEnds
  <2> QED BY <1>1, <2>2, <2>3
<1>5. CASE RadioRuns \/ DemodRuns \/ DecoderRuns \/ \E n \in 1..MaxBlocks : SpectrumRuns(n)
    BY <1>1, <1>5 DEF RadioRuns, DemodRuns, DecoderRuns, SpectrumRuns, appVars
<1>6. CASE UNCHANGED vars
    BY <1>1, <1>6 DEF vars, appVars
<1> QED BY <1>2, <1>3, <1>4, <1>5, <1>6 DEF Next, AppRuns

(***************************************************************************)
(* Whatever was registered, what survives Start is a chain.                *)
(***************************************************************************)
THEOREM StartedIsWired == Spec => []Wired
<1>1. ChainInv => Wired
  <2> SUFFICES ASSUME ChainInv, app # SetUp PROVE Wired
    BY DEF Wired
  <2>1. FirstSlots(NumLayersRegistered) \subseteq Filled
    BY DEF ChainInv, Filled
  <2>2. Cardinality(FirstSlots(NumLayersRegistered)) = NumLayersRegistered
    <3>1. NumLayersRegistered \in Nat
      BY DEF ChainInv
    <3>2. CASE NumLayersRegistered = 0
      <4>1. FirstSlots(NumLayersRegistered) = {}
        BY <3>2 DEF FirstSlots
      <4> QED BY <3>2, <4>1, FS_EmptySet
    <3>3. CASE NumLayersRegistered # 0
      BY <3>1, <3>3, FS_Interval DEF FirstSlots
    <3> QED BY <3>2, <3>3
  <2>3. Cardinality(FirstSlots(NumLayersRegistered)) <= Cardinality(Filled)
    BY <2>1, FilledFinite, FS_Subset
  <2>4. Chain
    BY <2>2, <2>3, FilledFinite DEF ChainInv
  <2> QED BY <2>1, <2>4 DEF Wired, Chain, Filled
<1> QED BY <1>1, ChainInit, ChainNext, PTL DEF Spec
-----------------------------------------------------------------------------
(***************************************************************************)
(* TypeOK is inductive with the place of the loop: without a block nothing *)
(* is left to send, and a tested symbol is one of the block's.             *)
(***************************************************************************)
Block == 1..MaxBlocks

DemodTypes ==
    /\ SampleInput \in Seq(Block) /\ Len(SampleInput) <= BufferSize
    /\ blocks \in 0..MaxBlocks
    /\ block \in {Nil} \cup Block /\ left \in 0..BeforeFFT
    /\ block = Nil => left = 0
    /\ tested => left \in 1..SymbolsPerBlock
    /\ SymbolsOutput \in 0..BufferSize
    /\ ffts \subseteq [block : Block, at : {"started", "computing", "sleeping"}]
    /\ CurrentFFT \in 0..MaxBlocks

AppTypes ==
    /\ crashed \in {"no", "nil", "send", "close"}
    /\ NumLayersRegistered \in 0..MaxRegistrations
    /\ resetting \in {"none", "rx", "dropped", "total"}

(* The types hold at the start. *)
LEMMA TypesInit == Init => DemodTypes /\ AppTypes
    BY PipelineAssumption
       DEF Init, DemodInit, StatInit, DemodTypes, AppTypes, BeforeFFT

(* The demodulator's steps keep its types. *)
LEMMA DemodTypesDemod ==
    ASSUME DemodTypes, DemodStep
    PROVE  DemodTypes'
<1> USE PipelineAssumption
<1>1. CASE TakeBlock
    BY <1>1 DEF TakeBlock, DemodTypes, Block, BeforeFFT, spectrum
<1>2. CASE StartFFT
    BY <1>2 DEF StartFFT, DemodTypes, Block, BeforeFFT
<1>3. CASE TestStopping
  <2>1. /\ left \in 1..SymbolsPerBlock
        /\ left' = left \/ (left' = left - 1 /\ ~tested')
        /\ UNCHANGED <<SampleInput, blocks, block, SymbolsOutput, spectrum>>
    BY <1>3 DEF TestStopping
  <2> QED BY <2>1 DEF DemodTypes, Block, BeforeFFT, spectrum
<1>4. CASE SendSymbol
  <2>1. UNCHANGED <<SampleInput, blocks, block, spectrum>> /\ tested
    BY <1>4 DEF SendSymbol
  <2>2. /\ left' = left \/ (left' = left - 1 /\ ~tested')
        /\ \/ UNCHANGED SymbolsOutput
           \/ SymbolsOutput < BufferSize /\ SymbolsOutput' = SymbolsOutput + 1
    BY <1>4 DEF SendSymbol
  <2>3. left \in 1..SymbolsPerBlock /\ block # Nil
    BY <2>1 DEF DemodTypes
  <2>4. /\ left' \in 0..BeforeFFT /\ SymbolsOutput' \in 0..BufferSize
        /\ tested' => left' \in 1..SymbolsPerBlock
    BY <2>1, <2>2, <2>3 DEF DemodTypes, BeforeFFT
  <2> QED BY <2>1, <2>3, <2>4 DEF DemodTypes, Block, spectrum
<1>5. CASE EndBlock
    BY <1>5 DEF EndBlock, DemodTypes, Block, BeforeFFT, spectrum
<1> QED BY <1>1, <1>2, <1>3, <1>4, <1>5 DEF DemodStep

(* The steps of a spectrum's goroutine keep them. *)
LEMMA DemodTypesFFT ==
    ASSUME DemodTypes, NEW g \in ffts, FFTStep(g)
    PROVE  DemodTypes'
<1> DEFINE moved(at) == [g EXCEPT !.at = at]
<1>1. \A at \in {"computing", "sleeping"} :
         moved(at) \in [block : Block, at : {"started", "computing", "sleeping"}]
    BY DEF DemodTypes
<1>2. g.block \in 0..MaxBlocks
    BY DEF DemodTypes, Block
<1> HIDE DEF moved
<1>3. CASE SetWorking(g)
    BY <1>1, <1>3 DEF SetWorking, Moves, DemodTypes, sending, BeforeFFT, moved
<1>4. CASE Publish(g)
    BY <1>1, <1>2, <1>4 DEF Publish, Moves, DemodTypes, sending, BeforeFFT, moved
<1>5. CASE EndFFT(g)
    BY <1>5 DEF EndFFT, DemodTypes, sending, BeforeFFT
<1> QED BY <1>3, <1>4, <1>5 DEF FFTStep

(* The application's calls keep all types. *)
LEMMA TypesApp ==
    ASSUME DemodTypes, AppTypes, AppRuns, crashed = "no"
    PROVE  DemodTypes' /\ AppTypes'
<1> USE PipelineAssumption
<1>1. ASSUME NEW id \in LayerType, Register(id) PROVE DemodTypes' /\ AppTypes'
  <2>1. DemodTypes'
    BY <1>1 DEF Register, DemodTypes, sending, spectrum, BeforeFFT
  <2>2. AppTypes'
    BY <1>1 DEF Register, RegisterPhysical, RegisterAbove, Registered, pipeVars, statVars, AppTypes
  <2> QED BY <2>1, <2>2
<1>2. CASE Start
    BY <1>2 DEF Start, DemodTypes, AppTypes, sending, spectrum, BeforeFFT, pipeVars, statVars
<1>3. CASE FlushReceive
  <2>1. UNCHANGED <<blocks, block, left, tested, spectrum, crashed, statVars, pipeVars>>
    BY <1>3 DEF FlushReceive
  <2>2. /\ UNCHANGED SampleInput \/ (SampleInput # << >> /\ SampleInput' = Tail(SampleInput))
        /\ \/ UNCHANGED SymbolsOutput
           \/ SymbolsOutput > 0 /\ SymbolsOutput' = SymbolsOutput - 1
    BY <1>3 DEF FlushReceive
  <2>3. SampleInput' \in Seq(Block) /\ Len(SampleInput') <= BufferSize
    BY <2>2 DEF DemodTypes
  <2>4. SymbolsOutput' \in 0..BufferSize
    BY <2>2 DEF DemodTypes
  <2> QED BY <2>1, <2>3, <2>4 DEF DemodTypes, AppTypes, spectrum, BeforeFFT, pipeVars, statVars
<1>4. CASE FlushReturns \/ ResetGoesOn
    BY <1>4 DEF FlushReturns, ResetGoesOn, StartReset, ResetStep, ResetRx, ResetDropped, ResetTotal,
                DemodTypes, AppTypes, demodVars, sending, spectrum, BeforeFFT, pipeVars, statVars
<1>5. CASE StartFlush \/ FlushTest \/ Destroy \/ AskClose
    BY <1>5 DEF StartFlush, FlushTest, Destroy, AskClose, DemodTypes, AppTypes, demodVars,
                sending, spectrum, BeforeFFT, pipeVars, statVars
<1>6. CASE CloseStops \/ CloseEnds
    BY <1>6 DEF CloseStops, CloseEnds, Stop, CloseOutput, DemodTypes, AppTypes,
                sending, spectrum, BeforeFFT, pipeVars, statVars
<1> QED BY <1>1, <1>2, <1>3, <1>4, <1>5, <1>6 DEF AppRuns

(* So does every step. *)
LEMMA TypesNext ==
    ASSUME DemodTypes, AppTypes, [Next]_vars
    PROVE  DemodTypes' /\ AppTypes'
<1>1. CASE Next /\ AppRuns
    BY <1>1, TypesApp DEF Next
<1>2. CASE Next /\ RadioRuns
    BY <1>2, PipelineAssumption
       DEF RadioRuns, Sample, DemodTypes, AppTypes, Block, sending, spectrum, BeforeFFT, statVars,
           pipeVars
<1>3. CASE Next /\ DemodRuns
  <2>1. DemodTypes'
    BY <1>3, DemodTypesDemod DEF DemodRuns
  <2>2. AppTypes'
    BY <1>3 DEF DemodRuns, DemodStep, TakeBlock, StartFFT, TestStopping, SendSymbol, EndBlock,
                AppTypes, statVars, pipeVars
  <2> QED BY <2>1, <2>2
<1>4. CASE Next /\ DecoderRuns
  <2>1. /\ UNCHANGED <<SampleInput, blocks, block, left, tested, spectrum, crashed, pipeVars>>
        /\ \/ UNCHANGED SymbolsOutput
           \/ SymbolsOutput > 0 /\ SymbolsOutput' = SymbolsOutput - 1
    BY <1>4 DEF DecoderRuns, DecoderTakes, DecoderReceives, demodVars, sending
  <2>2. UNCHANGED resetting
    BY <1>4 DEF DecoderRuns, DecoderTakes, ReadTotal, CountStep, WriteTotal, LookUp, Count, statVars
  <2> QED BY <2>1, <2>2, PipelineAssumption
          DEF DemodTypes, AppTypes, spectrum, BeforeFFT, pipeVars
<1>5. ASSUME Next, NEW n \in 1..MaxBlocks, SpectrumRuns(n) PROVE DemodTypes' /\ AppTypes'
  <2>1. PICK g \in ffts : FFTStep(g)
    BY <1>5 DEF SpectrumRuns, FFTOf
  <2>2. DemodTypes'
    BY <2>1, DemodTypesFFT
  <2>3. UNCHANGED <<crashed, statVars, pipeVars>>
    BY <1>5, <2>1 DEF SpectrumRuns, FFTStep, SetWorking, Publish, EndFFT, Moves
  <2> QED BY <2>2, <2>3 DEF AppTypes, statVars, pipeVars
<1>6. CASE UNCHANGED vars
    BY <1>6 DEF vars, demodVars, statVars, pipeVars, sending, spectrum, DemodTypes, AppTypes,
                BeforeFFT
<1> QED BY <1>1, <1>2, <1>3, <1>4, <1>5, <1>6 DEF Next

(***************************************************************************)
(* Pipeline keeps its types: no channel is overfilled or drained below     *)
(* empty, whoever sends and receives.                                      *)
(***************************************************************************)
THEOREM PipelineTypes == Spec => []TypeOK
<1>1. DemodTypes /\ AppTypes => TypeOK
    BY DEF DemodTypes, AppTypes, TypeOK, Block
<1> QED BY <1>1, TypesInit, TypesNext, PTL DEF Spec
-----------------------------------------------------------------------------
(***************************************************************************)
(* Blocks wait in the order they came; whatever is being worked on came    *)
(* before them, and a block not yet tested after all spectra.              *)
(***************************************************************************)
Behind(n) == n <= blocks /\ \A i \in 1..Len(SampleInput) : n <= SampleInput[i]

QueueInv ==
    \A i \in 1..Len(SampleInput) :
        /\ SampleInput[i] <= blocks
        /\ \A j \in 1..Len(SampleInput) : i <= j => SampleInput[i] <= SampleInput[j]

OrderInv ==
    /\ QueueInv
    /\ Behind(CurrentFFT)
    /\ block # Nil => Behind(block)
    /\ \A g \in ffts : Behind(g.block)
    /\ left = BeforeFFT => CurrentFFT <= block /\ \A g \in ffts : g.block <= block
    /\ ~raced => \A g \in ffts : CurrentFFT <= g.block

(* At the start nothing is queued. *)
LEMMA OrderInit == Init => OrderInv
    BY PipelineAssumption DEF Init, DemodInit, OrderInv, QueueInv, Behind, BeforeFFT

(* A block leaves the queue. *)
LEMMA QueueTail ==
    ASSUME DemodTypes, QueueInv, SampleInput # << >>,
           SampleInput' = Tail(SampleInput), blocks' = blocks,
           NEW head \in Block, head = Head(SampleInput)
    PROVE  /\ QueueInv' /\ Behind(head)'
           /\ \A n \in 0..MaxBlocks : Behind(n) => Behind(n)' /\ n <= head
<1>1. /\ SampleInput \in Seq(Block) /\ Len(SampleInput) \in Nat \ {0}
      /\ Len(SampleInput') = Len(SampleInput) - 1
      /\ \A i \in 1..Len(SampleInput') : SampleInput'[i] = SampleInput[i + 1]
      /\ Head(SampleInput) = SampleInput[1]
    BY DEF DemodTypes
<1>2. \A i \in 1..Len(SampleInput') : i + 1 \in 1..Len(SampleInput)
    BY <1>1
<1>3. QueueInv'
    BY <1>1, <1>2 DEF QueueInv
<1>4. 1 \in 1..Len(SampleInput)
    BY <1>1
<1>5. Behind(head)'
    BY <1>1, <1>2, <1>4 DEF QueueInv, Behind
<1>6. ASSUME NEW n \in 0..MaxBlocks, Behind(n) PROVE Behind(n)' /\ n <= head
    BY <1>1, <1>2, <1>4, <1>6 DEF Behind
<1> QED BY <1>3, <1>5, <1>6

(* A block joins it. *)
LEMMA QueueAppend ==
    ASSUME DemodTypes, QueueInv, blocks' = blocks + 1,
           SampleInput' = Append(SampleInput, blocks')
    PROVE  /\ QueueInv'
           /\ \A n \in 0..MaxBlocks : Behind(n) => Behind(n)'
<1>1. /\ Len(SampleInput) \in Nat /\ blocks \in Nat
      /\ Len(SampleInput') = Len(SampleInput) + 1
      /\ \A i \in 1..Len(SampleInput) : SampleInput'[i] = SampleInput[i] /\ SampleInput[i] \in Nat
      /\ SampleInput'[Len(SampleInput) + 1] = blocks + 1
  <2>1. SampleInput \in Seq(Block)
    BY DEF DemodTypes
  <2>2. blocks \in Nat
    BY DEF DemodTypes
  <2>3. \A b \in Block : b \in Nat
    BY DEF Block
  <2>4. \A i \in 1..Len(SampleInput) : SampleInput[i] \in Nat
    BY <2>1, <2>3
  <2>5. SampleInput' = Append(SampleInput, blocks + 1)
    OBVIOUS
  <2> QED BY <2>1, <2>2, <2>4, <2>5
<1>2. \A i \in 1..Len(SampleInput') : i \in 1..Len(SampleInput) \/ i = Len(SampleInput) + 1
    BY <1>1
<1> QED BY <1>1, <1>2 DEF QueueInv, Behind

(* Steps that touch neither blocks nor spectra keep it. *)
LEMMA OrderUnchanged ==
    ASSUME OrderInv, UNCHANGED <<SampleInput, blocks, spectrum>>, block' \in {block, Nil},
           left' = BeforeFFT => left = BeforeFFT /\ block' = block
    PROVE  OrderInv' /\ CurrentFFT' = CurrentFFT
    BY DEF OrderInv, QueueInv, Behind, spectrum, BeforeFFT

(* The loop takes a block or tests the flag for it. *)
LEMMA OrderTake ==
    ASSUME DemodTypes, OrderInv, TakeBlock
    PROVE  OrderInv' /\ CurrentFFT' = CurrentFFT
<1> DEFINE head == Head(SampleInput)
<1>1. /\ SampleInput # << >> /\ SampleInput' = Tail(SampleInput) /\ blocks' = blocks
      /\ \/ block' = Nil /\ left' = 0
         \/ block' = head /\ left' = BeforeFFT
      /\ UNCHANGED spectrum
    BY DEF TakeBlock
<1>2. head \in Block
    BY <1>1 DEF DemodTypes
<1> HIDE DEF head
<1>3. PICK h \in Block : h = head
    BY <1>2
<1>4. /\ QueueInv' /\ Behind(h)'
      /\ \A n \in 0..MaxBlocks : Behind(n) => Behind(n)' /\ n <= h
    BY <1>1, <1>3, QueueTail DEF OrderInv, head
<1>5. UNCHANGED <<ffts, CurrentFFT, raced>>
    BY <1>1 DEF spectrum
<1>6. CurrentFFT \in 0..MaxBlocks /\ \A g \in ffts : g.block \in 0..MaxBlocks
    BY DEF DemodTypes, Block
<1>7. /\ Behind(CurrentFFT)' /\ CurrentFFT <= h
      /\ \A g \in ffts : Behind(g.block)' /\ g.block <= h
    BY <1>4, <1>5, <1>6 DEF OrderInv, Behind
<1>8. block' # Nil => Behind(block)'
    BY <1>1, <1>3, <1>4 DEF Behind
<1>9. left' = BeforeFFT => block' = h
    BY <1>1, <1>3, PipelineAssumption DEF BeforeFFT
<1> QED BY <1>4, <1>5, <1>7, <1>8, <1>9 DEF OrderInv, BeforeFFT

(* The start of a spectrum's goroutine keeps it. *)
LEMMA OrderStart ==
    ASSUME DemodTypes, OrderInv, StartFFT
    PROVE  OrderInv' /\ CurrentFFT' = CurrentFFT
<1> DEFINE new == [block |-> block, at |-> "started"]
<1>1. /\ left = BeforeFFT /\ left' # BeforeFFT
      /\ UNCHANGED <<SampleInput, blocks, block, CurrentFFT>>
      /\ ffts' = ffts \/ ffts' = ffts \cup {new}
      /\ ~raced' => ~raced
    BY PipelineAssumption DEF StartFFT, BeforeFFT
<1>2. block # Nil /\ new.block = block
    BY <1>1, PipelineAssumption DEF DemodTypes, BeforeFFT
<1> HIDE DEF new
<1>3. \A g \in ffts' : g \in ffts \/ g.block = block
    BY <1>1, <1>2
<1>4. QueueInv' /\ Behind(CurrentFFT)' /\ (block' # Nil => Behind(block)')
    BY <1>1 DEF OrderInv, QueueInv, Behind
<1>5. ASSUME NEW g \in ffts' PROVE Behind(g.block)' /\ (~raced' => CurrentFFT <= g.block)
    BY <1>1, <1>2, <1>3, <1>5 DEF OrderInv, Behind
<1> QED BY <1>1, <1>4, <1>5 DEF OrderInv, BeforeFFT

(* A goroutine publishes: it is the only one, or some block raced. *)
LEMMA OrderFFT ==
    ASSUME DemodTypes, SpectrumInv, OrderInv, NEW g \in ffts, FFTStep(g)
    PROVE  OrderInv' /\ (~raced' => CurrentFFT' >= CurrentFFT)
<1>1. /\ UNCHANGED <<SampleInput, blocks, block, left, raced>>
      /\ CurrentFFT' \in {CurrentFFT, g.block}
    BY DEF FFTStep, SetWorking, Publish, EndFFT, Moves, sending
<1>2. \A h \in ffts' : \E f \in ffts : h.block = f.block
  <2> DEFINE moved(at) == [g EXCEPT !.at = at]
  <2>1. \A at \in {"computing", "sleeping"} : moved(at).block = g.block
    BY DEF DemodTypes
  <2> HIDE DEF moved
  <2>2. ffts' \subseteq ffts \cup {moved("computing"), moved("sleeping")}
    BY DEF FFTStep, SetWorking, Publish, EndFFT, Moves, moved
  <2> QED BY <2>1, <2>2
<1>3. CurrentFFT \in Nat /\ g.block \in Nat
    BY DEF DemodTypes, Block
<1>4. QueueInv' /\ (block' # Nil => Behind(block)')
    BY <1>1 DEF OrderInv, QueueInv, Behind
<1>5. Behind(CurrentFFT)'
    BY <1>1 DEF OrderInv, Behind
<1>6. \A h \in ffts' : Behind(h.block)'
    BY <1>1, <1>2 DEF OrderInv, Behind
<1>7. left' = BeforeFFT => CurrentFFT' <= block' /\ \A h \in ffts' : h.block <= block'
    BY <1>1, <1>2 DEF OrderInv
<1>8. ~raced' => CurrentFFT' >= CurrentFFT /\ \A h \in ffts' : CurrentFFT' <= h.block
  <2> SUFFICES ASSUME ~raced
               PROVE  CurrentFFT' >= CurrentFFT /\ \A h \in ffts' : CurrentFFT' <= h.block
    BY <1>1
  <2>1. \A h \in ffts' : h.block = g.block
    BY <1>2 DEF SpectrumInv
  <2>2. CurrentFFT <= g.block
    BY DEF OrderInv
  <2> QED BY <1>1, <1>3, <2>1, <2>2
<1> QED BY <1>4, <1>5, <1>6, <1>7, <1>8 DEF OrderInv, BeforeFFT

(* So does every step. *)
LEMMA OrderNext ==
    ASSUME DemodTypes, SpectrumInv, OrderInv, [Next]_vars
    PROVE  OrderInv' /\ (~raced' => CurrentFFT' >= CurrentFFT)
<1>0. CurrentFFT \in Nat
    BY DEF DemodTypes
<1>1. ASSUME UNCHANGED <<SampleInput, blocks, spectrum>>, block' \in {block, Nil},
             left' = BeforeFFT => left = BeforeFFT /\ block' = block
      PROVE  OrderInv' /\ (~raced' => CurrentFFT' >= CurrentFFT)
    BY <1>0, <1>1, OrderUnchanged
<1>2. CASE Next /\ AppRuns /\ ~FlushReceive
  <2>1. UNCHANGED <<SampleInput, blocks, block, left, spectrum>>
    BY <1>2 DEF AppRuns, Register, Start, StartFlush, FlushTest, FlushReturns, ResetGoesOn, Destroy,
                AskClose, CloseStops, CloseEnds, Stop, CloseOutput, demodVars, sending
  <2> QED BY <1>1, <2>1
<1>3. CASE FlushReceive
  <2>1. /\ UNCHANGED <<blocks, block, left, spectrum>>
        /\ UNCHANGED SampleInput \/ (SampleInput # << >> /\ SampleInput' = Tail(SampleInput))
    BY <1>3 DEF FlushReceive
  <2>2. CASE SampleInput # << >> /\ SampleInput' = Tail(SampleInput)
    <3>1. PICK h \in Block : h = Head(SampleInput)
      BY <2>2 DEF DemodTypes
    <3>2. QueueInv' /\ \A n \in 0..MaxBlocks : Behind(n) => Behind(n)'
      BY <2>1, <2>2, <3>1, QueueTail DEF OrderInv
    <3> QED BY <1>0, <2>1, <3>2 DEF OrderInv, DemodTypes, Block, spectrum, BeforeFFT
  <2> QED BY <1>1, <2>1, <2>2
<1>4. CASE Next /\ RadioRuns
  <2>1. /\ blocks' = blocks + 1 /\ SampleInput' = Append(SampleInput, blocks')
        /\ UNCHANGED <<block, left, spectrum>>
    BY <1>4 DEF RadioRuns, Sample, sending
  <2>2. QueueInv' /\ \A n \in 0..MaxBlocks : Behind(n) => Behind(n)'
    BY <2>1, QueueAppend DEF OrderInv
  <2> QED BY <1>0, <2>1, <2>2 DEF OrderInv, DemodTypes, Block, spectrum, BeforeFFT
<1>5. CASE Next /\ DemodRuns
  <2>1. CASE TestStopping \/ SendSymbol \/ EndBlock
    <3>1. UNCHANGED <<SampleInput, blocks, spectrum>> /\ block' \in {block, Nil}
      BY <2>1 DEF TestStopping, SendSymbol, EndBlock
    <3>2. /\ left' = left \/ (left' = left - 1 /\ left \in 1..SymbolsPerBlock)
          /\ block' = block \/ left = 0
      BY <2>1 DEF TestStopping, SendSymbol, EndBlock, DemodTypes
    <3>3. left' = BeforeFFT => left = BeforeFFT /\ block' = block
      BY <3>2, PipelineAssumption DEF BeforeFFT, DemodTypes
    <3> QED BY <1>1, <3>1, <3>3
  <2> QED BY <1>0, <1>5, <2>1, OrderTake, OrderStart DEF DemodRuns, DemodStep
<1>6. CASE Next /\ DecoderRuns
  <2>1. UNCHANGED <<SampleInput, blocks, block, left, spectrum>>
    BY <1>6 DEF DecoderRuns, DecoderTakes, DecoderReceives, demodVars, sending
  <2> QED BY <1>1, <2>1
<1>7. CASE Next /\ \E n \in 1..MaxBlocks : SpectrumRuns(n)
    BY <1>7, OrderFFT DEF SpectrumRuns, FFTOf
<1>8. CASE UNCHANGED vars
    BY <1>1, <1>8 DEF vars, demodVars, sending
<1> QED BY <1>2, <1>3, <1>4, <1>5, <1>6, <1>7, <1>8 DEF Next

(***************************************************************************)
(* Spectra are published in the order of their blocks, unless a block      *)
(* overtook the flag.                                                      *)
(***************************************************************************)
THEOREM SpectraPublishedInOrder == Spec => SpectraInOrder
<1> DEFINE Inv == DemodTypes /\ AppTypes /\ SpectrumInv /\ OrderInv
<1>1. Init => Inv
    BY TypesInit, SpectrumInit, OrderInit DEF Init
<1>2. Inv /\ [Next]_vars => Inv' /\ [~raced' => CurrentFFT' >= CurrentFFT]_vars
    BY TypesNext, SpectrumNext, OrderNext
<1> HIDE DEF Inv
<1> QED BY <1>1, <1>2, PTL DEF Spec, SpectraInOrder
=============================================================================
