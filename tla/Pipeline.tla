------------------------------ MODULE Pipeline ------------------------------
(***************************************************************************)
(* A pipeline and the application that owns it: layers are registered,     *)
(* started, and then flushed, reset and destroyed while the demodulator,   *)
(* the goroutines of its spectra and the decoder go on.  The layers behind *)
(* the decoder are modelled elsewhere; their Flush, Reset and Destroy do   *)
(* nothing.  The application registers nothing once it has called Start,   *)
(* and makes one call at a time.                                           *)
(***************************************************************************)
EXTENDS Demodulator, Statistics

CONSTANTS MaxRegistrations, MaxCalls      \* bounds

ASSUME PipelineAssumption ==
    /\ MaxBlocks \in Nat /\ SymbolsPerBlock \in Nat /\ BufferSize \in Nat
    /\ MaxRegistrations \in Nat /\ MaxCalls \in Nat
    /\ DoFFT \in BOOLEAN
    /\ Nil \notin Nat /\ Nil \notin [input : Nat, output : Nat]

VARIABLES
    Layers,               \* slot -> a layer's channels, or Nil
    NumLayersRegistered,
    channels,             \* how many have been made
    app,                  \* what the application is doing
    calls,                \* calls since Start
    asked                 \* it has closed the demodulator itself (history)

pipeVars == <<Layers, NumLayersRegistered, channels>>
appVars == <<app, calls, asked>>
vars == <<demodVars, statVars, pipeVars, appVars>>

PhysicalLayer == 0
DataLinkLayer == 1
SessionLayer == 3
ApplicationLayer == 5
LayerType == PhysicalLayer..ApplicationLayer

SetUp == [at |-> "setup"]
Up == [at |-> "up"]

Init ==
    /\ DemodInit /\ StatInit
    /\ Layers = [id \in LayerType |-> Nil] /\ NumLayersRegistered = 0 /\ channels = 0
    /\ app = SetUp /\ calls = 0 /\ asked = FALSE
-----------------------------------------------------------------------------
(* Register *)

(* Mutant: a layer that is registered again is not counted again. *)
RegisteredOnce(layer, id) ==
    /\ Layers' = [Layers EXCEPT ![id] = layer]
    /\ channels' = layer.output
    /\ NumLayersRegistered' = NumLayersRegistered + (IF Layers[id] = Nil THEN 1 ELSE 0)
    /\ UNCHANGED crashed

(* Each layer reads what the one below it writes. *)
Registered(layer, id) ==
    /\ Layers' = [Layers EXCEPT ![id] = layer]
    /\ channels' = layer.output
    /\ NumLayersRegistered' = NumLayersRegistered + 1
    /\ UNCHANGED crashed

RegisterPhysical ==
    Registered([input |-> channels + 1, output |-> channels + 2], PhysicalLayer)

(* The layer below is asked for its output; with none there, a nil is.     *)
RegisterAbove(id) ==
    IF Layers[id - 1] = Nil THEN crashed' = "nil" /\ UNCHANGED pipeVars
    ELSE Registered([input |-> Layers[id - 1].output, output |-> channels + 1], id)

(* The two uppermost are accepted, and nothing is made for them. *)
Register(id) ==
    /\ app = SetUp /\ NumLayersRegistered < MaxRegistrations
    /\ \/ id = PhysicalLayer /\ RegisterPhysical
       \/ id \in DataLinkLayer..SessionLayer /\ RegisterAbove(id)
       \/ id > SessionLayer /\ UNCHANGED <<pipeVars, crashed>>
    /\ UNCHANGED <<SampleInput, blocks, sending, spectrum, closing, statVars, appVars>>
-----------------------------------------------------------------------------
(* Start, Flush, Reset, Destroy and the demodulator's Close *)

(* A loop over the first slots, as many as layers were registered. *)
FirstSlots(n) == 0..(n - 1)

Start ==
    /\ app = SetUp
    /\ IF \E i \in FirstSlots(NumLayersRegistered) : i > ApplicationLayer \/ Layers[i] = Nil
       THEN crashed' = "nil" /\ UNCHANGED app
       ELSE app' = Up /\ UNCHANGED crashed
    /\ UNCHANGED <<SampleInput, blocks, sending, spectrum, closing, statVars, pipeVars, calls,
                   asked>>

Calls ==
    /\ app = Up /\ calls < MaxCalls
    /\ calls' = calls + 1

(* The channels a flush drains: the demodulator's two, the decoder's input. *)
Drains == << "samples", "symbols", "symbols" >>

DrainsOf(n) == SubSeq(Drains, 1, CASE n = 0 -> 0 [] n = 1 -> 2 [] OTHER -> 3)

(* Flush alone, or the one that Reset begins with. *)
StartFlush ==
    /\ Calls
    /\ \E reset \in BOOLEAN :
          app' = [at |-> "flush", left |-> DrainsOf(NumLayersRegistered), seen |-> FALSE,
                  reset |-> reset]
    /\ UNCHANGED <<demodVars, statVars, pipeVars, asked>>

Held(channel) == IF channel = "samples" THEN Len(SampleInput) ELSE SymbolsOutput

(* The length of the channel is tested... *)
FlushTest ==
    /\ app.at = "flush" /\ app.left # << >> /\ ~app.seen
    /\ app' = IF Held(Head(app.left)) > 0 THEN [app EXCEPT !.seen = TRUE]
              ELSE [app EXCEPT !.left = Tail(@)]
    /\ UNCHANGED <<demodVars, statVars, pipeVars, calls, asked>>

(* ...and something received, for which Flush may have to wait by then,    *)
(* unless the channel was closed.                                          *)
FlushReceive ==
    /\ app.at = "flush" /\ app.seen
    /\ app' = [app EXCEPT !.seen = FALSE]
    /\ \/ /\ Head(app.left) = "samples" /\ SampleInput # << >>
          /\ SampleInput' = Tail(SampleInput)
          /\ UNCHANGED SymbolsOutput
       \/ /\ Head(app.left) = "symbols" /\ SymbolsOutput > 0
          /\ SymbolsOutput' = SymbolsOutput - 1
          /\ UNCHANGED SampleInput
       \/ /\ Head(app.left) = "symbols" /\ SymbolsOutput = 0 /\ closed
          /\ UNCHANGED <<SampleInput, SymbolsOutput>>
    /\ UNCHANGED <<blocks, block, left, tested, spectrum, closing, crashed, statVars, pipeVars,
                   calls, asked>>

(* Flush returns; of the layers' Resets only the decoder's does anything. *)
FlushReturns ==
    /\ app.at = "flush" /\ app.left = << >>
    /\ IF app.reset /\ NumLayersRegistered > DataLinkLayer
       THEN app' = [at |-> "reset"] /\ StartReset
       ELSE app' = Up /\ UNCHANGED statVars
    /\ UNCHANGED <<demodVars, pipeVars, calls, asked>>

ResetGoesOn ==
    /\ app.at = "reset"
    /\ ResetStep
    /\ app' = IF resetting' = "none" THEN Up ELSE app
    /\ UNCHANGED <<demodVars, pipeVars, calls, asked>>

(* Destroy counts down and ends before the first slot.  Mutant: it reaches it. *)
DestroyedAll(n) == FirstSlots(n)

Destroyed(n) == 1..(n - 1)

(* Of the layers' Destroys only the demodulator's does anything: Close. *)
Destroy ==
    /\ Calls
    /\ app' = IF PhysicalLayer \in Destroyed(NumLayersRegistered) THEN [at |-> "close"] ELSE Up
    /\ UNCHANGED <<demodVars, statVars, pipeVars, asked>>

AskClose ==
    /\ Calls
    /\ Layers[PhysicalLayer] # Nil
    /\ app' = [at |-> "close"]
    /\ asked' = TRUE
    /\ UNCHANGED <<demodVars, statVars, pipeVars>>

CloseStops ==
    /\ app.at = "close"
    /\ Stop
    /\ app' = [at |-> "closing"]
    /\ UNCHANGED <<statVars, pipeVars, calls, asked>>

CloseEnds ==
    /\ app.at = "closing"
    /\ CloseOutput
    /\ app' = Up
    /\ UNCHANGED <<statVars, pipeVars, calls, asked>>
-----------------------------------------------------------------------------
(* The layers that have been started *)

Runs(id) == app # SetUp /\ id < NumLayersRegistered

(* A symbol of noise, or the last of a frame. *)
DecoderTakes ==
    /\ decoder = Idle
    /\ DecoderReceives
    /\ ReadTotal \/ UNCHANGED statVars

DemodRuns ==
    Runs(PhysicalLayer) /\ DemodStep /\ UNCHANGED <<statVars, pipeVars, appVars>>

DecoderRuns ==
    /\ Runs(DataLinkLayer)
    /\ DecoderTakes \/ (CountStep /\ UNCHANGED demodVars)
    /\ UNCHANGED <<pipeVars, appVars>>

SpectrumRuns(n) == FFTOf(n) /\ UNCHANGED <<statVars, pipeVars, appVars>>

RadioRuns ==
    Runs(PhysicalLayer) /\ Sample /\ UNCHANGED <<statVars, pipeVars, appVars>>

AppRuns ==
    \/ \E id \in LayerType : Register(id)
    \/ Start \/ StartFlush \/ FlushTest \/ FlushReceive \/ FlushReturns \/ ResetGoesOn
    \/ Destroy \/ AskClose \/ CloseStops \/ CloseEnds

(* A panic in one goroutine ends the process. *)
Next ==
    /\ crashed = "no"
    /\ \/ AppRuns \/ RadioRuns \/ DemodRuns \/ DecoderRuns
       \/ \E n \in 1..MaxBlocks : SpectrumRuns(n)

Spec == Init /\ [][Next]_vars

Alive(A) == crashed = "no" /\ A

(* The goroutines of the spectra are run; nothing else need ever be done.  *)
FairSpec == Spec /\ \A n \in 1..MaxBlocks : WF_vars(Alive(SpectrumRuns(n)))
-----------------------------------------------------------------------------
TypeOK ==
    /\ SampleInput \in Seq(1..MaxBlocks) /\ Len(SampleInput) <= BufferSize
    /\ block \in {Nil} \cup 1..MaxBlocks /\ left \in 0..BeforeFFT
    /\ SymbolsOutput \in 0..BufferSize
    /\ ffts \subseteq [block : 1..MaxBlocks, at : {"started", "computing", "sleeping"}]
    /\ crashed \in {"no", "nil", "send", "close"}
    /\ NumLayersRegistered \in 0..MaxRegistrations
    /\ resetting \in {"none", "rx", "dropped", "total"}

(* What is started is a chain from the radio upwards, each layer reading   *)
(* what the one below it writes, whatever was registered and in whichever  *)
(* order: a pipeline that is not one does not survive Start.               *)
Wired ==
    app # SetUp =>
        \A i \in FirstSlots(NumLayersRegistered) :
            /\ i \in LayerType /\ Layers[i] # Nil
            /\ i > 0 => Layers[i].input = Layers[i - 1].output

(* The flag that FFTWorking is keeps the spectra to one at a time, and so  *)
(* in the order of their blocks, unless a block is taken before the        *)
(* goroutine that was started for an earlier one has set it.               *)
OneSpectrum == ~raced => Cardinality(ffts) <= 1

SpectraInOrder == [][~raced' => CurrentFFT' >= CurrentFFT]_vars

(* The demodulator panics, sending on its closed channel, only when the    *)
(* application itself closes it, and between a test of Stopping and the    *)
(* send that follows; Destroy never brings this about.                     *)
SendPanicOnlyCaught == crashed = "send" => asked /\ caught

(* The flag is always cleared again, so that spectra go on being made. *)
SpectraGoOn == FFTWorking ~> (~FFTWorking \/ crashed # "no")
=============================================================================
