---------------------------- MODULE Demodulator ----------------------------
(***************************************************************************)
(* The physical layer: the loop that turns blocks of samples into symbols, *)
(* the goroutines it starts to compute a spectrum, and Close, which the    *)
(* application calls.  What the signal processing makes of the samples is  *)
(* left out; a block of full length yields SymbolsPerBlock symbols.        *)
(***************************************************************************)
EXTENDS Integers, Sequences, FiniteSets

CONSTANTS
    MaxBlocks,        \* bound: blocks from the radio
    SymbolsPerBlock,
    BufferSize,       \* capacity of the layers' channels
    DoFFT,            \* whether spectra are wanted
    Nil

VARIABLES
    SampleInput,      \* channel of blocks, numbered as they are received
    blocks,           \* how many there were
    block,            \* the block being demodulated, or Nil
    left,             \* symbols of it still to be sent, or BeforeFFT
    tested,           \* Stopping was found unset for the next symbol
    SymbolsOutput,    \* symbols in the channel to the decoder, a frame's worth as one
    closed,           \* that channel is closed
    Stopping,
    FFTWorking,
    ffts,             \* the doFFT goroutines: their block, and where they are
    CurrentFFT,       \* the block of the spectrum published last
    raced,            \* a block was tested before a goroutine had got going (history)
    caught,           \* Close began between a test of Stopping and its send (history)
    crashed           \* what brought the process down, or "no"

BeforeFFT == SymbolsPerBlock + 1

spectrum == <<FFTWorking, ffts, CurrentFFT, raced>>
sending == <<block, left, tested, SymbolsOutput>>
closing == <<closed, Stopping, caught>>
demodVars == <<SampleInput, blocks, sending, spectrum, closing, crashed>>

DemodInit ==
    /\ SampleInput = << >> /\ blocks = 0
    /\ block = Nil /\ left = 0 /\ tested = FALSE /\ SymbolsOutput = 0
    /\ closed = FALSE /\ Stopping = FALSE /\ caught = FALSE /\ crashed = "no"
    /\ FFTWorking = FALSE /\ ffts = {} /\ CurrentFFT = 0 /\ raced = FALSE

(* The radio. *)
Sample ==
    /\ blocks < MaxBlocks /\ Len(SampleInput) < BufferSize
    /\ blocks' = blocks + 1
    /\ SampleInput' = Append(SampleInput, blocks')
    /\ UNCHANGED <<sending, spectrum, closing, crashed>>
-----------------------------------------------------------------------------
(* demodBlock *)

(* A block that is too short is dropped. *)
TakeBlock ==
    /\ block = Nil /\ SampleInput # << >>
    /\ SampleInput' = Tail(SampleInput)
    /\ block' \in {Nil, Head(SampleInput)}
    /\ left' = IF block' = Nil THEN 0 ELSE BeforeFFT
    /\ UNCHANGED <<blocks, tested, SymbolsOutput, spectrum, closing, crashed>>

(* Mutant: a spectrum for every block. *)
StartFFTAlways ==
    /\ left = BeforeFFT
    /\ left' = SymbolsPerBlock
    /\ IF DoFFT
       THEN /\ ffts' = ffts \cup {[block |-> block, at |-> "started"]}
            /\ raced' = (raced \/ \E g \in ffts : g.at = "started")
       ELSE UNCHANGED <<ffts, raced>>
    /\ UNCHANGED <<SampleInput, blocks, block, tested, SymbolsOutput, FFTWorking, CurrentFFT,
                   closing, crashed>>

(* The test of FFTWorking; the goroutine that is started sets it.          *)
StartFFT ==
    /\ left = BeforeFFT
    /\ left' = SymbolsPerBlock
    /\ IF DoFFT /\ ~FFTWorking
       THEN /\ ffts' = ffts \cup {[block |-> block, at |-> "started"]}
            /\ raced' = (raced \/ \E g \in ffts : g.at = "started")
       ELSE UNCHANGED <<ffts, raced>>
    /\ UNCHANGED <<SampleInput, blocks, block, tested, SymbolsOutput, FFTWorking, CurrentFFT,
                   closing, crashed>>

(* Mutant: one symbol too many. *)
TestStoppingOnceMore ==
    /\ block # Nil /\ left \in 0..SymbolsPerBlock /\ ~tested
    /\ tested' = ~Stopping
    /\ left' = IF Stopping THEN left - 1 ELSE left
    /\ UNCHANGED <<SampleInput, blocks, block, SymbolsOutput, spectrum, closing, crashed>>

(* One symbol after the other: Stopping is tested, then the symbol is sent. *)
TestStopping ==
    /\ left \in 1..SymbolsPerBlock /\ ~tested
    /\ tested' = ~Stopping
    /\ left' = IF Stopping THEN left - 1 ELSE left
    /\ UNCHANGED <<SampleInput, blocks, block, SymbolsOutput, spectrum, closing, crashed>>

SendSymbol ==
    /\ tested
    /\ IF closed
       THEN crashed' = "send" /\ UNCHANGED <<left, tested, SymbolsOutput>>
       ELSE /\ SymbolsOutput < BufferSize
            /\ SymbolsOutput' = SymbolsOutput + 1
            /\ tested' = FALSE
            /\ left' = left - 1
            /\ UNCHANGED crashed
    /\ UNCHANGED <<SampleInput, blocks, block, spectrum, closing>>

EndBlock ==
    /\ block # Nil /\ left = 0
    /\ block' = Nil
    /\ UNCHANGED <<SampleInput, blocks, left, tested, SymbolsOutput, spectrum, closing, crashed>>

DemodStep == TakeBlock \/ StartFFT \/ TestStopping \/ SendSymbol \/ EndBlock

(* The decoder at the other end of the channel. *)
DecoderReceives ==
    /\ SymbolsOutput > 0
    /\ SymbolsOutput' = SymbolsOutput - 1
    /\ UNCHANGED <<SampleInput, blocks, block, left, tested, spectrum, closing, crashed>>
-----------------------------------------------------------------------------
(* doFFT *)

Moves(g, at) ==
    /\ ffts' = (ffts \ {g}) \cup {[g EXCEPT !.at = at]}
    /\ UNCHANGED <<SampleInput, blocks, sending, closing, crashed, raced>>

SetWorking(g) ==
    /\ g.at = "started"
    /\ FFTWorking' = TRUE
    /\ Moves(g, "computing")
    /\ UNCHANGED CurrentFFT

Publish(g) ==
    /\ g.at = "computing"
    /\ CurrentFFT' = g.block
    /\ Moves(g, "sleeping")
    /\ UNCHANGED FFTWorking

(* Mutant: the goroutine ends without clearing the flag. *)
EndFFTStillWorking(g) ==
    /\ g.at = "sleeping"
    /\ ffts' = ffts \ {g}
    /\ UNCHANGED <<FFTWorking, SampleInput, blocks, sending, closing, crashed, raced, CurrentFFT>>

EndFFT(g) ==
    /\ g.at = "sleeping"
    /\ FFTWorking' = FALSE
    /\ ffts' = ffts \ {g}
    /\ UNCHANGED <<SampleInput, blocks, sending, closing, crashed, raced, CurrentFFT>>

FFTStep(g) == SetWorking(g) \/ Publish(g) \/ EndFFT(g)

FFTOf(n) == \E g \in ffts : g.block = n /\ FFTStep(g)
-----------------------------------------------------------------------------
(* Close, in two steps, from the application's goroutine. *)

Stop ==
    /\ Stopping' = TRUE
    /\ caught' = (caught \/ tested)
    /\ UNCHANGED <<SampleInput, blocks, sending, spectrum, closed, crashed>>

CloseOutput ==
    /\ closed' = TRUE
    /\ crashed' = IF closed THEN "close" ELSE "no"
    /\ UNCHANGED <<SampleInput, blocks, sending, spectrum, Stopping, caught>>
=============================================================================
