------------------------------ MODULE Session ------------------------------
(***************************************************************************)
(* The session layer, LRITGen: one goroutine that takes closed files from  *)
(* the transport layer, drops those that are not valid or whose ZIP        *)
(* archive does not unpack, and passes the others on to the application.   *)
(***************************************************************************)
EXTENDS LritFile

CONSTANT BufferSize      \* capacity of a channel between two layers

VARIABLES
    exposed,             \* files whose octets may be other files' too (Assembler)
    TransportInput,      \* channel from the transport layer
    lf,                  \* the file being sent on, or Nil
    LRITOutput           \* channel to the application

SessionInit == lf = Nil /\ LRITOutput = << >>

(* An archive that was written over may not unpack either. *)
Unzips(f, unzips) ==
    unzips = (Meta[f.file].zip # "broken") \/ (Meta[f.file].zip = "sound" /\ f.file \in exposed)

(* ProcessTransportFile up to its send: a file that is dropped is gone. *)
ProcessTransportFile ==
    /\ lf = Nil
    /\ TransportInput # << >>
    /\ TransportInput' = Tail(TransportInput)
    /\ \E f \in {Head(TransportInput)}, unzips \in BOOLEAN :
          /\ Unzips(f, unzips)
          /\ lf' = IF IsValid(f) /\ unzips THEN f ELSE Nil
    /\ UNCHANGED <<exposed, LRITOutput>>

(* Mutant: a file that finds the channel full is thrown away. *)
SendFileIfRoom ==
    /\ lf # Nil
    /\ LRITOutput' = IF Len(LRITOutput) < BufferSize THEN Append(LRITOutput, lf) ELSE LRITOutput
    /\ lf' = Nil
    /\ UNCHANGED <<exposed, TransportInput>>

(* The send blocks while the application leaves the channel full. *)
SendFile ==
    /\ lf # Nil
    /\ Len(LRITOutput) < BufferSize
    /\ LRITOutput' = Append(LRITOutput, lf)
    /\ lf' = Nil
    /\ UNCHANGED <<exposed, TransportInput>>
=============================================================================
