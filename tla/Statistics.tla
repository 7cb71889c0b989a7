----------------------------- MODULE Statistics -----------------------------
(***************************************************************************)
(* The decoder's counters.  Its goroutine holds StatsMutex for each of its *)
(* updates; Reset, called from the application, takes no lock, so each     *)
(* read and each write is a step of its own.  The maps of counts per       *)
(* channel are modelled by their sums, and by a number that tells one map  *)
(* from the one that Reset puts in its place.  What else Reset clears,     *)
(* FrameLock and the two averages, is left out: nothing here reads it.     *)
(***************************************************************************)
EXTENDS Integers

VARIABLES
    TotalFramesProcessed,
    Rx, Dropped,          \* RxPacketsPerChannel and DroppedPacketsPerChannel
    decoder,              \* the frame being counted
    resetting,            \* the field that Reset writes next, or "none"
    since, begun,         \* frames finished since Reset began, and those of them
                          \* begun after it had ended (history)
    overlapped            \* Reset wrote the total between a read and a write of it (history)

counters == <<TotalFramesProcessed, Rx, Dropped>>
statVars == <<counters, decoder, resetting, since, begun, overlapped>>

Idle == [at |-> "idle"]

StatInit ==
    /\ TotalFramesProcessed = 0
    /\ Rx = [map |-> 0, sum |-> 0] /\ Dropped = [map |-> 0, sum |-> 0]
    /\ decoder = Idle
    /\ resetting = "none" /\ since = 0 /\ begun = 0 /\ overlapped = FALSE

(* A frame is decoded, and TotalFramesProcessed read to be incremented. *)
ReadTotal ==
    /\ decoder' = [at |-> "total", total |-> TotalFramesProcessed, fresh |-> resetting = "none"]
    /\ UNCHANGED <<counters, resetting, since, begun, overlapped>>

WriteTotal ==
    /\ decoder.at = "total"
    /\ TotalFramesProcessed' = decoder.total + 1
    /\ decoder' = [at |-> "decoded", fresh |-> decoder.fresh]
    /\ UNCHANGED <<Rx, Dropped, resetting, since, begun, overlapped>>

(* The frame is sent, which may take any time, or was corrupt; then the map *)
(* to count it in is looked up.                                             *)
LookUp ==
    /\ decoder.at = "decoded"
    /\ \E corrupt \in BOOLEAN :
          decoder' = [at |-> "counting", fresh |-> decoder.fresh, corrupt |-> corrupt,
                      map |-> IF corrupt THEN Dropped.map ELSE Rx.map]
    /\ UNCHANGED <<counters, resetting, since, begun, overlapped>>

(* A map that Reset has replaced meanwhile is nobody's any more. *)
Counted(m) == IF m.map = decoder.map THEN [m EXCEPT !.sum = @ + 1] ELSE m

Count ==
    /\ decoder.at = "counting"
    /\ IF decoder.corrupt THEN Dropped' = Counted(Dropped) /\ UNCHANGED Rx
       ELSE Rx' = Counted(Rx) /\ UNCHANGED Dropped
    /\ since' = since + 1
    /\ begun' = IF decoder.fresh THEN begun + 1 ELSE begun
    /\ decoder' = Idle
    /\ UNCHANGED <<TotalFramesProcessed, resetting, overlapped>>

CountStep == WriteTotal \/ LookUp \/ Count
-----------------------------------------------------------------------------
(* Reset: its assignments, in their order. *)

StartReset ==
    /\ resetting' = "rx"
    /\ since' = 0 /\ begun' = 0
    /\ decoder' = IF decoder = Idle THEN Idle ELSE [decoder EXCEPT !.fresh = FALSE]
    /\ UNCHANGED <<counters, overlapped>>

Emptied(m) == [map |-> m.map + 1, sum |-> 0]

ResetRx ==
    /\ resetting = "rx"
    /\ Rx' = Emptied(Rx)
    /\ resetting' = "dropped"
    /\ UNCHANGED <<Dropped, TotalFramesProcessed, decoder, since, begun, overlapped>>

(* Mutant: the counts of dropped frames are kept. *)
ResetDroppedNot ==
    /\ resetting = "dropped"
    /\ resetting' = "total"
    /\ UNCHANGED <<counters, decoder, since, begun, overlapped>>

ResetDropped ==
    /\ resetting = "dropped"
    /\ Dropped' = Emptied(Dropped)
    /\ resetting' = "total"
    /\ UNCHANGED <<Rx, TotalFramesProcessed, decoder, since, begun, overlapped>>

ResetTotal ==
    /\ resetting = "total"
    /\ TotalFramesProcessed' = 0
    /\ resetting' = "none"
    /\ overlapped' = (decoder.at = "total")
    /\ UNCHANGED <<Rx, Dropped, decoder, since, begun>>

ResetStep == ResetRx \/ ResetDropped \/ ResetTotal
-----------------------------------------------------------------------------
(* Once Reset has returned, the counts are those of the frames decoded     *)
(* since: no frame decoded from then on is missing from them, and none is  *)
(* left in them from before Reset began (the frame in decoding meanwhile   *)
(* may be counted or not).  The total, which the decoder reads and writes  *)
(* with Reset's zero in between, is the exception: the old one comes back. *)
CountsSinceReset ==
    resetting = "none" =>
        /\ begun <= Rx.sum + Dropped.sum
        /\ Rx.sum + Dropped.sum <= since
        /\ ~overlapped => begun <= TotalFramesProcessed /\ TotalFramesProcessed <= since + 1
=============================================================================
