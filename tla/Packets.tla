------------------------------ MODULE Packets ------------------------------
(***************************************************************************)
(* The arithmetic of package packets that the assemblers rely on: the      *)
(* distance between two readings of a counter that wraps around.           *)
(***************************************************************************)
EXTENDS Integers

(* Mutant: the difference without the wrap. *)
CounterDiffNoWrap(div, a, b) == IF a < div /\ b < div /\ a <= b THEN b - a ELSE 0

(***************************************************************************)
(* How far counter reading b is ahead of reading a, both read modulo div.  *)
(* A reading outside 0..div-1 yields 0, as does an equal pair.  The Go     *)
(* result is a 64-bit uint; every branch is far below 2^64.                *)
(***************************************************************************)
CounterDiff(div, a, b) ==
    IF a < div /\ b < div
    THEN IF a <= b THEN b - a ELSE div - a + b
    ELSE 0
=============================================================================
