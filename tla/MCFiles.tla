------------------------------ MODULE MCFiles ------------------------------
(***************************************************************************)
(* Small collections of LRIT files for the model checker: what their       *)
(* headers say, and the orders in which the SDUs of two APIDs may be sent. *)
(***************************************************************************)
EXTENDS LritFile, FiniteSetsExt

File(apid, lens) ==
    [apid |-> apid, lens |-> lens, image |-> FALSE, packed |-> FALSE,
     flagged |-> TRUE, zip |-> "none"]
Image(apid, lens) == [File(apid, lens) EXCEPT !.image = TRUE]
Packed(apid, lens) == [Image(apid, lens) EXCEPT !.packed = TRUE]
Unflagged(f) == [f EXCEPT !.flagged = FALSE]
Zipped(f, how) == [f EXCEPT !.zip = how]

(* The SDUs of APID a, file after file. *)
SDUsOf(a) ==
    FlattenSeq([i \in 1..Max(Sent) |->
        IF Meta[i].apid = a THEN [p \in 1..Parts(i) |-> <<i, p>>] ELSE << >>])

RECURSIVE Merge(_, _)
Merge(s, t) ==
    IF s = << >> THEN {t} ELSE IF t = << >> THEN {s}
    ELSE {<<Head(s)>> \o m : m \in Merge(Tail(s), t)}
         \cup {<<Head(t)>> \o m : m \in Merge(s, Tail(t))}

MCStreams == Merge(SDUsOf(1), SDUsOf(2))
=============================================================================
