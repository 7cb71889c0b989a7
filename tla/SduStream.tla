----------------------------- MODULE SduStream -----------------------------
(***************************************************************************)
(* What a demultiplexer promises to the file assembly behind it: the SDUs  *)
(* it hands over are those the ground segment put on the virtual channel,  *)
(* some of them lost, none duplicated and none out of order, with damaged  *)
(* SDUs (which fail their CRC) possible anywhere between the good ones.    *)
(*                                                                         *)
(* An SDU is named by the stream offset of its first octet; `good' says    *)
(* that its octets are exactly those that were sent.                       *)
(***************************************************************************)
EXTENDS Naturals, Sequences

VARIABLES
    sent,      \* offsets of the data packets on the channel; never changes
    out        \* everything handed over so far

SDU == [from : Nat, good : BOOLEAN]

(***************************************************************************)
(* The good SDUs of q are packets that were sent, in increasing offset.    *)
(***************************************************************************)
InOrder(q) ==
    /\ \A i \in DOMAIN q : q[i].good => q[i].from \in sent
    /\ \A i, j \in DOMAIN q :
          i < j /\ q[i].good /\ q[j].good => q[i].from < q[j].from

Init == out = << >> /\ sent \subseteq Nat

(* Some SDUs are handed over; earlier ones stay handed over. *)
HandOver ==
    /\ out' \in Seq(SDU)
    /\ Len(out) <= Len(out')
    /\ \A i \in DOMAIN out : out'[i] = out[i]
    /\ sent' = sent
    /\ InOrder(out')

Spec == Init /\ [][HandOver]_<<sent, out>>
=============================================================================
