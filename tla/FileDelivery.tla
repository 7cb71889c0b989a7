---------------------------- MODULE FileDelivery ----------------------------
(***************************************************************************)
(* What the receiver promises to the application, whatever the link loses: *)
(* every file it gets is one that was sent, at most once, the files of an  *)
(* APID in the order they were sent.  Unless it shares its buffer with     *)
(* others (exposed), a file that is not an image has all of its content,   *)
(* and an image has the size it declares, its rows in order, with filler   *)
(* only in the place of SDUs that were lost and at its end; and a file     *)
(* that was handed over is not exposed any more afterwards.                *)
(***************************************************************************)
EXTENDS LritFile

VARIABLES
    received,       \* the files the application got, in order
    exposed         \* the files whose octets may be other files' too

Whole(f) == f.data = Original[f.file]

(* Rows of the original, in order and none of them too far from another. *)
RowsInOrder(f) ==
    LET rows == {i \in DOMAIN f.data : f.data[i].kind # "fill"} IN
    /\ \A i \in rows : f.data[i] \in ToSet(Original[f.file])
    /\ \A i, j \in rows : i < j => j - i <= f.data[j].part - f.data[i].part

Acceptable(f) ==
    IF Meta[f.file].image
    THEN RowsInOrder(f) /\ Octets(f.data) = DataLength[f.file]
    ELSE Whole(f)

Follows(f, g) == Meta[f.file].apid = Meta[g.file].apid => f.file < g.file

DeliveryInit == received = << >> /\ exposed = {}

DeliverFile ==
    /\ Len(received') = Len(received) + 1
    /\ IsPrefix(received, received')
    /\ Last(received').file \in exposed \/ Acceptable(Last(received'))
    /\ \A i \in DOMAIN received : Follows(received[i], Last(received'))
    /\ UNCHANGED exposed

(* Files come to share a buffer, none of them handed over yet. *)
Expose ==
    /\ exposed \subseteq exposed'
    /\ \A i \in DOMAIN received : received[i].file \notin exposed' \ exposed
    /\ UNCHANGED received

DeliverySpec == DeliveryInit /\ [][DeliverFile \/ Expose]_<<received, exposed>>
=============================================================================
