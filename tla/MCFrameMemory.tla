--------------------------- MODULE MCFrameMemory ---------------------------
(***************************************************************************)
(* Small instances of FrameMemory: files on two APIDs in every             *)
(* interleaving, cut into frames at every place.                           *)
(***************************************************************************)
EXTENDS FrameMemory, MCFiles

(* A text whose headers are parsed late and a packet behind it; beside     *)
(* them an image whose rows grow from one octet to Cols.                   *)
Neighbours ==
    <<Unflagged(File(1, <<1, 2, 1>>)), File(1, <<1>>), Packed(2, <<0, 1, 1>>), File(2, <<1, 1>>)>>

(* Two texts. *)
Texts == <<File(1, <<1, 3>>), File(2, <<1>>)>>
=============================================================================
