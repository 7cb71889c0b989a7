----------------------------- MODULE MCFilePath -----------------------------
(***************************************************************************)
(* Small instances of FilePath: a few files on two APIDs, every            *)
(* interleaving of the two, every cut of the SDUs into frames.             *)
(***************************************************************************)
EXTENDS FilePath, MCFiles

(* An image and a text behind it, and one more file beside them. *)
Trio == <<Packed(1, <<0, 1, 1>>), File(1, <<1>>), File(2, <<2, 1>>)>>

(* A compressed image whose headers are only parsed with its second SDU,   *)
(* long enough to miss rows in its midst, and an archive behind it; beside *)
(* them an archive that is broken.                                         *)
Varied == <<Unflagged(Packed(1, <<1, 1, 1, 1>>)), Zipped(File(1, <<1, 1>>), "sound"),
            Zipped(File(2, <<2>>), "broken")>>

(* Which SDUs may be lost. *)
AnySDU == UNION {{f} \X (1..Parts(f)) : f \in Sent}
NotFirst == {e \in AnySDU : e[2] > 1}

(* Instances for single questions. *)
WrapPicture == <<File(1, <<1, 1, 1>>), Image(1, <<2, 2, 2, 2, 2, 2, 2>>), File(2, <<1>>)>>
PackedPicture == <<Packed(1, <<0, 1, 1, 1>>), File(2, <<1>>)>>
=============================================================================
