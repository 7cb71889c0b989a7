------------------------------ MODULE MCDemux ------------------------------
(***************************************************************************)
(* Small instances of Demux: every stream of packets of the given sizes    *)
(* that fills the frames, every choice of fill packets, every pattern of   *)
(* lost and damaged frames.                                                *)
(***************************************************************************)
EXTENDS Demux

CONSTANT Sizes           \* the packet sizes, header included

StreamLen == (MaxFrame + 1) * ZoneLen

(* Ways to lay packets from offset o to the end of the stream. *)
RECURSIVE Tilings(_)
Tilings(o) ==
    IF o >= StreamLen THEN {<< >>}
    ELSE UNION {{<<[at |-> o, size |-> z]>> \o rest : rest \in Tilings(o + z)} : z \in Sizes}


MCLayouts ==
    UNION {{[size |-> [s \in {t[i].at : i \in DOMAIN t} |->
                          t[CHOOSE i \in DOMAIN t : t[i].at = s].size],
             fill |-> fill] : fill \in SUBSET {t[i].at : i \in DOMAIN t}} : t \in Tilings(0)}
=============================================================================
