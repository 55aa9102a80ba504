------------------------------ MODULE MCFrontiers ------------------------------
(* The frontier of a processing unit and the candidate frontier of a        *)
(* project, each on a small instance.  They share no table: a behaviour     *)
(* explores one of them, which `explored` says, and the other rests in its  *)
(* initial state.                                                           *)
EXTENDS ProcessingUnit, CandidateFrontier

VARIABLE explored

FrontiersInit ==
    /\ Init /\ FrontierInit
    /\ explored \in {"processing unit", "candidates"}

FrontiersNext ==
    \/ explored = "processing unit" /\ Next /\ UNCHANGED <<frontierVars, explored>>
    \/ explored = "candidates" /\ FrontierNext /\ UNCHANGED <<vars, explored>>

FrontiersSpec == FrontiersInit /\ [][FrontiersNext]_<<vars, frontierVars, explored>>
===============================================================================
