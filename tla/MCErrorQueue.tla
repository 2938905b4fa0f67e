---------------------------- MODULE MCErrorQueue ----------------------------
(***************************************************************************)
(* Values for the runs of ErrorQueue: two requests to store and one to     *)
(* read under the auto-run; one request to store under all calls; ids that *)
(* may collide.                                                            *)
(***************************************************************************)
EXTENDS ErrorQueue

CONSTANTS set, set2, get, t1, fbdo

MCOps      == {set, set2, get}
MCOneOp    == {set}
MCGets     == {get}
MCNone     == {}
MCIds      == {1, 2}
MCTask     == {t1}
MCObject   == {fbdo}
MCLimit    == {2}
MCLimits   == {1, 2}
MCAuto     == {"auto"}
MCAll      == {"auto", "setMax", "clear", "file", "pause"}
=============================================================================
