----------------------------- MODULE MCRolePage -----------------------------
(***************************************************************************)
(* Instances of RolePage for TLC.  Its tables are too short for a gap in   *)
(* the page links, so those are checked by themselves, with the numbers    *)
(* generateNavigator passes.                                               *)
(***************************************************************************)
EXTENDS RolePage

Configured == INSTANCE Pagination WITH NumDisplay <- 5, NumEdge <- 3

ASSUME LongTables ==
    \A np \in 1..30 : \A cp \in 0..np - 1 : Configured!NavigatorWhole(cp, np)
=============================================================================
