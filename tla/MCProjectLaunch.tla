--------------------------- MODULE MCProjectLaunch --------------------------
(***************************************************************************)
(* Instances of ProjectLaunch for TLC.  The configurations without a       *)
(* temporal property may exchange the names of threads and of members.     *)
(***************************************************************************)
EXTENDS ProjectLaunch, TLC

MCSymmetry == Permutations(Thread) \cup Permutations(Member)
=============================================================================
