---------------------------- MODULE MCRoleAssign ----------------------------
(***************************************************************************)
(* Instances of RoleAssign for TLC: two roles, so that a tree may be of    *)
(* another role than the dialog, and two authorities, so that two          *)
(* assignments that are joined differ from both.                           *)
(***************************************************************************)
EXTENDS RoleAssign, TLC

MCSymmetry == Permutations(Slot) \cup Permutations(Owner) \cup Permutations(Item)
=============================================================================
