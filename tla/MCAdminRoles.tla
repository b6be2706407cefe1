---------------------------- MODULE MCAdminRoles ----------------------------
(***************************************************************************)
(* Instances of AdminRoles for TLC: two accounts with a password each, two *)
(* login names that they can exchange, two roles, and one assignment at a  *)
(* time on the server (those that overlap are checked in MCRoleAssign).    *)
(***************************************************************************)
EXTENDS AdminRoles, TLC

CONSTANTS o1, o2, k1, k2

MCChosen == (o1 :> k1) @@ (o2 :> k2)
MCSymmetry == Permutations(Item) \cup Permutations(Acct)
=============================================================================
