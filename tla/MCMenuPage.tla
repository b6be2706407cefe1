----------------------------- MODULE MCMenuPage -----------------------------
(***************************************************************************)
(* Instances of MenuPage for TLC: the schema's root with one branch, and   *)
(* one more menu that can be added below either.                           *)
(***************************************************************************)
EXTENDS MenuPage

MCFirstMenus == <<0, 1>>
=============================================================================
