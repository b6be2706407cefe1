----------------------------- MODULE Catalogue ------------------------------
(***************************************************************************)
(* What readers of the project tables (the detail page and the order       *)
(* service) rely on: projects appear one at a time and whole, with a type, *)
(* a picture and a return, and from then on never change or disappear.     *)
(* The rows of a project are a function from their keys.                   *)
(***************************************************************************)
CONSTANTS Key, Member

VARIABLE projects

Init == projects = {}

Publish ==
    \E p \in projects' \ projects :
        /\ projects' = projects \cup {p}
        /\ p.id \in Key
        /\ \A q \in projects : q.id # p.id
        /\ p.member \in Member
        /\ DOMAIN p.types # {}
        /\ DOMAIN p.pictures # {}
        /\ DOMAIN p.returns # {}

Spec == Init /\ [][Publish]_projects
=============================================================================
