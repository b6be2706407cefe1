------------------------------ MODULE Funding -------------------------------
(***************************************************************************)
(* What the checkout promises of each payment, without sessions, threads,  *)
(* requests or messages: money taken stays taken; the order behind it is   *)
(* booked at most once, and only then its detail; a completed sale, and no *)
(* other, is credited to its project, at least once.                       *)
(***************************************************************************)
EXTENDS Naturals

CONSTANT Payment

VARIABLES
    sale,      \* "none" before PayPal took the money, then the sale's state
    booked,    \* "no", "order" (t_order only) or "detail" (both tables)
    credits    \* times the total was added to the project

vars == <<sale, booked, credits>>

Init ==
    /\ sale = [o \in Payment |-> "none"]
    /\ booked = [o \in Payment |-> "no"]
    /\ credits = [o \in Payment |-> 0]

Take(o) ==
    /\ sale[o] = "none"
    /\ \E s \in {"pending", "completed"} : sale' = [sale EXCEPT ![o] = s]
    /\ UNCHANGED <<booked, credits>>

Settle(o) ==
    /\ sale[o] = "pending"
    /\ \E s \in {"denied", "completed"} : sale' = [sale EXCEPT ![o] = s]
    /\ UNCHANGED <<booked, credits>>

Book(o) ==
    /\ sale[o] # "none"
    /\ \E step \in {<<"no", "order">>, <<"order", "detail">>} :
         booked[o] = step[1] /\ booked' = [booked EXCEPT ![o] = step[2]]
    /\ UNCHANGED <<sale, credits>>

Credit(o) ==
    /\ sale[o] = "completed"
    /\ credits' = [credits EXCEPT ![o] = @ + 1]
    /\ UNCHANGED <<sale, booked>>

FirstCredit(o) == credits[o] = 0 /\ Credit(o)

Next == \E o \in Payment : Take(o) \/ Settle(o) \/ Book(o) \/ Credit(o)

Safety == Init /\ [][Next]_vars
Spec == Safety /\ \A o \in Payment : WF_vars(FirstCredit(o))
=============================================================================
