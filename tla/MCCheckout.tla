----------------------------- MODULE MCCheckout -----------------------------
(***************************************************************************)
(* Instances of Checkout for TLC: two projects with one return each.  The  *)
(* return of project p1 has no limit (count 0, free shipping); a single    *)
(* piece of it and of the other cost different amounts, so that an order   *)
(* or a payment of the wrong return shows in the totals.                   *)
(***************************************************************************)
EXTENDS Checkout, TLC

CONSTANTS p1, p2, r1, r2

MCProjectOf == [r \in Return |-> IF r = r1 THEN p1 ELSE p2]
MCSupportPrice == [r \in Return |-> IF r = r1 THEN 1 ELSE 3]
MCFreight == [r \in Return |-> IF r = r1 THEN 0 ELSE 1]
MCLimit == [r \in Return |-> IF r = r1 THEN 0 ELSE 1]
MCLimited == [r \in Return |-> IF r = r1 THEN 2 ELSE 1]
=============================================================================
