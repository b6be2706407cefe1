----------------------------- MODULE Pagination -----------------------------
(***************************************************************************)
(* The page links below a table: the jQuery plugin jquery.pagination.js as *)
(* generateNavigator configures it (links to the previous and the next     *)
(* page are always drawn, a gap is drawn as an ellipsis).  Pages are       *)
(* numbered from 0 here, as in the plugin; np is the number of pages and   *)
(* cp the current one.                                                     *)
(***************************************************************************)
EXTENDS Integers

CONSTANTS
    NumDisplay,     \* num_display_entries, 5 in generateNavigator
    NumEdge         \* num_edge_entries, 3 in generateNavigator

ASSUME PaginationAssumption == NumDisplay \in Nat \ {0, 1} /\ NumEdge \in Nat \ {0}

Least(a, b) == IF a <= b THEN a ELSE b
Greatest(a, b) == IF a >= b THEN a ELSE b
CeilDiv(a, b) == (a + b - 1) \div b

\* No entries at all are drawn like one entry.
NumPages(entries, size) == CeilDiv(Greatest(entries, 1), size)

NeHalf == CeilDiv(NumDisplay, 2)

\* The pages IntervalStart .. IntervalEnd - 1 around the current one.
IntervalStart(cp, np) ==
    IF cp > NeHalf THEN Greatest(Least(cp - NeHalf, np - NumDisplay), 0) ELSE 0
IntervalEnd(cp, np) ==
    IF cp > NeHalf THEN Least(cp + NeHalf, np) ELSE Least(NumDisplay, np)

Interval(cp, np) == IntervalStart(cp, np) .. IntervalEnd(cp, np) - 1
FirstPages(cp, np) == 0 .. Least(NumEdge, IntervalStart(cp, np)) - 1
LastPages(cp, np) == Greatest(np - NumEdge, IntervalEnd(cp, np)) .. np - 1

\* The pages with a number in the navigator, and those an ellipsis stands for.
NumberedPages(cp, np) == FirstPages(cp, np) \cup Interval(cp, np) \cup LastPages(cp, np)
EllipsisBefore(cp, np) == NumEdge > 0 /\ NumEdge < IntervalStart(cp, np)
EllipsisAfter(cp, np) == NumEdge > 0 /\ np - NumEdge > IntervalEnd(cp, np)

\* The page a link leads to, brought back into the range of pages.
LinkTarget(p, np) == IF p < 0 THEN 0 ELSE IF p < np THEN p ELSE np - 1

\* The pages one click away; the entry of the current page is not a link.
Links(cp, np) ==
    (NumberedPages(cp, np) \cup {LinkTarget(cp - 1, np), LinkTarget(cp + 1, np)}) \ {cp}

-----------------------------------------------------------------------------
\* The current page is in the interval that is drawn, every link leads to a
\* page, and every page without a number is one an ellipsis stands for.
NavigatorWhole(cp, np) ==
    /\ cp \in Interval(cp, np)
    /\ Links(cp, np) \subseteq 0..np - 1
    /\ \A p \in 0..np - 1 \ NumberedPages(cp, np) :
         \/ p < cp /\ EllipsisBefore(cp, np)
         \/ p > cp /\ EllipsisAfter(cp, np)
=============================================================================
