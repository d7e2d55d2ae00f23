------------------------------- MODULE Ranking -------------------------------
(***************************************************************************)
(* Sets in an order, as sort_by and truncate, ORDER BY and LIMIT put them: *)
(* a member's place is how many come before it.  An order is a set of      *)
(* pairs, the first of which comes before the second.                      *)
(***************************************************************************)
EXTENDS Naturals, FiniteSets

Rank(x, S, order) == Cardinality({y \in S : <<y, x>> \in order})
Listed(S, order) == [n \in 1..Cardinality(S) |-> CHOOSE x \in S : Rank(x, S, order) = n - 1]
Limited(S, order, n) == {x \in S : Rank(x, S, order) < n}

=============================================================================
