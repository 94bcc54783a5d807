------------------------------- MODULE Places -------------------------------
(* The place of a number among those of a set, and the one at a place. *)
EXTENDS Integers, FiniteSets

Rank(K, i) == Cardinality({j \in K : j <= i})
Nth(K, n) == CHOOSE i \in K : Rank(K, i) = n
=============================================================================
