------------------------------ MODULE Ordered -------------------------------
(***************************************************************************)
(* Members of a set of integers by their place in it, and what is selected *)
(* from a sequence: SortSeq and SelectSeq in a form that provers expand.   *)
(***************************************************************************)
EXTENDS Integers, FiniteSets

\* The member that n - 1 others are below.
Nth(K, n) == CHOOSE k \in K : Cardinality({j \in K : j < k}) = n - 1

\* The elements of a sequence at some of its indexes, in its order.
Selected(s, K) == [n \in 1..Cardinality(K) |-> s[Nth(K, n)]]

\* Those that are in a set.
Among(s, S) == Selected(s, {k \in DOMAIN s : s[k] \in S})

\* A set of integers, the greatest first.
Descending(K) == [n \in 1..Cardinality(K) |-> Nth(K, Cardinality(K) + 1 - n)]
=============================================================================
