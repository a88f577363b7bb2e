---------------------------- MODULE Subsequences ----------------------------
(* The list comprehensions of the code: some elements of a list, in order. *)
EXTENDS Naturals, Sequences, FiniteSets

\* The elements of s at the positions P.
Elements(s, P) ==
  [n \in 1..Cardinality(P) |-> s[CHOOSE i \in P : Cardinality({j \in P : j < i}) = n - 1]]
=============================================================================
