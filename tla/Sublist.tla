------------------------------ MODULE Sublist -------------------------------
(***************************************************************************)
(* The elements a sequence has at some of its places, in their order.      *)
(***************************************************************************)
EXTENDS Naturals, FiniteSets

\* The k-th of a set of places.
Nth(S, k) == CHOOSE i \in S : Cardinality({j \in S : j <= i}) = k

Sublist(s, S) == [k \in 1 .. Cardinality(S) |-> s[Nth(S, k)]]
=============================================================================
