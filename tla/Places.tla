------------------------------- MODULE Places -------------------------------
(***************************************************************************)
(* The elements of a sequence at chosen places, in the order they have: a  *)
(* loop that keeps some elements of a list and skips the rest.             *)
(***************************************************************************)
EXTENDS Naturals, Sequences, FiniteSets

(* The n-th of the places P is the one up to which there are n of them.    *)
NthPlace(P, n) == CHOOSE i \in P : Cardinality(P \intersect (1..i)) = n

ElementsAt(s, P) == [n \in 1..Cardinality(P) |-> s[NthPlace(P, n)]]

=============================================================================
