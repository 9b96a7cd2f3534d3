-------------------------------- MODULE Places --------------------------------
(***************************************************************************)
(* What a filter that keeps the order (retain, filter) leaves of a list, said  *)
(* by the places it keeps.                                                  *)
(***************************************************************************)
EXTENDS Naturals, FiniteSets, Sequences

(* The n-th of a finite set of places, and what is left at them.             *)
Nth(keep, n) == CHOOSE k \in keep : Cardinality({j \in keep : j <= k}) = n
KeptAt(s, keep) == [n \in 1..Cardinality(keep) |-> s[Nth(keep, n)]]
=============================================================================
