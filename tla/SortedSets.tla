------------------------------ MODULE SortedSets ------------------------------
(***************************************************************************)
(* A finite set of numbers as a list.                                      *)
(***************************************************************************)
EXTENDS Integers, FiniteSets

\* The numbers of S in increasing order.
Sorted(S) ==
  [i \in 1 .. Cardinality(S) |-> CHOOSE p \in S : Cardinality({q \in S : q < p}) = i - 1]
=============================================================================
