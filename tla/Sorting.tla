------------------------------ MODULE Sorting ------------------------------
(* Sorting a finite set by a strict total order on it.                     *)
EXTENDS FiniteSetsExt, Sequences, TLC

\* sorted(S, key=...): the n-th element is the one that n - 1 others precede.
SortedBy(S, Before(_, _)) ==
  [n \in 1 .. Cardinality(S) |->
     CHOOSE x \in S : Cardinality({y \in S : Before(y, x)}) = n - 1]
=============================================================================
