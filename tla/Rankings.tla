------------------------------ MODULE Rankings -------------------------------
(* Sorting and cutting: before[x] is the set of those of S that come before x. *)
EXTENDS Integers, FiniteSets

Sorted(S, before) ==
  [r \in 1 .. Cardinality(S) |-> CHOOSE x \in S : Cardinality(before[x]) = r - 1]

\* The first k.
FirstOf(S, before, k) == {x \in S : Cardinality(before[x]) < k}
=============================================================================
