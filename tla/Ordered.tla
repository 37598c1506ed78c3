------------------------------- MODULE Ordered -------------------------------
(***************************************************************************)
(* Finite sets of numbers in increasing order, and the elements of a       *)
(* sequence at such positions: what SetToSortSeq and SelectSeq compute,    *)
(* written so that it can be reasoned about.                               *)
(***************************************************************************)
EXTENDS Naturals, FiniteSets

Below(S, i) == {j \in S : j < i}

InOrder(S) ==
  [k \in 1..Cardinality(S) |-> CHOOSE i \in S : Cardinality(Below(S, i)) = k - 1]

PickedAt(s, S) == [k \in 1..Cardinality(S) |-> s[InOrder(S)[k]]]
==============================================================================
