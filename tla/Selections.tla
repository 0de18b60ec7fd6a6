------------------------------ MODULE Selections ------------------------------
(* Sets of numbers taken in order.  There is no state here.                 *)
EXTENDS Integers, Sequences, FiniteSets

InOrder(S) ==
  [k \in 1..Cardinality(S) |-> CHOOSE x \in S : Cardinality({y \in S : y <= x}) = k]

(* What a sequence holds at the indices I.                                  *)
Picked(s, I) == [k \in 1..Cardinality(I) |-> s[InOrder(I)[k]]]
==============================================================================
