------------------------------- MODULE Ascending -------------------------------
(* The elements of a finite set of numbers as a sequence, smallest first.  The  *)
(* same as SetToSortSeq(S, <), defined by places and not by recursion so that   *)
(* the provers can reason about it.                                             *)
EXTENDS Integers, FiniteSets

Place(S, x) == Cardinality({y \in S : y <= x})

Ascending(S) == [k \in 1 .. Cardinality(S) |-> CHOOSE x \in S : Place(S, x) = k]

(* The elements of a sequence at the places in S, in their order. *)
Those(s, S) ==
  LET places == Ascending(S) IN [k \in 1 .. Cardinality(S) |-> s[places[k]]]
================================================================================
