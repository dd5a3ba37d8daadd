---------------------------- MODULE Enumeration ----------------------------
(***************************************************************************)
(* A finite set of numbers as the sequence that lists it, lowest first: an  *)
(* element stands where the elements up to it are counted.  (SetToSortSeq   *)
(* of SequencesExt, stated without the sort.)                              *)
(***************************************************************************)
EXTENDS Integers, Sequences, FiniteSets

Rank(S, x) == Cardinality({y \in S : y <= x})

Enumerate(S) == [i \in 1..Cardinality(S) |-> CHOOSE x \in S : Rank(S, x) = i]
=============================================================================
