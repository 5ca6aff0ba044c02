------------------------------- MODULE Listing -------------------------------
(***************************************************************************)
(* The elements of a finite set in order, as ORDER BY lists the rows of a  *)
(* query: the one at place i is the one that i - 1 others come before.     *)
(* (SetToSortSeq is the same for a total order, but rests on TLC!SortSeq,  *)
(* which is defined only for the model checker.)                           *)
(***************************************************************************)
EXTENDS Integers, FiniteSets

Listed(S, before(_, _)) ==
  [i \in 1..Cardinality(S) |->
     CHOOSE x \in S : Cardinality({y \in S : before(y, x)}) = i - 1]
=============================================================================
