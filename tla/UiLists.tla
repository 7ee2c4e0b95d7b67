------------------------------ MODULE UiLists ------------------------------
(***************************************************************************)
(* What the client does with lists: the filter method of an array.         *)
(***************************************************************************)
EXTENDS Naturals, FiniteSets, Sequences

(* A finite set of numbers, from the least to the greatest. *)
InOrder(S) ==
    [n \in 1..Cardinality(S) |-> CHOOSE x \in S : Cardinality({y \in S : y <= x}) = n]

(* The elements at these places of a list, in their order. *)
Kept(list, places) ==
    LET order == InOrder(places)
    IN  [n \in DOMAIN order |-> list[order[n]]]
=============================================================================
