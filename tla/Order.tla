--------------------------------- MODULE Order ---------------------------------
(***************************************************************************)
(* A finite set of numbers as a sequence: what the loops that append and   *)
(* the sorts of the code make of it.                                       *)
(***************************************************************************)
EXTENDS Integers, FiniteSets

(* The n-th member of S has n members up to itself.                        *)
Ascending(S) ==
    [n \in 1..Cardinality(S) |-> CHOOSE x \in S : Cardinality({y \in S : y <= x}) = n]
================================================================================
