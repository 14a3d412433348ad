------------------------------- MODULE Orders -------------------------------
(***************************************************************************)
(* Lists made of the elements of a set.  R is the order, the set of the    *)
(* pairs <<x, y>> where x comes before y.                                  *)
(***************************************************************************)
EXTENDS Integers, FiniteSets

\* The elements of S, each after as many as come before it.
InOrder(S, R) ==
    [i \in 1..Cardinality(S) |->
        CHOOSE x \in S : Cardinality({y \in S : <<y, x>> \in R}) = i - 1]

\* The numbers of S by size.
Ascending(S) == InOrder(S, {p \in S \X S : p[1] < p[2]})
===========================================================================
