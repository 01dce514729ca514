------------------------------ MODULE Ranking ------------------------------
(***************************************************************************)
(* What the queries' ORDER BY and the loops that filter rows do: a set in  *)
(* an order, and some of a sequence.  Of SetToSortSeq and SelectSeq, which *)
(* say the same, nothing can be proved: they are computed step by step.    *)
(***************************************************************************)
EXTENDS FiniteSets, Naturals, Sequences

\* The elements of the finite set S, each after those that R, a total order of
\* S, puts before it
InOrder(S, R) ==
    [k \in 1..Cardinality(S) |->
        CHOOSE x \in S : Cardinality({y \in S : <<y, x>> \in R}) = k - 1]

Ascending(S) == InOrder(S, {pair \in S \X S : pair[1] < pair[2]})

\* What s holds at the positions K
Picked(s, K) == [k \in 1..Cardinality(K) |-> s[Ascending(K)[k]]]
=============================================================================
