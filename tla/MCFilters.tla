----------------------------- MODULE MCFilters -----------------------------
(* A block filter and a transaction filter with a closed and a half-open range; *)
(* a result on the closed bound between two blocks.                             *)
EXTENDS Filters, TLC

CONSTANTS fb, ft

Bounds(min, max) == [min |-> min, max |-> max]

MCOptions == [f \in {fb, ft} |->
    IF f = fb THEN [type |-> "block"]
    ELSE [type |-> "tx", gasUsed |-> Bounds(NoBound, 2), gasWanted |-> NoRange, gasLimit |-> Bounds(1, NoBound)]]

\* The requests are interchangeable.
CallerSymmetry == Permutations(Callers)

MCTx(used, wanted) == [type |-> "tx", gasUsed |-> used, gasWanted |-> wanted]

MCFeed == <<[type |-> "block"], MCTx(2, 3), [type |-> "block"]>>

=============================================================================
