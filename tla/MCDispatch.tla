----------------------------- MODULE MCDispatch -----------------------------
\* Values for the constants of Dispatch.
EXTENDS Dispatch

CONSTANTS p1, p2, n1, n2, n3

MCRank == [n \in Node |-> CASE n = n1 -> 1 [] n = n2 -> 2 [] OTHER -> 3]

\* n1 and n3 have the same owner.
MCOwner == [n \in Node |-> IF n = n2 THEN "code-reviewer" ELSE "test-engineer"]

=============================================================================
