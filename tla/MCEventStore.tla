---------------------------- MODULE MCEventStore ----------------------------
(***************************************************************************)
(* Values of EventStore's constants for TLC.                               *)
(***************************************************************************)
EXTENDS EventStore, TLC

CONSTANTS p1, p2, a, b, sys, r1

\* "run-..." sorts before "system"
MCRunOrder == <<r1, sys>>

TwoSymmetry == Permutations({p1, p2}) \cup Permutations({a, b})
=============================================================================
