--------------------------- MODULE MCNodeService ---------------------------
(***************************************************************************)
(* Values of NodeService's constants for TLC.                              *)
(***************************************************************************)
EXTENDS NodeService, TLC

CONSTANTS p1, p2, n1, n2

Symmetry == Permutations({p1, p2})
=============================================================================
