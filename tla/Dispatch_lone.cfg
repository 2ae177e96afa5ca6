\* One dispatcher at a time, which may die and be run again.
SPECIFICATION Spec
CONSTANTS
  p1 = p1
  p2 = p2
  n1 = n1
  n2 = n2
  n3 = n3
  Owner <- MCOwner
  Proc = {p1}
  Node = {n1, n2, n3}
  Rank <- MCRank
  Automatic = {n2}
  InitialStatus = {"ready"}
  Limits = {1, 2}
  AgentLimit = 1
  Outcome = {"unavailable", "malformed", "pass", "blocked"}
  MaxSessions = 3
  MaxMoves = 2
  MaxFaults = 2
INVARIANTS
  VerdictHasResult
  LimitsHold
PROPERTIES
  VerdictOfOwnClaim
\* The bounds end every behaviour.
CHECK_DEADLOCK FALSE
