\* Does every session complete when nothing dies?
SPECIFICATION Spec
CONSTANTS
  p1 = p1
  p2 = p2
  n1 = n1
  n2 = n2
  n3 = n3
  Owner <- MCOwner
  Proc = {p1}
  Node = {n1, n2}
  Rank <- MCRank
  Automatic = {}
  InitialStatus = {"ready"}
  Limits = {4}
  AgentLimit = 1
  Outcome = {"malformed", "pass"}
  MaxSessions = 2
  MaxMoves = 0
  MaxFaults = 0
INVARIANTS SessionsComplete
CHECK_DEADLOCK FALSE
