\* Two dispatchers and the operators move the same nodes; every command runs to its end.
SPECIFICATION FairSpec
CONSTANTS
  p1 = p1
  p2 = p2
  n1 = n1
  n2 = n2
  n3 = n3
  Owner <- MCOwner
  Proc = {p1, p2}
  Node = {n1}
  Rank <- MCRank
  Automatic = {}
  InitialStatus = {"ready"}
  Limits = {4}
  AgentLimit = 1
  Outcome = {"unavailable", "malformed", "pass"}
  MaxSessions = 2
  MaxMoves = 2
  MaxFaults = 0
PROPERTIES
  ClosedStaysClosed
  RunningEnds
\* The bounds end every behaviour.
CHECK_DEADLOCK FALSE
