\* Two processes create and transition one node at once, and may die.
SPECIFICATION Spec
CONSTANTS
  p1 = p1
  p2 = p2
  n1 = n1
  n2 = n2
  Proc = {p1, p2}
  Node = {n1}
  MaxCalls = 2
  MaxDeaths = 1
SYMMETRY Symmetry
INVARIANTS
  AuditNamesRealSource
  MovesRecorded
PROPERTIES
  ImplementsMachine
\* The bound on the length of the log ends every behaviour.
CHECK_DEADLOCK FALSE
