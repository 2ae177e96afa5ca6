\* One strict evaluator, results and events that arrive under it.
SPECIFICATION Spec
CONSTANTS
  p1 = p1
  p2 = p2
  t1 = t1
  t2 = t2
  r1 = r1
  g1 = g1
  Proc = {p1}
  Node = {g1}
  Role <- MCRole
  InitialStatus = {"running", "pass"}
  InitialFacts <- RipeFacts
  InitialEvidence <- RipeEvidence
  NewFacts <- StrictFacts
  NewEvidence <- Evidence
  Mode = {"strict"}
  MaxChanges = 2
  MaxDeaths = 0
INVARIANTS
  FakeResultHoldsStrictRelease
  UndisturbedStrictIsExact
