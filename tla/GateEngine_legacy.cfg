\* One evaluator, results and nodes that change under it, deaths half-way.
SPECIFICATION Spec
CONSTANTS
  p1 = p1
  p2 = p2
  t1 = t1
  t2 = t2
  r1 = r1
  g1 = g1
  Proc = {p1}
  Node = {t1, r1, g1}
  Role <- MCRole
  InitialStatus = {"running", "pass"}
  InitialFacts <- NoFacts
  InitialEvidence <- NoEvidence
  NewFacts <- LegacyFacts
  NewEvidence = {}
  Mode = {"legacy"}
  MaxChanges = 2
  MaxDeaths = 1
INVARIANTS
  FailedTestHoldsRelease
  UndisturbedIsExact
PROPERTIES
  LastWriteIsCurrent
