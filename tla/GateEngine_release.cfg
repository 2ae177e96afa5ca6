\* Two evaluators at once.
SPECIFICATION Spec
CONSTANTS
  p1 = p1
  p2 = p2
  t1 = t1
  t2 = t2
  r1 = r1
  g1 = g1
  Proc = {p1, p2}
  Node = {t1}
  Role <- MCRole
  InitialStatus = {"running", "pass"}
  InitialFacts <- RipeFacts
  InitialEvidence <- NoEvidence
  NewFacts <- LegacyFacts
  NewEvidence = {}
  Mode = {"legacy"}
  MaxChanges = 1
  MaxDeaths = 0
INVARIANTS ReleaseBehindGates
