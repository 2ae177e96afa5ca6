\* Two sessions on one workspace; or the end-to-end script.  One append or tool raises.
SPECIFICATION LoopSpec
CONSTANTS
  free1 = free1
  free2 = free2
  agent1 = agent1
  agent2 = agent2
  maxed = maxed
  timed = timed
  denied = denied
  Session = {free1, free2, agent1, agent2, maxed, timed, denied}
  Budget <- MCBudget
  Profile <- MCProfile
  Outside = {".squad/token"}
  Command = {}
  Workspace <- MCWorkspace
  Call <- MCCall
  MaxCalls <- MCMaxCalls
  MaxFaults = 1
  Scenario <- MCScenario
INVARIANTS
  SessionAccounts
  PatchesLast
  QuietSnapshotsExact
  VerdictIsRight
PROPERTIES
  SpentStaysSpent
\* Sessions end, and so does the script.
CHECK_DEADLOCK FALSE
