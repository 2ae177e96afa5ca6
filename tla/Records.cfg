\* What is written down: archives, logs and their replays, starts on one database, the
\* facade's calls, findings, paced calls, smoke tests and evidence.
SPECIFICATION PartsSpec
CONSTANTS
  n1 = n1
  n2 = n2
  Proc = {p1, p2}
  TableOrder <- MCTableOrder
  Limit = 1
  ExportLimit = 2
  MaxEvents = 1
  MaxChanges = 1
  MaxJobs = 2
  MinInterval = 2
  Cooldown429 = 3
  Cooldown529 = 1
  MaxClock = 8
  MaxLate = 1
  None = "none"
  Payload = {"x", "y"}
  MaxLogged = 3
  MaxEdits = 3
  Starter = {s1, s2, s3}
  CoreTables <- MCCoreTables
  ProviderColumns <- MCProviderColumns
  HashColumns <- MCHashColumns
  MaxStarts = 4
  Clerk = {c1, c2}
  Node = {n1, n2}
  Plan <- MCPlan
  Target = {"pass", "canceled", "done"}
  MaxCalls = 2
  Reviewer = {r1, r2}
  MaxFindings = 5
  Execution = {e1, e2}
  Setting <- MCSetting
  Team <- MCTeam
  Gated = {"tester"}
  Outcome = {"pass", "fail", "rate_limited", "timeout", "fell_back"}
  RetryLimit = 1
  MaxFaults = 1
  MaxInterrupts = 1
INVARIANTS
  RecordsTypeOK
  PairAgrees
  CopiesExact
  ReplayIsSound
  SchemaComplete
  StartsSucceed
  TrailsInOrder
  AnswersHold
  ChainsEndActive
  HistoryTellsAll
  PacingHolds
  StatusIsHonest
  BaselineHolds
PROPERTIES
  GateIsMonotone
\* Every part stops at its bounds.
CHECK_DEADLOCK FALSE
