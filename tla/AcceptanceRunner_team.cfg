\* A scenario whose nodes operators move and whose gates others evaluate.
SPECIFICATION FairSpec
CONSTANTS
  Order <- MCTeam
  RetryLimit = 1
  Target = {"ready", "canceled"}
  MaxMoves = 2
INVARIANTS
  SessionNeedsPasses
  ReleaserRunsReleased
  PassIsDeserved
  EveryNodeSettled
PROPERTIES
  Terminates
\* A scenario ends.
CHECK_DEADLOCK FALSE
