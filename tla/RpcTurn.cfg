\* Four turns: two bloated ones make a circle, one continuation, one nudge.
SPECIFICATION FairSpec
CONSTANTS
  MaxTurns = 4
  MaxUsage = 3
  Retries = 2
  MaxNudges = 1
  BloatWindow = 2
  BloatHits = 2
  TurnBound = 5
  SteerBound = 1
INVARIANTS
  TypeOK
  OneMessagePerCut
  NudgesAreFew
PROPERTIES
  NoWorkCutShort
  RunReturns
\* The run has returned.
CHECK_DEADLOCK FALSE
