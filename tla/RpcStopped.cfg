\* One answer is over the budget, cut off and all reasoning.
SPECIFICATION Spec
CONSTANTS
  MaxTurns = 4
  MaxUsage = 0
  Retries = 1
  MaxNudges = 1
  BloatWindow = 1
  BloatHits = 1
  TurnBound = 2
  SteerBound = 0
PROPERTIES
  StopIsFinal
\* The run has returned.
CHECK_DEADLOCK FALSE
