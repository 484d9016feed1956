\* Two passes of up to four events, a budget of two, every fault.
SPECIFICATION FairSpec
CONSTANTS
  TimeoutMs = 2
  MaxUsage = 2
  Retries = 1
  Faults = {"busy", "progress", "spawn", "callback"}
  PassBound = 4
  PipeBound = 1
  Horizon = 4
INVARIANTS
  TypeOK
  ProxiesLiveWithTheRun
  AnswerIsWhole
  BudgetBoundsTheJob
PROPERTIES
  TimedPassEnds
\* The run is over, or its pi hangs without a timer.
CHECK_DEADLOCK FALSE
