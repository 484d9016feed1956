\* One pass that waits for a slot first.
SPECIFICATION FairSpec
CONSTANTS
  TimeoutMs = 2
  MaxUsage = 2
  Retries = 1
  Faults = {"busy"}
  PassBound = 2
  PipeBound = 1
  Horizon = 4
INVARIANTS
  ClockCoversTheRun
CHECK_DEADLOCK FALSE
