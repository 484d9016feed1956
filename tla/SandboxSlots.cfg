\* Two runs on one slot, two passes each, every fault.
SPECIFICATION FairSpec
CONSTANTS
  r1 = r1
  r2 = r2
  r3 = r3
  Runs = {r1, r2}
  Limit = 1
  Passes = 2
  Faults = {"crash", "docker", "disk", "slow"}
INVARIANTS
  TypeOK
  CapKept
PROPERTIES
  EveryWaiterGetsIn
\* Every run is over.
CHECK_DEADLOCK FALSE
