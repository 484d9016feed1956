\* Two calls, every fault, and processes that keep running.
SPECIFICATION FairSpec
CONSTANTS
  w1 = w1
  w2 = w2
  w3 = w3
  a = a
  b = b
  c = c
  Writers = {w1, w2}
  Jobs = {a, b, c}
  MaxJobs = 2
  Times <- Moments
  InitialIndex <- OldJobs
  LockTimeout = 2
  Faults = {"crash", "slow", "busy", "write"}
  Free = Free
INVARIANTS
  TypeOK
  MutualExclusion
PROPERTIES
  ImplementsRegistry
  NoUpdateLost
  EveryUpdateLands
