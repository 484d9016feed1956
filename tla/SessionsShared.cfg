\* Three commands and two sessions, a cache that is cold at the second tick.
SPECIFICATION Spec
CONSTANTS
  MaxJobs = 3
  Ids = {s1, s2}
  Ttl = 1
  Horizon = 2
INVARIANTS
  ContinuedAlone
\* Every command was given.
CHECK_DEADLOCK FALSE
