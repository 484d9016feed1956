\* Any process may die or fail to write; two cancels.
SPECIFICATION FairSpec
CONSTANTS
  c1 = c1
  c2 = c2
  Cancellers = {c1, c2}
  Faults = {"crash", "write", "parent"}
INVARIANTS
  TypeOK
  
  JournalNotLeftRunning
  
PROPERTIES
  
  EveryJobSettles
\* The job is over and nobody has anything left to do.
CHECK_DEADLOCK FALSE
