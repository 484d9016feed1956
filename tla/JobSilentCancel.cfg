\* One cancel, nothing goes wrong.
SPECIFICATION Spec
CONSTANTS
  c1 = c1
  c2 = c2
  Cancellers = {c1}
  Faults = {}
INVARIANTS
  EveryEndAnnounced
\* The job is over and nobody has anything left to do.
CHECK_DEADLOCK FALSE
