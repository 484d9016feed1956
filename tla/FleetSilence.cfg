\* Two runs and one follower, a log that is never rotated.
SPECIFICATION FairSpec
CONSTANTS
  Runs = {r1, r2}
  Followers = {f1}
  Ended = {"completed"}
  MaxLog = 4
  KeepLines = 1
INVARIANTS
  SilenceMeansWorking
\* Every run is over.
CHECK_DEADLOCK FALSE
