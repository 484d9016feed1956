SPECIFICATION Spec
CONSTANTS
  a = a
  b = b
  Runs = {"r1", "r2"}
  Followers = {"f1", "f2"}
  Ended = {"completed"}
  MaxLog = 1
  KeepLines = 1
  Senders = {"s1", "s2", "s3"}
  Faults = {"torn"}
  Recordings = {1, 2}
  TtlDays = 1
  HalfDays = 4
  Connections = {1}
  Hosts = {"h1", "h2"}
  Paths <- TwoPaths
  BadPath = "bad"
  Moves <- MovesOfTwo
  MaxHops = 2
  Exchanges = {1}
  Lengths <- FourLengths
  Long = 2
  FlushAt = 2
  MaxRequests = 3
  MaxBytes = 5
  MaxPartial = 2
  Tools = {"read", "edit"}
  Files = {"f"}
  Passes = 2
  PassCalls = 2
  WorkTime = 2
  MaxJobs = 3
  Ids = {"s1", "s2"}
  Ttl = 0
  SessionTime = 1
  Boxed = {"j1", "j2"}
  Workspaces = {"mine", "theirs"}
  Trusted = {"mine"}
  Profiles = {"go", "mem"}
  Configs <- ConfigsOfTwo
  Gitconfig = "gitconfig"
  Equipment = "skills"
INVARIANTS
  TypeOK
  ExactlyOnce
  MessagesArrive
  CountersRise
  OnlyWhatIsAllowed
  OneCeiling
  RecordedOnce
  RepetitionIsReal
  LinesOnce
  WorkAddsUp
  ContinuesOnPurpose
  StateStaysApart
  EquipmentAddsUp
PROPERTIES
  DeathIsShown
  
  PackFollowsRefs
CHECK_DEADLOCK FALSE
