SPECIFICATION FairSpec
CONSTANTS
  h1 = h1
  h2 = h2
  t1 = t1
  t2 = t2
  LiveHashes <- TwoHashes
  SyntheticCount = 3
  BatchSize = 3
  Tasks <- TwoTasks
  MaxConcurrent = 2
  Waves = 2
  PerSearch = 2
  MaxActive = 1
  ChurnCount = 1
  Target = 1
  ListWindow = 2
INVARIANTS
  TypeOK
  PostedAtMostOnce
  CapOvershootBounded
  DeletedStaysDeleted
  RegisteredAreGone
  TransfersAccountedFor
PROPERTIES
  Terminates
CHECK_DEADLOCK FALSE
