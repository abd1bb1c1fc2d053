SPECIFICATION Spec
CONSTANTS
  h1 = h1
  h2 = h2
  t1 = t1
  t2 = t2
  LiveHashes <- TwoHashes
  SyntheticCount = 0
  BatchSize = 1
  Tasks <- OneTask
  MaxConcurrent = 1
  Waves = 1
  PerSearch = 1
  MaxActive = 2
  ChurnCount = 0
  Target = 0
  ListWindow = 2
SYMMETRY Interchangeable
INVARIANTS
  CleanupLeavesNothing
CHECK_DEADLOCK FALSE
