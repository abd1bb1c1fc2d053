SPECIFICATION Spec
CONSTANTS
  r1 = r1
  r2 = r2
  m1 = m1
  m2 = m2
  Rows <- PairingRows
  Preexisting = {}
  Removable = {}
  Flaky = {}
  Window = 2
  Settle = 1
  DownloadSettle = 1
  MaxCycle = 0
  MaxGap = 2
  MaxTime = 5
SYMMETRY Interchangeable
INVARIANTS
  TypeOK
  ReportedAtMostOnce
  NoMissedPair
  PendingIsBounded
  HiddenByNamesake
  HalvesMeet
CHECK_DEADLOCK FALSE
