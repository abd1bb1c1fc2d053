SPECIFICATION Spec
CONSTANTS
  r1 = r1
  r2 = r2
  m1 = m1
  m2 = m2
  Rows <- MixedRows
  Preexisting = {}
  Removable = {}
  Flaky = {}
  Window = 1
  Settle = 1
  DownloadSettle = 1
  MaxCycle = 1
  MaxGap = 2
  MaxTime = 5
INVARIANTS
  NothingSuppressed
CHECK_DEADLOCK FALSE
