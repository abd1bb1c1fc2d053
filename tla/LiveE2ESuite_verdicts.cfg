SPECIFICATION FairSpec
CONSTANTS
  Count = 2
  Guarded <- BothSuites
  Profiled <- BothSuites
  Probed <- FirstSuite
  Scenarios <- HookedScenarios
  Configured <- AllHooks
INVARIANTS
  TypeOK
  PassedIsProven
  VpnBackBeforeVerdict
  RestoreAlwaysTried
  NoSuiteSkipped
PROPERTIES
  RunEnds
CHECK_DEADLOCK FALSE
