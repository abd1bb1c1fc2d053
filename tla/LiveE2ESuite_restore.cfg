SPECIFICATION Spec
CONSTANTS
  Count = 2
  Guarded <- BothSuites
  Profiled <- FirstSuite
  Probed <- FirstSuite
  Scenarios <- VpnOff
  Configured <- AllHooks
INVARIANTS
  RestoredWhenOver
CHECK_DEADLOCK FALSE
