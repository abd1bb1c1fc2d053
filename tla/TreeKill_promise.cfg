SPECIFICATION Spec
CONSTANTS
  p1 = p1
  p2 = p2
  p3 = p3
  Pids <- ThreePids
  Lines <- CommandLines
  MaxInstance = 3
  DateSources <- BothSources
INVARIANTS
  TypeOK
  RootIsMeant
  StrangersStay
  ChildrenFirst
PROPERTIES
  KeepsPromise
SYMMETRY PidSymmetry
CHECK_DEADLOCK FALSE
