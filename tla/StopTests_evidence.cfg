SPECIFICATION Spec
CONSTANTS
  p1 = p1
  p2 = p2
  p3 = p3
  p4 = p4
  Pids <- ThreePids
  Lines <- AllLines
  MaxInstance = 4
INVARIANTS
  OnlyEvident
  RootsAreGone
SYMMETRY PidSymmetry
CHECK_DEADLOCK FALSE
