SPECIFICATION Spec
CONSTANTS
  Table <- AllLanes
  MaxFaults = 3
INVARIANTS TypeOK NothingForgotten VolumeLast OneOfEach VerdictsAgree
CHECK_DEADLOCK FALSE
