SPECIFICATION Spec
CONSTANTS
  Releases = {r1, r2, r3}
  None = None
  MaxStrays = 2
  MaxSearches = 3
SYMMETRY AnyOrder
INVARIANT LeftoversExcused
\* The acquisition ends.
CHECK_DEADLOCK FALSE
