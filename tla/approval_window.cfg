SPECIFICATION Spec
CONSTANTS
  Requests = {r1, r2}
  Window = 1
  MaxTime = 2
  MaxRestarts = 0
  MaxFaults = 0
  MaxCalls = 1
CHECK_DEADLOCK FALSE
SYMMETRY MCSymmetry
INVARIANT OpenWindowReleases
