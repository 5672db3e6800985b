SPECIFICATION Spec
CONSTANTS
  Requests = {r1, r2}
  Window = 1
  MaxTime = 2
  MaxRestarts = 1
  MaxFaults = 1
  MaxCalls = 1
CHECK_DEADLOCK FALSE
SYMMETRY MCSymmetry
INVARIANTS TypeOK SuspendedOnce DeniedNeverRuns WaitingIsShown NoRevival
