SPECIFICATION GateSpec
CONSTANTS
  r1 = r1
  r2 = r2
  r3 = r3
  r4 = r4
  Requests <- FourRequests
  Permissions = {"analysis"}
  Credentials = {}
  Window = 2
  Limit <- LimitOfOne
  MaxTime = 3
  MaxRestarts = 1
  Faults = {}
SYMMETRY RequestSymmetry
CHECK_DEADLOCK FALSE
INVARIANTS
  LimitHolds
  RefusalIsJustified
