SPECIFICATION GateSpec
CONSTANTS
  r1 = r1
  r2 = r2
  r3 = r3
  r4 = r4
  Requests <- TwoRequests
  Permissions = {"analysis", "approval", "execution", "reconciliation", "admin"}
  Credentials = {"READ_ONLY", "APPROVER", "EXECUTOR", "ADMIN"}
  Window = 1
  Limit <- LimitOfOne
  MaxTime = 1
  MaxRestarts = 1
  Faults = {"storage"}
SYMMETRY RequestSymmetry
CHECK_DEADLOCK FALSE
INVARIANTS
  AnswersAreAudited
  NoPrivilegeCrossover
  SecurityChainIntact
  VerifyAlarmHasACause
