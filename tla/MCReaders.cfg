SPECIFICATION Spec
CONSTANTS
  ConfidenceThreshold = 85
  MaxSequence = 5
  ApprovalIds = {a1}
  Clients = {c1}
  Runners = {r1, r2}
  RunnerOps = {"execute", "get"}
  Requests <- MCRequests
  ClientOps = {"approve"}
  TTL = 1
  MaxTime = 1
  Faults = {"storage"}
SYMMETRY Symmetry
INVARIANTS
  RunAnswersHold
PROPERTIES
  GetAlarmHasACause
