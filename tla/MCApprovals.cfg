SPECIFICATION ApprovalSpec
CONSTANTS
  ConfidenceThreshold = 85
  MaxSequence = 5
  ApprovalIds = {a1}
  Clients = {c1, c2}
  Requests <- MCRequests
  ClientOps = {"get", "approve", "reject", "verify"}
  TTL = 2
  MaxTime = 3
  Faults = {"storage", "readback", "crash"}
SYMMETRY Symmetry
INVARIANTS
  ApprovalTypeOK
  DecisionRespectsDeadline
  AuditTellsTheHistory
  ChainIntact
  AnswersHold
PROPERTIES
  DecisionIsFinal
  AlarmHasACause
