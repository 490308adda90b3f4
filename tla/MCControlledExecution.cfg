SPECIFICATION Spec
CONSTANTS
  ConfidenceThreshold = 85
  MaxSequence = 6
  ApprovalIds = {a1}
  Clients = {c1}
  Runners = {r1, r2}
  RunnerOps = {"execute", "reconcile"}
  Requests <- MCRequests
  ClientOps = {"approve"}
  TTL = 1
  MaxTime = 1
  Faults = {"readback", "crash"}
SYMMETRY Symmetry
INVARIANTS
  TypeOK
  AtMostOneRequest
  RequestOnlyIfApproved
  RecordedOutcomeIsTrue
  ExecutionIsAudited
  AssessmentKeepsOriginal
  ClaimIsExclusive
PROPERTIES
  OutcomeIsFinal
  ImplementsContract
