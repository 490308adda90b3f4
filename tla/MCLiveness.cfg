SPECIFICATION FairSpec
CONSTANTS
  ConfidenceThreshold = 85
  MaxSequence = 5
  ApprovalIds = {a1}
  Clients = {c1}
  Runners = {r1}
  RunnerOps = {"execute", "get", "reconcile"}
  Requests <- MCTagRequests
  ClientOps = {"approve", "verify"}
  TTL = 1
  MaxTime = 1
  Faults = {}
PROPERTIES
  ClaimIsResolved
  EveryCallIsAnswered
