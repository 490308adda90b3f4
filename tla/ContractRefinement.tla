------------------------- MODULE ContractRefinement -------------------------
(* How the tables, the provider's requests and the runs of                 *)
(* ControlledExecution stand for the state of PlatformContract.            *)
EXTENDS ControlledExecution

DecisionOf(status) ==
  CASE status = "ABSENT" -> "none"
    [] status = "PENDING" -> "open"
    [] status = "APPROVED" -> "granted"
    [] OTHER -> "refused"

EffectOf(sent) ==
  CASE sent = <<>> -> "none"
    [] sent = <<"sent">> -> "asked"
    [] sent = <<"applied">> -> "applied"
    [] sent = <<"refused">> -> "refused"
    [] OTHER -> "asked more than once"

VerdictOf(status) ==
  CASE status = "SUCCEEDED" -> "succeeded"
    [] status = "FAILED" -> "failed"
    [] status = "UNKNOWN" -> "unknown"
    [] OTHER -> "none"

OpinionOf(outcome) == IF outcome = "NONE" THEN "none" ELSE outcome

Contract == INSTANCE PlatformContract WITH
  Approvals <- ApprovalIds,
  decision <- [a \in ApprovalIds |-> DecisionOf(approvals[a].status)],
  spent <- [a \in ApprovalIds |-> Executed(a)],
  effect <- [a \in ApprovalIds |-> EffectOf(requests[a])],
  verdict <- [a \in ApprovalIds |-> VerdictOf(executions[a].status)],
  opinion <- [a \in ApprovalIds |-> OpinionOf(assessments[a].outcome)]

\* Every step of every caller of ApprovalService, ExecutionService and
\* ReconciliationService, and of the provider, is one step of the contract or
\* changes nothing of it: claim is Spend, the POST is Ask, complete is Conclude.
ImplementsContract == Contract!ContractSpec
=============================================================================
