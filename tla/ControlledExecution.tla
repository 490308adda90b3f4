------------------------ MODULE ControlledExecution ------------------------
(***************************************************************************)
(* The controlled-execution boundary on top of the approval boundary:      *)
(* ExecutionService, ReconciliationService, SQLiteExecutionRepository and  *)
(* the GoHighLevel client (services/executions.py,                         *)
(* services/reconciliation.py, repositories/executions.py,                 *)
(* providers/ghl.py).                                                      *)
(*                                                                         *)
(* execute claims the approval in one transaction, calls the provider with *)
(* no lock held, and records the outcome in a second transaction.  The     *)
(* provider is external: a request that was sent may be applied or refused *)
(* at any later moment, whether or not anyone still waits for the answer.  *)
(* An approval has at most one execution, so executions and assessments    *)
(* are indexed by the approval.                                            *)
(***************************************************************************)
EXTENDS ApprovalLifecycle

CONSTANTS
  Runners,     \* concurrent callers of the execution operations
  RunnerOps    \* the operations they call

ASSUME RunnerOpsAssumption == RunnerOps \subseteq {"execute", "get", "reconcile"}

VARIABLES
  executions,    \* table executions: one row for each approval
  assessments,   \* table execution_reconciliation_assessments
  requests,      \* external: the requests the provider was sent, for each approval
  runs           \* what each runner is doing

executionVars == <<executions, assessments, requests, runs>>
vars == <<clock, approvals, audit, calls, executions, assessments, requests, runs>>

-----------------------------------------------------------------------------
(* Rows, provider outcomes and runs.                                       *)

CompletedStatuses == {"SUCCEEDED", "FAILED", "UNKNOWN"}

NoExecution ==
  [status |-> "ABSENT", claimed_at |-> NoTime, failure_category |-> "NONE",
   integrity_hash |-> <<>>]

\* Mutant: the time of the claim is not stored.
ClaimedExecutionUntimed(now) ==
  [status |-> "CLAIMED", claimed_at |-> NoTime, failure_category |-> "NONE",
   integrity_hash |-> ExecutionHash("CLAIMED", NoTime, "NONE")]

ClaimedExecution(now) ==
  [status |-> "CLAIMED", claimed_at |-> now, failure_category |-> "NONE",
   integrity_hash |-> ExecutionHash("CLAIMED", now, "NONE")]

\* Mutant: the hash is not computed anew.
CompletedExecutionOldHash(x, status, category) ==
  [x EXCEPT !.status = status, !.failure_category = category]

CompletedExecution(x, status, category) ==
  [x EXCEPT
     !.status = status, !.failure_category = category,
     !.integrity_hash = ExecutionHash(status, x.claimed_at, category)]

NoAssessment == [outcome |-> "NONE", original_hash |-> <<>>]

\* A GHLProviderError: its category and whether it is definitive.
Failure(category, certainty) == [category |-> category, certainty |-> certainty]
NoFailure == Failure("NONE", "NONE")

\* Errors raised before anything left the process: no provider configured, no
\* connection, no connection in time, or any other exception.
UnsentFailures ==
  {Failure("AUTHENTICATION", "DEFINITIVE"), Failure("UNAVAILABLE", "DEFINITIVE"),
   Failure("TIMEOUT", "UNKNOWN"), Failure("UNKNOWN", "UNKNOWN")}

\* Mutant: a timeout counts as a definitive failure.
TransportFailuresDefinitive == {Failure("TIMEOUT", "DEFINITIVE"), Failure("UNKNOWN", "UNKNOWN")}

\* The wait ends without an answer, or the answer is a 201 whose body
\* _validate_success does not accept.
TransportFailures == {Failure("TIMEOUT", "UNKNOWN"), Failure("UNKNOWN", "UNKNOWN")}

\* Client-error statuses: the provider says it did not do it.
RefusalFailures == {Failure(category, "DEFINITIVE") :
                      category \in {"BAD_REQUEST", "AUTHENTICATION", "RATE_LIMIT"}}

\* 5xx, and every other status than 201: the provider, or a gateway in front of
\* it, answered in a way that says nothing about the effect.
ServerFailure == Failure("PROVIDER_ERROR", "DEFINITIVE")

\* _FAILURE_MAP, and the status execute derives from the certainty.
FAILURE_MAP ==
  [AUTHENTICATION |-> "PROVIDER_AUTHENTICATION", RATE_LIMIT |-> "PROVIDER_RATE_LIMIT",
   BAD_REQUEST |-> "PROVIDER_BAD_REQUEST", UNAVAILABLE |-> "PROVIDER_UNAVAILABLE",
   TIMEOUT |-> "PROVIDER_TIMEOUT", PROVIDER_ERROR |-> "PROVIDER_ERROR",
   UNKNOWN |-> "UNKNOWN_OUTCOME", NONE |-> "NONE"]

StatusFor(failure) ==
  IF failure = NoFailure THEN "SUCCEEDED"
  ELSE IF failure.certainty = "DEFINITIVE" THEN "FAILED"
  ELSE "UNKNOWN"

IdleRun ==
  [pc |-> "idle", op |-> "none", approval_id |-> NoApproval, now |-> NoTime,
   failure |-> NoFailure, outcome |-> "NONE", execution |-> NoExecution,
   seen |-> NoCommitment, reply |-> "none"]

Init ==
  /\ ApprovalInit
  /\ executions = [a \in ApprovalIds |-> NoExecution]
  /\ assessments = [a \in ApprovalIds |-> NoAssessment]
  /\ requests = [a \in ApprovalIds |-> <<>>]
  /\ runs = [r \in Runners |-> IdleRun]

-----------------------------------------------------------------------------
(* Helpers of the transactions.                                            *)

Executed(a) == executions[a].status # "ABSENT"

\* The answer is on its way to the caller; nothing else of the run is kept.
Finished(run, reply) ==
  [IdleRun EXCEPT !.pc = "done", !.op = run.op, !.approval_id = run.approval_id,
                  !.reply = reply]

Answer(r, reply) == runs' = [runs EXCEPT ![r] = Finished(@, reply)]

Decline(r, reply) ==
  /\ Answer(r, reply)
  /\ UNCHANGED <<approvals, audit, executions, assessments, requests>>

\* The committed change is read back before the run goes on; that can fail.
ReadBackFails(r) == "readback" \in Faults /\ Answer(r, "EXECUTION_UNAVAILABLE")

\* _verify_execution, once the chain and the approval are verified.
HashMatches(x) ==
  x.integrity_hash = ExecutionHash(x.status, x.claimed_at, x.failure_category)

ExecutionMatches(x, row) == HashMatches(x) /\ row.action = "ADD_CONTACT_TAG"

\* The checks complete and reconcile start with.
OpenError(a) ==
  IF ~Executed(a) THEN "EXECUTION_NOT_FOUND"
  ELSE IF ~VerifyAuditChain(audit[a], approvals[a]) THEN "EXECUTION_INTEGRITY_FAILURE"
  ELSE IF ~VerifyIntegrity(a) THEN "APPROVAL_PROVENANCE_INVALID"
  ELSE IF ~ExecutionMatches(executions[a], approvals[a]) THEN "EXECUTION_INTEGRITY_FAILURE"
  ELSE "none"

\* Mutant: an earlier execution of the approval is not looked for.
ClaimErrorAnyNumber(a, now) ==
  IF ~Exists(a) THEN "APPROVAL_NOT_FOUND"
  ELSE IF ~VerifyIntegrity(a) THEN "EXECUTION_INTEGRITY_FAILURE"
  ELSE IF Due(approvals[a], now) THEN "APPROVAL_EXPIRED"
  ELSE IF approvals[a].status # "APPROVED" THEN "APPROVAL_NOT_APPROVED"
  ELSE IF approvals[a].action # "ADD_CONTACT_TAG" THEN "ACTION_NOT_ALLOWED"
  ELSE "none"

\* Mutant: only the stored status EXPIRED counts, the deadline does not.
ClaimErrorNoDeadline(a, now) ==
  IF ~Exists(a) THEN "APPROVAL_NOT_FOUND"
  ELSE IF ~VerifyIntegrity(a) THEN "EXECUTION_INTEGRITY_FAILURE"
  ELSE IF approvals[a].status = "EXPIRED" THEN "APPROVAL_EXPIRED"
  ELSE IF approvals[a].status # "APPROVED" THEN "APPROVAL_NOT_APPROVED"
  ELSE IF approvals[a].action # "ADD_CONTACT_TAG" THEN "ACTION_NOT_ALLOWED"
  ELSE IF Executed(a) THEN "EXECUTION_ALREADY_COMPLETED"
  ELSE "none"

\* Mutant: a CLAIMED execution is taken for abandoned and may be claimed again.
ClaimErrorReclaims(a, now) ==
  IF ~Exists(a) THEN "APPROVAL_NOT_FOUND"
  ELSE IF ~VerifyIntegrity(a) THEN "EXECUTION_INTEGRITY_FAILURE"
  ELSE IF Due(approvals[a], now) THEN "APPROVAL_EXPIRED"
  ELSE IF approvals[a].status # "APPROVED" THEN "APPROVAL_NOT_APPROVED"
  ELSE IF approvals[a].action # "ADD_CONTACT_TAG" THEN "ACTION_NOT_ALLOWED"
  ELSE IF executions[a].status \in CompletedStatuses THEN "EXECUTION_ALREADY_COMPLETED"
  ELSE "none"

\* claim's checks, in their order.
ClaimError(a, now) ==
  IF ~Exists(a) THEN "APPROVAL_NOT_FOUND"
  ELSE IF ~VerifyAuditChain(audit[a], approvals[a]) THEN "EXECUTION_INTEGRITY_FAILURE"
  ELSE IF ~VerifyIntegrity(a) THEN "APPROVAL_PROVENANCE_INVALID"
  ELSE IF approvals[a].status = "EXPIRED" \/ Due(approvals[a], now) THEN "APPROVAL_EXPIRED"
  ELSE IF approvals[a].status # "APPROVED" THEN "APPROVAL_NOT_APPROVED"
  ELSE IF approvals[a].action # "ADD_CONTACT_TAG" THEN "ACTION_NOT_ALLOWED"
  ELSE IF executions[a].status = "CLAIMED" THEN "EXECUTION_ALREADY_CLAIMED"
  ELSE IF Executed(a) THEN "EXECUTION_ALREADY_COMPLETED"
  ELSE "none"

-----------------------------------------------------------------------------
(* ExecutionService.execute.                                               *)

\* Only execute compares the time it reads with anything.
BeginRun(r, op, a, outcome) ==
  /\ runs[r] = IdleRun
  /\ runs' = [runs EXCEPT ![r] =
       [IdleRun EXCEPT !.pc = op, !.op = op, !.approval_id = a,
                       !.now = IF op = "execute" THEN clock ELSE NoTime, !.outcome = outcome]]
  /\ UNCHANGED <<clock, approvals, audit, calls, executions, assessments, requests>>

\* claim appends two events; the second builds on the row the first one left.
AppendClaimEvents(a) ==
  LET row == approvals[a]
      authorized == NextAuditRow(row, "EXECUTION_AUTHORIZED", "PENDING", NoDetail)
      row2 == Advanced(row, "EXECUTION_AUTHORIZED", "PENDING", NoDetail)
      claimed == NextAuditRow(row2, "EXECUTION_CLAIMED", "CLAIMED", NoDetail) IN
  /\ approvals' = [approvals EXCEPT ![a] =
       Advanced(row2, "EXECUTION_CLAIMED", "CLAIMED", NoDetail)]
  /\ audit' = [audit EXCEPT ![a] = Append(Append(@, authorized), claimed)]

\* claim: refused, or the execution row is inserted as PENDING and turned to
\* CLAIMED in the same transaction.
ClaimTxn(r) ==
  LET a == runs[r].approval_id
      error == ClaimError(a, runs[r].now) IN
  /\ runs[r].pc = "execute"
  /\ \/ error # "none" /\ Decline(r, error)
     \/ /\ error = "none"
        /\ executions' = [executions EXCEPT ![a] = ClaimedExecution(runs[r].now)]
        /\ AppendClaimEvents(a)
        /\ \/ runs' = [runs EXCEPT ![r].pc = "calling", ![r].now = NoTime]
           \/ ReadBackFails(r)
        /\ UNCHANGED <<assessments, requests>>
  /\ UNCHANGED <<clock, calls>>

\* The provider call ends one way or another.
CallEnds(r, failure) ==
  runs' = [runs EXCEPT ![r].pc = "complete", ![r].failure = failure]

CallNotSent(r) ==
  /\ runs[r].pc = "calling"
  /\ \E failure \in UnsentFailures : CallEnds(r, failure)
  /\ UNCHANGED <<clock, approvals, audit, calls, executions, assessments, requests>>

\* Mutant: the POST is repeated while no answer is there.
SendRequestAgain(r) ==
  /\ runs[r].pc \in {"calling", "awaiting"}
  /\ Len(requests[runs[r].approval_id]) < 2
  /\ requests' = [requests EXCEPT ![runs[r].approval_id] = Append(@, "sent")]
  /\ runs' = [runs EXCEPT ![r].pc = "awaiting"]
  /\ UNCHANGED <<clock, approvals, audit, calls, executions, assessments>>

SendRequest(r) ==
  /\ runs[r].pc = "calling"
  /\ requests' = [requests EXCEPT ![runs[r].approval_id] = Append(@, "sent")]
  /\ runs' = [runs EXCEPT ![r].pc = "awaiting"]
  /\ UNCHANGED <<clock, approvals, audit, calls, executions, assessments>>

\* External: the provider settles a request it was sent.
ProviderSettles(a, verdict) ==
  /\ \E n \in 1..Len(requests[a]) :
       /\ requests[a][n] = "sent"
       /\ requests' = [requests EXCEPT ![a][n] = verdict]
  /\ UNCHANGED <<clock, approvals, audit, calls, executions, assessments, runs>>

LastRequest(a) == requests[a][Len(requests[a])]

\* Mutant: the client has no timeout and waits for the provider.
AnswersWhenSettled(state) ==
  (IF state = "applied" THEN {NoFailure} ELSE {})
    \cup (IF state = "refused" THEN RefusalFailures ELSE {})

\* The answers add_contact_tag can get while the provider's state is `state`.
Answers(state) ==
  (IF state = "applied" THEN {NoFailure} ELSE {})
    \cup (IF state = "refused" THEN RefusalFailures ELSE {})
    \cup {ServerFailure} \cup TransportFailures

CallReturns(r) ==
  /\ runs[r].pc = "awaiting"
  /\ \E failure \in Answers(LastRequest(runs[r].approval_id)) : CallEnds(r, failure)
  /\ UNCHANGED <<clock, approvals, audit, calls, executions, assessments, requests>>

\* Mutant: an unknown outcome is logged as a failure.
CompletionEventTwoWay(status) ==
  IF status = "SUCCEEDED" THEN "EXECUTION_SUCCEEDED" ELSE "EXECUTION_FAILED"

CompletionEvent(status) ==
  [SUCCEEDED |-> "EXECUTION_SUCCEEDED", FAILED |-> "EXECUTION_FAILED",
   UNKNOWN |-> "EXECUTION_UNKNOWN"][status]

\* complete: the outcome is recorded once, on a CLAIMED execution.
CompleteTxn(r) ==
  LET a == runs[r].approval_id
      status == StatusFor(runs[r].failure)
      category == FAILURE_MAP[runs[r].failure.category]
      error == OpenError(a) IN
  /\ runs[r].pc = "complete"
  /\ \/ error # "none" /\ Decline(r, error)
     \/ /\ error = "none" /\ executions[a].status # "CLAIMED"
        /\ Decline(r, "EXECUTION_ALREADY_COMPLETED")
     \/ /\ error = "none" /\ executions[a].status = "CLAIMED"
        /\ executions' = [executions EXCEPT ![a] =
             CompletedExecution(@, status, category)]
        /\ AppendAudit(a, approvals[a], CompletionEvent(status), status,
                       CategoryDetail(category))
        /\ Answer(r, status) \/ ReadBackFails(r)
        /\ UNCHANGED <<assessments, requests>>
  /\ UNCHANGED <<clock, calls>>

-----------------------------------------------------------------------------
(* ReconciliationService.reconcile.                                        *)

\* Mutant: the assessment overwrites the execution's status.
ReconcileTxnRewrites(r) ==
  LET a == runs[r].approval_id
      outcome == runs[r].outcome
      hash == executions[a].integrity_hash IN
  /\ runs[r].pc = "reconcile"
  /\ OpenError(a) = "none" /\ executions[a].status = "UNKNOWN"
  /\ executions' = [executions EXCEPT ![a] = CompletedExecution(@, outcome, @.failure_category)]
  /\ assessments' = [assessments EXCEPT ![a] = [outcome |-> outcome, original_hash |-> hash]]
  /\ AppendAudit(a, approvals[a], "RECONCILIATION_RECORDED", "UNKNOWN",
                 AssessmentHash(outcome, hash))
  /\ runs' = [runs EXCEPT ![r].pc = "reconcile_read"]
  /\ UNCHANGED <<requests, clock, calls>>

\* Mutant: a second assessment replaces the first.
ReconcileTxnReplaces(r) ==
  LET a == runs[r].approval_id
      outcome == runs[r].outcome
      hash == executions[a].integrity_hash IN
  /\ runs[r].pc = "reconcile"
  /\ OpenError(a) = "none" /\ executions[a].status = "UNKNOWN"
  /\ assessments' = [assessments EXCEPT ![a] = [outcome |-> outcome, original_hash |-> hash]]
  /\ AppendAudit(a, approvals[a], "RECONCILIATION_RECORDED", "UNKNOWN",
                 AssessmentHash(outcome, hash))
  /\ runs' = [runs EXCEPT ![r].pc = "reconcile_read"]
  /\ UNCHANGED <<executions, requests, clock, calls>>

\* The operator's assessment is stored beside the execution, which stays UNKNOWN.
ReconcileTxn(r) ==
  LET a == runs[r].approval_id
      outcome == runs[r].outcome
      hash == executions[a].integrity_hash
      error == OpenError(a) IN
  /\ runs[r].pc = "reconcile"
  /\ \/ error # "none" /\ Decline(r, error)
     \/ /\ error = "none" /\ executions[a].status # "UNKNOWN"
        /\ Decline(r, "EXECUTION_NOT_RECONCILIABLE")
     \/ /\ error = "none" /\ executions[a].status = "UNKNOWN"
        /\ assessments[a] # NoAssessment
        /\ Decline(r, "EXECUTION_ALREADY_ASSESSED")
     \/ /\ error = "none" /\ executions[a].status = "UNKNOWN"
        /\ assessments[a] = NoAssessment
        /\ assessments' = [assessments EXCEPT ![a] =
             [outcome |-> outcome, original_hash |-> hash]]
        /\ AppendAudit(a, approvals[a], "RECONCILIATION_RECORDED", "UNKNOWN",
                       AssessmentHash(outcome, hash))
        /\ runs' = [runs EXCEPT ![r].pc = "reconcile_read"]
        /\ UNCHANGED <<executions, requests>>
  /\ UNCHANGED <<clock, calls>>

\* get_reconciliation, on a connection of its own after the commit.  Its two SELECTs are
\* one step: an assessment and the UNKNOWN execution under it no longer change
\* (OutcomeIsFinal), so nothing can come between them.
ReconcileRead(r) ==
  LET a == runs[r].approval_id
      intact == /\ executions[a].status = "UNKNOWN"
                /\ executions[a].integrity_hash = assessments[a].original_hash IN
  /\ runs[r].pc = "reconcile_read"
  /\ Answer(r, IF intact THEN assessments[a].outcome
                         ELSE "RECONCILIATION_INTEGRITY_FAILURE")
  /\ UNCHANGED <<clock, approvals, audit, calls, executions, assessments, requests>>

-----------------------------------------------------------------------------
(* ExecutionService.get: four SELECTs outside a transaction: the execution, *)
(* the approval row, and the log twice.                                     *)

GetReadExecution(r) ==
  LET a == runs[r].approval_id IN
  /\ runs[r].pc = "get"
  /\ \/ ~Executed(a) /\ Answer(r, "EXECUTION_NOT_FOUND")
     \/ Executed(a) /\ runs' = [runs EXCEPT ![r].pc = "get_row",
                                            ![r].execution = executions[a]]
  /\ UNCHANGED <<clock, approvals, audit, calls, executions, assessments, requests>>

GetReadRow(r) ==
  /\ runs[r].pc = "get_row"
  /\ runs' = [runs EXCEPT ![r].pc = "get_log",
                          ![r].seen = Commitment(approvals[runs[r].approval_id])]
  /\ UNCHANGED <<clock, approvals, audit, calls, executions, assessments, requests>>

\* Mutant: a chain that does not verify is read again, with the old commitment.
GetReadLogWaits(r) ==
  /\ runs[r].pc = "get_log"
  /\ VerifyAuditChain(audit[runs[r].approval_id], runs[r].seen)
  /\ runs' = [runs EXCEPT ![r].pc = "get_log_again"]
  /\ UNCHANGED <<clock, approvals, audit, calls, executions, assessments, requests>>

GetReadLog(r) ==
  LET valid == VerifyAuditChain(audit[runs[r].approval_id], runs[r].seen) IN
  /\ runs[r].pc = "get_log"
  /\ \/ valid /\ runs' = [runs EXCEPT ![r].pc = "get_log_again"]
     \/ ~valid /\ Answer(r, "EXECUTION_INTEGRITY_FAILURE")
  /\ UNCHANGED <<clock, approvals, audit, calls, executions, assessments, requests>>

GetReadLogAgain(r) ==
  LET a == runs[r].approval_id
      valid == /\ VerifyAuditChain(audit[a], runs[r].seen)
               /\ ProvenanceMatches(approvals[a])
      matches == ExecutionMatches(runs[r].execution, approvals[a]) IN
  /\ runs[r].pc = "get_log_again"
  /\ Answer(r, IF ~valid THEN "APPROVAL_PROVENANCE_INVALID"
               ELSE IF ~matches THEN "EXECUTION_INTEGRITY_FAILURE"
               ELSE runs[r].execution.status)
  /\ UNCHANGED <<clock, approvals, audit, calls, executions, assessments, requests>>

-----------------------------------------------------------------------------
(* Ends of a run.                                                          *)

RunReturns(r) ==
  /\ runs[r].pc = "done"
  /\ runs' = [runs EXCEPT ![r] = IdleRun]
  /\ UNCHANGED <<clock, approvals, audit, calls, executions, assessments, requests>>

\* Mutant: execute swallows the error and reports the provider's outcome.
RunStorageFailsSilently(r) ==
  /\ "storage" \in Faults
  /\ runs[r].pc = "complete"
  /\ Answer(r, StatusFor(runs[r].failure))
  /\ UNCHANGED <<clock, approvals, audit, calls, executions, assessments, requests>>

\* A database that cannot be opened is reported by the approval repository's
\* error; a transaction that cannot start or commit is rolled back.  execute does
\* not try again.  The provider call itself touches no storage.
RunStorageFails(r) ==
  /\ "storage" \in Faults
  /\ \/ /\ runs[r].pc \in {"execute", "complete", "reconcile", "reconcile_read", "get"}
        /\ Answer(r, "APPROVAL_UNAVAILABLE")
     \/ /\ runs[r].pc \notin {"idle", "calling", "awaiting", "done"}
        /\ Answer(r, "EXECUTION_UNAVAILABLE")
  /\ UNCHANGED <<clock, approvals, audit, calls, executions, assessments, requests>>

RunCrashes(r) ==
  /\ "crash" \in Faults
  /\ runs[r].pc \notin {"idle", "done"}
  /\ runs' = [runs EXCEPT ![r] = IdleRun]
  /\ UNCHANGED <<clock, approvals, audit, calls, executions, assessments, requests>>

-----------------------------------------------------------------------------

ExecuteStep(r) ==
  ClaimTxn(r) \/ CallNotSent(r) \/ SendRequest(r) \/ CallReturns(r) \/ CompleteTxn(r)

ReconcileStep(r) == ReconcileTxn(r) \/ ReconcileRead(r)

GetStep(r) ==
  GetReadExecution(r) \/ GetReadRow(r) \/ GetReadLog(r) \/ GetReadLogAgain(r)

RunnerNext(r) ==
  \/ \E a \in ApprovalIds :
       \/ \E op \in RunnerOps \ {"reconcile"} : BeginRun(r, op, a, "NONE")
       \/ /\ "reconcile" \in RunnerOps
          /\ \E outcome \in ReconciliationOutcomes : BeginRun(r, "reconcile", a, outcome)
  \/ ExecuteStep(r)
  \/ ReconcileStep(r)
  \/ GetStep(r)
  \/ RunReturns(r)
  \/ RunStorageFails(r)
  \/ RunCrashes(r)

ProviderNext ==
  \E a \in ApprovalIds, verdict \in {"applied", "refused"} : ProviderSettles(a, verdict)

Next ==
  \/ ApprovalNext /\ UNCHANGED executionVars
  \/ \E r \in Runners : RunnerNext(r)
  \/ ProviderNext

Spec == Init /\ [][Next]_vars

\* Calls run to their end: the code is straight-line, SQLite grants the lock within
\* busy_timeout, and httpx ends the wait for the provider at its own timeout.
\* Nothing makes callers call, time pass or the provider settle.
Fairness ==
  /\ \A c \in Clients : WF_vars(CallStep(c) /\ UNCHANGED executionVars)
  /\ \A r \in Runners : WF_vars(ExecuteStep(r) \/ ReconcileStep(r) \/ GetStep(r))

FairSpec == Spec /\ Fairness

-----------------------------------------------------------------------------
(* Properties.                                                             *)

Executions ==
  [status : ExecutionStatuses \cup {"ABSENT"}, claimed_at : Times,
   failure_category : FailureCategories, integrity_hash : ExecutionHashes \cup {<<>>}]

Assessments == [outcome : ReconciliationOutcomes \cup {"NONE"},
                original_hash : ExecutionHashes \cup {<<>>}]

Failures == {NoFailure, ServerFailure} \cup UnsentFailures \cup TransportFailures
              \cup RefusalFailures

RequestStates == {"sent", "applied", "refused"}

RunReplies ==
  ExecutionStatuses \cup ReconciliationOutcomes \cup
  {"none", "APPROVAL_NOT_FOUND", "EXECUTION_INTEGRITY_FAILURE",
   "APPROVAL_PROVENANCE_INVALID", "APPROVAL_EXPIRED", "APPROVAL_NOT_APPROVED",
   "ACTION_NOT_ALLOWED", "EXECUTION_ALREADY_CLAIMED", "EXECUTION_ALREADY_COMPLETED",
   "EXECUTION_NOT_FOUND", "EXECUTION_NOT_RECONCILIABLE", "EXECUTION_ALREADY_ASSESSED",
   "RECONCILIATION_INTEGRITY_FAILURE", "EXECUTION_UNAVAILABLE", "APPROVAL_UNAVAILABLE"}

Runs ==
  [pc : {"idle", "execute", "calling", "awaiting", "complete", "reconcile",
         "reconcile_read", "get", "get_row", "get_log", "get_log_again", "done"},
   op : {"none", "execute", "reconcile", "get"},
   approval_id : ApprovalIds \cup {NoApproval}, now : Times, failure : Failures,
   outcome : ReconciliationOutcomes \cup {"NONE"}, execution : Executions,
   seen : Commitments, reply : RunReplies]

\* The execution tables, the provider's requests and the runs have the shape the
\* schema and the services give them; a run in progress names its approval, the
\* time it read for claim and the outcome it reconciles with.
TypeOK ==
  /\ ApprovalTypeOK
  /\ executions \in [ApprovalIds -> Executions]
  /\ assessments \in [ApprovalIds -> Assessments]
  /\ requests \in [ApprovalIds -> Seq(RequestStates)]
  /\ runs \in [Runners -> Runs]
  /\ \A r \in Runners :
       /\ runs[r].pc # "idle" => runs[r].approval_id \in ApprovalIds
       /\ runs[r].pc = "execute" => runs[r].now \in Nat
       /\ runs[r].pc = "reconcile" => runs[r].outcome \in ReconciliationOutcomes
  /\ \A a \in ApprovalIds :
       /\ Executed(a) => executions[a].claimed_at \in Nat
       /\ Executed(a) => executions[a].integrity_hash \in ExecutionHashes

\* However many callers execute one approval, retry, crash or time out, the
\* provider is asked at most once: the claim is the only permit and it is spent
\* before the call.
AtMostOneRequest == \A a \in ApprovalIds : Len(requests[a]) <= 1

\* The provider is asked only on behalf of an approval that a person granted and a
\* runner claimed, each with a recorded time before the deadline (read before the lock,
\* so that the commit itself may come later), that stems from a contact-tag event, and
\* whose log already says so, in this order.
RequestOnlyIfApproved ==
  \A a \in ApprovalIds : requests[a] # <<>> =>
    LET row == approvals[a]
        log == audit[a] IN
    /\ row.status = "APPROVED"
    /\ row.decided_at < row.expires_at
    /\ executions[a].claimed_at < row.expires_at
    /\ row.action = "ADD_CONTACT_TAG"
    /\ row.provenance.event_type = "GHL_CONTACT_TAG_REQUEST"
    /\ \E n \in 3..(Len(log) - 1) :
         /\ log[n].payload.event_type = "EXECUTION_AUTHORIZED"
         /\ log[n + 1].payload.event_type = "EXECUTION_CLAIMED"

\* What complete records is what happened: SUCCEEDED only if the provider applied
\* the tag, and FAILED, for any reason but an unexplained provider error, only if
\* it never will.
RecordedOutcomeIsTrue ==
  \A a \in ApprovalIds :
    /\ executions[a].status = "SUCCEEDED" => requests[a] = <<"applied">>
    /\ executions[a].status = "FAILED" /\ executions[a].failure_category # "PROVIDER_ERROR" =>
         requests[a] \in {<<>>, <<"refused">>}

CompletionEvents == {"EXECUTION_SUCCEEDED", "EXECUTION_FAILED", "EXECUTION_UNKNOWN"}

\* Positions of the events of a set of types.
PositionsIn(log, types) == {n \in 1..Len(log) : log[n].payload.event_type \in types}

\* The audit log and the execution tables agree at every commit: one authorization
\* and one claim next to each other exactly when there is an execution, one
\* completion after them exactly when it is completed and with its status and
\* category, one assessment after that exactly when there is one.
ExecutionIsAudited ==
  \A a \in ApprovalIds :
    LET log == audit[a]
        x == executions[a]
        claim == Positions(log, "EXECUTION_CLAIMED")
        completion == PositionsIn(log, CompletionEvents)
        assessment == Positions(log, "RECONCILIATION_RECORDED") IN
    /\ Positions(log, "EXECUTION_AUTHORIZED") = {n - 1 : n \in claim}
    /\ Executed(a) <=> \E n \in 3..Len(log) : claim = {n}
    /\ ~Executed(a) => claim = {}
    /\ IF x.status \in CompletedStatuses
       THEN \E n \in 1..Len(log) :
              /\ completion = {n}
              /\ \A m \in claim : m < n
              /\ \A m \in assessment : n < m
              /\ <<x.status, log[n].payload.event_type>> \in
                   {<<"SUCCEEDED", "EXECUTION_SUCCEEDED">>, <<"FAILED", "EXECUTION_FAILED">>,
                    <<"UNKNOWN", "EXECUTION_UNKNOWN">>}
              /\ log[n].payload.detail = CategoryDetail(x.failure_category)
       ELSE completion = {}
    /\ assessments[a] # NoAssessment <=> \E n \in 1..Len(log) : assessment = {n}
    /\ assessments[a] = NoAssessment => assessment = {}

\* No interleaving of executions, retries and reconciliations rewrites an execution
\* that is completed, moves the time of a claim, replaces an assessment or takes
\* back a request.
OutcomeIsFinal ==
  [][\A a \in ApprovalIds :
       /\ executions[a].status \in CompletedStatuses => executions'[a] = executions[a]
       /\ Executed(a) => /\ executions'[a].status # "ABSENT"
                         /\ executions'[a].claimed_at = executions[a].claimed_at
       /\ assessments[a] # NoAssessment => assessments'[a] = assessments[a]
       /\ Len(requests'[a]) >= Len(requests[a])]_vars

\* Reconciliation adds an operator's word and changes nothing: an assessed execution
\* is still UNKNOWN with the hash the assessment was made against, and the log
\* commits to that assessment.
AssessmentKeepsOriginal ==
  \A a \in ApprovalIds : assessments[a] # NoAssessment =>
    /\ executions[a].status = "UNKNOWN"
    /\ assessments[a].original_hash = executions[a].integrity_hash
    /\ \A n \in Positions(audit[a], "RECONCILIATION_RECORDED") :
         audit[a][n].payload.detail =
           AssessmentHash(assessments[a].outcome, assessments[a].original_hash)

\* The run has the claim and has not recorded the outcome yet.
Holds(r, a) == runs[r].pc \in {"calling", "awaiting", "complete"} /\ runs[r].approval_id = a

\* Between claim and complete a run works with no lock held: it is then the only
\* one that does so for its approval, and the execution is still CLAIMED.
ClaimIsExclusive ==
  \A r \in Runners, a \in ApprovalIds : Holds(r, a) =>
    /\ executions[a].status = "CLAIMED"
    /\ \A q \in Runners \ {r} : ~Holds(q, a)

\* execute and get report a completed execution only as what the record says, now
\* and for ever, though get pieces its answer together from four reads.
RunAnswersHold ==
  \A r \in Runners :
    runs[r].op \in {"execute", "get"} /\ runs[r].reply \in CompletedStatuses =>
      executions[runs[r].approval_id].status = runs[r].reply

\* ExecutionService.get reads the execution, the row and the log in separate
\* statements.  Its integrity errors mean that the log moved under it or outgrew
\* its numbering, never that an execution and its hash disagree.
GetAlarmHasACause ==
  [][\A r \in Runners :
       LET a == runs[r].approval_id IN
       /\ runs[r].pc \in {"get_log", "get_log_again"}
       /\ runs'[r].reply \in {"EXECUTION_INTEGRITY_FAILURE", "APPROVAL_PROVENANCE_INVALID"}
       => \/ Commitment(approvals[a]) # runs[r].seen
          \/ Len(audit[a]) > MaxSequence]_vars

\* When storage works and no process dies, every claim is followed by a recorded
\* outcome, whatever the provider does and however long it keeps silent, unless
\* the log outgrows its numbering in between.
ClaimIsResolved ==
  \A a \in ApprovalIds :
    executions[a].status = "CLAIMED" ~>
      \/ executions[a].status \in CompletedStatuses
      \/ Len(audit[a]) > MaxSequence

\* Every caller of every operation gets an answer, also when the others keep
\* writing to the same approval and the provider never answers.
EveryCallIsAnswered ==
  /\ \A c \in Clients : calls[c].pc # "idle" ~> calls[c].pc = "done"
  /\ \A r \in Runners : runs[r].pc # "idle" ~> runs[r].pc = "done"
=============================================================================
