--------------------- MODULE ControlledExecution_proofs ---------------------
(***************************************************************************)
(* Theorems about the execution boundary, for any number of approvals,     *)
(* clients and runners.  The invariant says what a claim stands for: the   *)
(* one runner that made it works between claim and complete as the only    *)
(* one, on an execution that stays CLAIMED until that runner is done.      *)
(***************************************************************************)
EXTENDS ControlledExecution, ApprovalLifecycle_proofs

-----------------------------------------------------------------------------
(* What holds of one approval with its execution, assessment and requests. *)

\* The events claim appends, one after the other, after the decision.
ClaimLogged(log) ==
  \E n \in 3..(Len(log) - 1) :
    /\ log[n].payload.event_type = "EXECUTION_AUTHORIZED"
    /\ log[n + 1].payload.event_type = "EXECUTION_CLAIMED"

\* What a claim was granted on.
Permitted(row, log, x) ==
  /\ row.status = "APPROVED"
  /\ row.action = "ADD_CONTACT_TAG"
  /\ x.claimed_at \in Nat
  /\ x.claimed_at < row.expires_at
  /\ ClaimLogged(log)

\* What was recorded is what the provider did.
Truthful(x, sent) ==
  /\ x.status = "SUCCEEDED" => Len(sent) = 1 /\ sent[1] = "applied"
  /\ x.status = "FAILED" /\ x.failure_category # "PROVIDER_ERROR" =>
       Len(sent) = 0 \/ sent[1] = "refused"

Assessed(x, t) ==
  /\ x.status = "UNKNOWN"
  /\ t.outcome \in ReconciliationOutcomes
  /\ t.original_hash = x.integrity_hash

ExecutionOK(x, t, sent) ==
  /\ x \in Executions
  /\ t \in Assessments
  /\ sent \in Seq(RequestStates)
  /\ Len(sent) <= 1
  /\ x.status = "ABSENT" => Len(sent) = 0
  /\ x.status # "ABSENT" => HashMatches(x)
  /\ Truthful(x, sent)
  /\ t # NoAssessment => Assessed(x, t)

ExecutionsOK ==
  /\ executions \in [ApprovalIds -> Executions]
  /\ assessments \in [ApprovalIds -> Assessments]
  /\ requests \in [ApprovalIds -> Seq(RequestStates)]
  /\ \A a \in ApprovalIds :
       /\ ExecutionOK(executions[a], assessments[a], requests[a])
       /\ Executed(a) => Permitted(approvals[a], audit[a], executions[a])

-----------------------------------------------------------------------------
(* What holds of one run.                                                  *)

\* What the provider call came back with, against what the provider did so far.
FailureTrue(failure, sent) ==
  /\ failure = NoFailure => Len(sent) = 1 /\ sent[1] = "applied"
  /\ failure.certainty = "DEFINITIVE" /\ failure.category # "PROVIDER_ERROR" =>
       Len(sent) = 0 \/ (Len(sent) = 1 /\ sent[1] = "refused")

Holding == {"calling", "awaiting", "complete"}

RunShape(run) ==
  /\ run \in Runs
  /\ run.pc # "idle" => run.approval_id \in ApprovalIds
  /\ run.pc = "execute" => run.now \in Nat
  /\ run.pc = "reconcile" => run.outcome \in ReconciliationOutcomes
  /\ run.pc \in {"get_row", "get_log", "get_log_again"} => run.execution.status # "ABSENT"

\* A run against the execution, the assessment and the requests of its approval.
RunTables(run, x, t, sent) ==
  /\ run.pc \in Holding => x.status = "CLAIMED"
  /\ run.pc = "calling" => Len(sent) = 0
  /\ run.pc = "awaiting" => Len(sent) = 1
  /\ run.pc = "complete" => FailureTrue(run.failure, sent)
  /\ run.pc = "reconcile_read" => t # NoAssessment

RunsOK ==
  /\ runs \in [Runners -> Runs]
  /\ \A r \in Runners :
       LET a == runs[r].approval_id IN
       /\ RunShape(runs[r])
       /\ runs[r].pc # "idle" => RunTables(runs[r], executions[a], assessments[a], requests[a])
  /\ \A r, q \in Runners :
       /\ runs[r].pc \in Holding /\ runs[q].pc \in Holding
       /\ runs[r].approval_id = runs[q].approval_id
       => r = q

ExecutionInv ==
  /\ ApprovalInv
  /\ ExecutionsOK
  /\ RunsOK

-----------------------------------------------------------------------------
(* Steps that change one run and no table.                                 *)

tableVars == <<clock, approvals, audit, calls, executions, assessments, requests>>

\* Before anything was executed.
LEMMA NoExecutionOK == ExecutionOK(NoExecution, NoAssessment, <<>>)
<1>1. NoExecution \in Executions
  BY DEF NoExecution, Executions, Times, NoTime, FailureCategories
<1>2. NoAssessment \in Assessments
  BY DEF NoAssessment, Assessments
<1>3. QED
  BY <1>1, <1>2 DEF ExecutionOK, Truthful, NoExecution

\* Between two operations.
LEMMA IdleRunOK == RunShape(IdleRun)
<1>1. NoExecution \in Executions /\ NoFailure \in Failures
  BY NoExecutionOK DEF ExecutionOK, Failures
<1>2. NoCommitment \in Commitments
  BY DEF NoCommitment, Commitments, GENESIS_AUDIT_HASH
<1>3. IdleRun \in Runs
  BY <1>1, <1>2 DEF IdleRun, Runs, Times, NoTime, RunReplies
<1>4. QED
  BY <1>3 DEF RunShape, IdleRun

\* Replacing one run: whoever holds a claim afterwards held it before.
LEMMA StoreRun ==
  ASSUME ExecutionInv, NEW r \in Runners, NEW run, RunShape(run),
         run.pc # "idle" => RunTables(run, executions[run.approval_id],
                                      assessments[run.approval_id], requests[run.approval_id]),
         run.pc \in Holding =>
           runs[r].pc \in Holding /\ runs[r].approval_id = run.approval_id,
         runs' = [runs EXCEPT ![r] = run],
         UNCHANGED tableVars
  PROVE  ExecutionInv'
<1>1. ApprovalInv' /\ ExecutionsOK'
  BY DEF ExecutionInv, ApprovalInv, Tables, CallsOK, ExecutionsOK, Executed, tableVars
<1>2. runs' \in [Runners -> Runs]
  BY DEF ExecutionInv, RunsOK, RunShape
<1>3. \A q \in Runners : runs'[q] = IF q = r THEN run ELSE runs[q]
  BY DEF ExecutionInv, RunsOK
<1>4. ASSUME NEW q \in Runners
      PROVE  LET a == runs'[q].approval_id IN
             /\ RunShape(runs'[q])
             /\ runs'[q].pc # "idle" =>
                  RunTables(runs'[q], executions[a], assessments[a], requests[a])
  BY <1>3 DEF ExecutionInv, RunsOK
<1>5. ASSUME NEW p \in Runners, NEW q \in Runners,
             runs'[p].pc \in Holding, runs'[q].pc \in Holding,
             runs'[p].approval_id = runs'[q].approval_id
      PROVE  p = q
  <2>1. /\ runs[p].pc \in Holding /\ runs[p].approval_id = runs'[p].approval_id
        /\ runs[q].pc \in Holding /\ runs[q].approval_id = runs'[q].approval_id
    BY <1>3, <1>5
  <2>2. QED
    BY <1>5, <2>1 DEF ExecutionInv, RunsOK
<1>6. RunsOK'
  BY <1>2, <1>4, <1>5 DEF RunsOK, tableVars
<1>7. QED
  BY <1>1, <1>6 DEF ExecutionInv

\* The run with its answer.
LEMMA FinishedOK ==
  ASSUME RunsOK, NEW r \in Runners, runs[r].pc # "idle", NEW reply \in RunReplies
  PROVE  /\ RunShape(Finished(runs[r], reply))
         /\ Finished(runs[r], reply).pc = "done"
         /\ Finished(runs[r], reply).approval_id = runs[r].approval_id
<1>1. runs[r] \in Runs /\ runs[r].approval_id \in ApprovalIds
  BY DEF RunsOK, RunShape
<1>2. /\ runs[r].op \in {"none", "execute", "reconcile", "get"}
  BY <1>1 DEF Runs
<1>3. /\ Finished(runs[r], reply) \in Runs
      /\ Finished(runs[r], reply).pc = "done"
      /\ Finished(runs[r], reply).approval_id = runs[r].approval_id
  BY <1>1, <1>2, IdleRunOK DEF Finished, RunShape, Runs
<1>4. QED
  BY <1>1, <1>3 DEF RunShape

\* A run that ends without changing a table.
LEMMA AnswerOK ==
  ASSUME ExecutionInv, NEW r \in Runners, runs[r].pc # "idle", NEW reply \in RunReplies,
         Answer(r, reply), UNCHANGED tableVars
  PROVE  ExecutionInv'
<1> DEFINE run == Finished(runs[r], reply)
<1>1. RunShape(run) /\ run.pc = "done"
  BY FinishedOK DEF ExecutionInv
<1>2. runs' = [runs EXCEPT ![r] = run]
  BY DEF Answer
<1> HIDE DEF run
<1>3. run.pc \notin Holding /\ RunTables(run, executions[run.approval_id],
                       assessments[run.approval_id], requests[run.approval_id])
  BY <1>1 DEF RunTables, Holding
<1>4. QED
  BY <1>1, <1>2, <1>3, StoreRun

\* A run that ends abruptly, or returns.
LEMMA IdleAgainOK ==
  ASSUME ExecutionInv, NEW r \in Runners, runs' = [runs EXCEPT ![r] = IdleRun],
         UNCHANGED tableVars
  PROVE  ExecutionInv'
<1>1. IdleRun.pc = "idle" /\ IdleRun.pc \notin Holding
  BY DEF IdleRun, Holding
<1>2. QED
  BY <1>1, IdleRunOK, StoreRun

\* execute, get and reconcile begin.
LEMMA BeginRunOK ==
  ASSUME ExecutionInv, NEW r \in Runners, NEW a \in ApprovalIds,
         NEW op \in {"execute", "get", "reconcile"},
         NEW outcome \in ReconciliationOutcomes \cup {"NONE"},
         op = "reconcile" => outcome \in ReconciliationOutcomes,
         BeginRun(r, op, a, outcome)
  PROVE  ExecutionInv'
<1> DEFINE now == IF op = "execute" THEN clock ELSE NoTime
           run == [IdleRun EXCEPT !.pc = op, !.op = op, !.approval_id = a,
                                  !.now = now, !.outcome = outcome]
<1>1. now \in Times /\ (op = "execute" => now \in Nat)
  BY DEF ExecutionInv, ApprovalInv, Times
<1> HIDE DEF now
<1>2. /\ run \in Runs
      /\ run.pc = op /\ run.approval_id = a /\ run.now = now /\ run.outcome = outcome
  BY <1>1, IdleRunOK DEF RunShape, Runs
<1>3. runs' = [runs EXCEPT ![r] = run] /\ UNCHANGED tableVars
  BY DEF BeginRun, tableVars, now
<1> HIDE DEF run
<1>4. RunShape(run)
  BY <1>1, <1>2 DEF RunShape
<1>5. run.pc \notin Holding /\ RunTables(run, executions[run.approval_id],
                       assessments[run.approval_id], requests[run.approval_id])
  BY <1>2 DEF RunTables, Holding
<1>6. QED
  BY <1>3, <1>4, <1>5, StoreRun

\* A refused transaction.
LEMMA DeclineOK ==
  ASSUME ExecutionInv, NEW r \in Runners, runs[r].pc # "idle", NEW reply \in RunReplies,
         Decline(r, reply), UNCHANGED <<clock, calls>>
  PROVE  ExecutionInv'
BY AnswerOK DEF Decline, tableVars

\* The provider call ends: its outcome is true of what the provider did so far.
LEMMA CallEndsOK ==
  ASSUME ExecutionInv, NEW r \in Runners, runs[r].pc \in {"calling", "awaiting"},
         NEW failure \in Failures, FailureTrue(failure, requests[runs[r].approval_id]),
         CallEnds(r, failure), UNCHANGED tableVars
  PROVE  ExecutionInv'
<1> DEFINE run == [runs[r] EXCEPT !.pc = "complete", !.failure = failure]
<1>1. /\ RunShape(runs[r])
      /\ runs[r].approval_id \in ApprovalIds
      /\ executions[runs[r].approval_id].status = "CLAIMED"
  BY DEF ExecutionInv, RunsOK, RunShape, RunTables, Holding
<1>2. /\ run \in Runs
      /\ run.pc = "complete" /\ run.failure = failure
      /\ run.approval_id = runs[r].approval_id
  BY <1>1 DEF RunShape, Runs
<1>3. runs' = [runs EXCEPT ![r] = run]
  BY DEF CallEnds
<1> HIDE DEF run
<1>4. RunShape(run)
  BY <1>1, <1>2 DEF RunShape
<1>5. RunTables(run, executions[run.approval_id], assessments[run.approval_id],
                requests[run.approval_id])
  BY <1>1, <1>2 DEF RunTables
<1>6. QED
  BY <1>2, <1>3, <1>4, <1>5, StoreRun DEF Holding

\* An error before anything was sent.
LEMMA CallNotSentOK ==
  ASSUME ExecutionInv, NEW r \in Runners, CallNotSent(r)
  PROVE  ExecutionInv'
<1>1. runs[r].pc = "calling" /\ UNCHANGED tableVars
  BY DEF CallNotSent, tableVars
<1>2. PICK failure \in UnsentFailures : CallEnds(r, failure)
  BY DEF CallNotSent
<1>3. Len(requests[runs[r].approval_id]) = 0
  BY <1>1 DEF ExecutionInv, RunsOK, RunTables
<1>4. failure \in Failures /\ failure # NoFailure
  BY DEF Failures, UnsentFailures, Failure, NoFailure
<1>5. FailureTrue(failure, requests[runs[r].approval_id])
  BY <1>3, <1>4 DEF FailureTrue
<1>6. QED
  BY <1>1, <1>2, <1>4, <1>5, CallEndsOK

\* An answer, or the end of the wait for one.
LEMMA CallReturnsOK ==
  ASSUME ExecutionInv, NEW r \in Runners, CallReturns(r)
  PROVE  ExecutionInv'
<1> DEFINE sent == requests[runs[r].approval_id]
<1>1. runs[r].pc = "awaiting" /\ UNCHANGED tableVars
  BY DEF CallReturns, tableVars
<1>2. PICK failure \in Answers(LastRequest(runs[r].approval_id)) : CallEnds(r, failure)
  BY DEF CallReturns
<1>3. Len(sent) = 1
  BY <1>1 DEF ExecutionInv, RunsOK, RunTables
<1>4. LastRequest(runs[r].approval_id) = sent[1]
  BY <1>3 DEF LastRequest
<1>5. \/ failure = NoFailure /\ sent[1] = "applied"
      \/ failure \in RefusalFailures /\ sent[1] = "refused"
      \/ failure = ServerFailure
      \/ failure \in TransportFailures
  BY <1>2, <1>4 DEF Answers
<1>6. failure \in Failures
  BY <1>5 DEF Failures
<1>7. FailureTrue(failure, sent)
  BY <1>3, <1>5 DEF FailureTrue, RefusalFailures, ServerFailure, TransportFailures, Failure,
                    NoFailure
<1>8. QED
  BY <1>1, <1>2, <1>6, <1>7, CallEndsOK

\* get_reconciliation answers with the assessment that reconcile stored.
LEMMA ReconcileReadOK ==
  ASSUME ExecutionInv, NEW r \in Runners, ReconcileRead(r)
  PROVE  ExecutionInv'
<1> DEFINE a == runs[r].approval_id
<1>1. runs[r].pc = "reconcile_read" /\ UNCHANGED tableVars
  BY DEF ReconcileRead, tableVars
<1>2. a \in ApprovalIds /\ assessments[a] # NoAssessment
  BY <1>1 DEF ExecutionInv, RunsOK, RunShape, RunTables
<1>3. assessments[a].outcome \in ReconciliationOutcomes
  BY <1>2 DEF ExecutionInv, ExecutionsOK, ExecutionOK, Assessed
<1>4. PICK reply \in {assessments[a].outcome, "RECONCILIATION_INTEGRITY_FAILURE"} :
        Answer(r, reply)
  BY DEF ReconcileRead
<1>5. reply \in RunReplies
  BY <1>3 DEF RunReplies
<1>6. QED
  BY <1>1, <1>4, <1>5, AnswerOK

\* The four reads of get.
LEMMA GetStepOK ==
  ASSUME ExecutionInv, NEW r \in Runners, GetStep(r)
  PROVE  ExecutionInv'
<1> DEFINE a == runs[r].approval_id
<1>1. runs[r].pc \in {"get", "get_row", "get_log", "get_log_again"} /\ UNCHANGED tableVars
  BY DEF GetStep, GetReadExecution, GetReadRow, GetReadLog, GetReadLogAgain, tableVars
<1>2. a \in ApprovalIds /\ runs[r] \in Runs /\ RunShape(runs[r])
  BY <1>1 DEF ExecutionInv, RunsOK, RunShape
<1>3. \A run : /\ RunShape(run)
                /\ run.pc \in {"get_row", "get_log", "get_log_again"}
                /\ runs' = [runs EXCEPT ![r] = run]
                => ExecutionInv'
  <2> SUFFICES ASSUME NEW run, RunShape(run),
                      run.pc \in {"get_row", "get_log", "get_log_again"},
                      runs' = [runs EXCEPT ![r] = run]
               PROVE  ExecutionInv'
    OBVIOUS
  <2>1. run.pc \notin Holding /\ RunTables(run, executions[run.approval_id],
                         assessments[run.approval_id], requests[run.approval_id])
    BY DEF RunTables, Holding
  <2>2. QED
    BY <1>1, <2>1, StoreRun
<1>4. \A reply \in RunReplies : Answer(r, reply) => ExecutionInv'
  BY <1>1, AnswerOK
<1>5. CASE GetReadExecution(r)
  <2> DEFINE run == [runs[r] EXCEPT !.pc = "get_row", !.execution = executions[a]]
  <2>1. "EXECUTION_NOT_FOUND" \in RunReplies
    BY DEF RunReplies
  <2>2. ASSUME Executed(a)
        PROVE  RunShape(run) /\ run.pc = "get_row"
    <3>1. executions[a] \in Executions /\ executions[a].status # "ABSENT"
      BY <1>2, <2>2 DEF ExecutionInv, ExecutionsOK, Executed
    <3>2. QED
      BY <1>2, <3>1 DEF RunShape, Runs
  <2>3. \/ Answer(r, "EXECUTION_NOT_FOUND")
        \/ Executed(a) /\ runs' = [runs EXCEPT ![r] = run]
    BY <1>5 DEF GetReadExecution
  <2> HIDE DEF run
  <2>4. QED
    BY <1>3, <1>4, <2>1, <2>2, <2>3
<1>6. CASE GetReadRow(r)
  <2> DEFINE run == [runs[r] EXCEPT !.pc = "get_log", !.seen = Commitment(approvals[a])]
  <2>1. Commitment(approvals[a]) \in Commitments
    BY <1>2 DEF ExecutionInv, ApprovalInv, Tables, Rows, Commitment, Commitments
  <2>2. RunShape(run) /\ run.pc = "get_log"
    BY <1>2, <1>6, <2>1 DEF RunShape, Runs, GetReadRow
  <2>3. runs' = [runs EXCEPT ![r] = run]
    BY <1>6 DEF GetReadRow
  <2> HIDE DEF run
  <2>4. QED
    BY <1>3, <2>2, <2>3
<1>7. CASE GetReadLog(r)
  <2> DEFINE run == [runs[r] EXCEPT !.pc = "get_log_again"]
  <2>1. "EXECUTION_INTEGRITY_FAILURE" \in RunReplies
    BY DEF RunReplies
  <2>2. RunShape(run) /\ run.pc = "get_log_again"
    BY <1>2, <1>7 DEF RunShape, Runs, GetReadLog
  <2>3. \/ Answer(r, "EXECUTION_INTEGRITY_FAILURE")
        \/ runs' = [runs EXCEPT ![r] = run]
    BY <1>7 DEF GetReadLog
  <2> HIDE DEF run
  <2>4. QED
    BY <1>3, <1>4, <2>1, <2>2, <2>3
<1>8. CASE GetReadLogAgain(r)
  <2>1. runs[r].execution.status \in ExecutionStatuses
    BY <1>2, <1>8 DEF RunShape, Runs, Executions, GetReadLogAgain
  <2>2. PICK reply \in {"APPROVAL_PROVENANCE_INVALID", "EXECUTION_INTEGRITY_FAILURE",
                        runs[r].execution.status} : Answer(r, reply)
    BY <1>8 DEF GetReadLogAgain
  <2>3. reply \in RunReplies
    BY <2>1 DEF RunReplies
  <2>4. QED
    BY <1>4, <2>2, <2>3
<1>9. QED
  BY <1>5, <1>6, <1>7, <1>8 DEF GetStep

\* A run returns, fails on storage or dies.
LEMMA RunEndsOK ==
  ASSUME ExecutionInv, NEW r \in Runners, RunReturns(r) \/ RunStorageFails(r) \/ RunCrashes(r)
  PROVE  ExecutionInv'
<1>1. CASE RunReturns(r) \/ RunCrashes(r)
  BY <1>1, IdleAgainOK DEF RunReturns, RunCrashes, tableVars
<1>2. CASE RunStorageFails(r)
  <2>1. PICK reply \in {"APPROVAL_UNAVAILABLE", "EXECUTION_UNAVAILABLE"} : Answer(r, reply)
    BY <1>2 DEF RunStorageFails
  <2>2. reply \in RunReplies
    BY DEF RunReplies
  <2>3. runs[r].pc # "idle" /\ UNCHANGED tableVars
    BY <1>2 DEF RunStorageFails, tableVars
  <2>4. QED
    BY <2>1, <2>2, <2>3, AnswerOK
<1>3. QED
  BY <1>1, <1>2

-----------------------------------------------------------------------------
(* Steps that change the tables or the provider's requests.                *)

\* A permit stays one whatever is appended to the log afterwards.
LEMMA PermitStays ==
  ASSUME NEW row, NEW log \in Seq(AuditRows), NEW row2, NEW log2 \in Seq(AuditRows), NEW x,
         RowStep(row, log, row2, log2), Permitted(row, log, x)
  PROVE  Permitted(row2, log2, x)
<1>1. row2.status = "APPROVED" /\ row2.action = row.action /\ row2.expires_at = row.expires_at
  BY DEF Permitted, RowStep, Fixed, TerminalStatuses
<1>2. ClaimLogged(log2)
  <2>1. PICK n \in 3..(Len(log) - 1) :
          /\ log[n].payload.event_type = "EXECUTION_AUTHORIZED"
          /\ log[n + 1].payload.event_type = "EXECUTION_CLAIMED"
    BY DEF Permitted, ClaimLogged
  <2>2. n \in 1..Len(log) /\ n + 1 \in 1..Len(log) /\ n \in 3..(Len(log2) - 1)
    BY DEF RowStep
  <2>3. log2[n] = log[n] /\ log2[n + 1] = log[n + 1]
    BY <2>2 DEF RowStep
  <2>4. QED
    BY <2>1, <2>2, <2>3 DEF ClaimLogged
<1>3. QED
  BY <1>1, <1>2 DEF Permitted

\* One approval's execution, assessment and requests are replaced.
LEMMA StoreExecution ==
  ASSUME ExecutionInv, TableStep, NEW a \in ApprovalIds, NEW x, NEW t, NEW sent,
         executions' = [executions EXCEPT ![a] = x],
         assessments' = [assessments EXCEPT ![a] = t],
         requests' = [requests EXCEPT ![a] = sent],
         ExecutionOK(x, t, sent),
         x.status # "ABSENT" => Permitted(approvals'[a], audit'[a], x)
  PROVE  ExecutionsOK'
<1>1. /\ executions' \in [ApprovalIds -> Executions]
      /\ assessments' \in [ApprovalIds -> Assessments]
      /\ requests' \in [ApprovalIds -> Seq(RequestStates)]
  BY DEF ExecutionInv, ExecutionsOK, ExecutionOK
<1>2. ASSUME NEW b \in ApprovalIds
      PROVE  /\ ExecutionOK(executions'[b], assessments'[b], requests'[b])
             /\ executions'[b].status # "ABSENT" =>
                  Permitted(approvals'[b], audit'[b], executions'[b])
  <2>1. CASE b = a
    <3>1. executions'[b] = x /\ assessments'[b] = t /\ requests'[b] = sent
      BY <2>1 DEF ExecutionInv, ExecutionsOK
    <3>2. QED
      BY <2>1, <3>1
  <2>2. CASE b # a
    <3>1. /\ executions'[b] = executions[b]
          /\ assessments'[b] = assessments[b]
          /\ requests'[b] = requests[b]
      BY <2>2 DEF ExecutionInv, ExecutionsOK
    <3>2. RowStep(approvals[b], audit[b], approvals'[b], audit'[b])
      BY DEF TableStep
    <3>3. audit[b] \in Seq(AuditRows) /\ audit'[b] \in Seq(AuditRows)
      BY DEF TableStep, Tables, ExecutionInv, ApprovalInv
    <3>4. executions[b].status # "ABSENT" => Permitted(approvals[b], audit[b], executions[b])
      BY DEF ExecutionInv, ExecutionsOK, Executed
    <3>5. executions[b].status # "ABSENT" => Permitted(approvals'[b], audit'[b], executions[b])
      BY <3>2, <3>3, <3>4, PermitStays
    <3>6. ExecutionOK(executions[b], assessments[b], requests[b])
      BY DEF ExecutionInv, ExecutionsOK
    <3>7. QED
      BY <3>1, <3>5, <3>6
  <2>3. QED
    BY <2>1, <2>2
<1>3. QED
  BY <1>1, <1>2 DEF ExecutionsOK, Executed, ExecutionOK, Permitted, Truthful, Assessed,
                    HashMatches

\* One run is replaced while tables change: nobody else may hold its claim, and what
\* the other runs rely on must still be there.
LEMMA StoreRunToo ==
  ASSUME RunsOK, NEW r \in Runners, NEW run, RunShape(run),
         runs' = [runs EXCEPT ![r] = run],
         run.pc # "idle" => RunTables(run, executions'[run.approval_id],
                                      assessments'[run.approval_id],
                                      requests'[run.approval_id]),
         \A q \in Runners \ {r} :
           LET a == runs[q].approval_id IN
           runs[q].pc # "idle" =>
             RunTables(runs[q], executions'[a], assessments'[a], requests'[a]),
         run.pc \in Holding =>
           \A q \in Runners \ {r} :
             ~(runs[q].pc \in Holding /\ runs[q].approval_id = run.approval_id)
  PROVE  RunsOK'
<1>1. runs' \in [Runners -> Runs]
  BY DEF RunsOK, RunShape
<1>2. \A q \in Runners : runs'[q] = IF q = r THEN run ELSE runs[q]
  BY DEF RunsOK
<1>3. ASSUME NEW q \in Runners
      PROVE  LET a == runs'[q].approval_id IN
             /\ RunShape(runs'[q])
             /\ runs'[q].pc # "idle" =>
                  RunTables(runs'[q], executions'[a], assessments'[a], requests'[a])
  BY <1>2 DEF RunsOK
<1>4. ASSUME NEW p \in Runners, NEW q \in Runners,
             runs'[p].pc \in Holding, runs'[q].pc \in Holding,
             runs'[p].approval_id = runs'[q].approval_id
      PROVE  p = q
  <2>1. CASE p # r /\ q # r
    BY <1>2, <1>4, <2>1 DEF RunsOK
  <2>2. CASE p = r \/ q = r
    BY <1>2, <1>4, <2>2
  <2>3. QED
    BY <2>1, <2>2
<1>5. QED
  BY <1>1, <1>3, <1>4 DEF RunsOK

\* One run whose claim or assessment changes; nobody else holds the claim.
LEMMA OthersUnmoved ==
  ASSUME ExecutionInv, NEW r \in Runners, NEW a \in ApprovalIds,
         \A q \in Runners \ {r} : ~(runs[q].pc \in Holding /\ runs[q].approval_id = a),
         \A b \in ApprovalIds : b # a => /\ executions'[b] = executions[b]
                                        /\ assessments'[b] = assessments[b]
                                        /\ requests'[b] = requests[b],
         assessments[a] # NoAssessment => assessments'[a] # NoAssessment
  PROVE  \A q \in Runners \ {r} :
           LET b == runs[q].approval_id IN
           runs[q].pc # "idle" =>
             RunTables(runs[q], executions'[b], assessments'[b], requests'[b])
<1> SUFFICES ASSUME NEW q \in Runners \ {r}, runs[q].pc # "idle"
             PROVE  LET b == runs[q].approval_id IN
                    RunTables(runs[q], executions'[b], assessments'[b], requests'[b])
  OBVIOUS
<1>1. runs[q].approval_id \in ApprovalIds
  BY DEF ExecutionInv, RunsOK, RunShape
<1>2. RunTables(runs[q], executions[runs[q].approval_id],
                assessments[runs[q].approval_id], requests[runs[q].approval_id])
  BY DEF ExecutionInv, RunsOK
<1>3. CASE runs[q].approval_id = a
  BY <1>2, <1>3 DEF RunTables, Holding
<1>4. CASE runs[q].approval_id # a
  BY <1>1, <1>2, <1>4
<1>5. QED
  BY <1>3, <1>4

\* The two events of claim, one after the other.
LEMMA ClaimRow ==
  ASSUME NEW row, NEW log, RowInv(row, log), row.status = "APPROVED",
         NEW row2, row2 = Advanced(row, "EXECUTION_AUTHORIZED", "PENDING", NoDetail),
         NEW log2, log2 = Append(log, NextAuditRow(row, "EXECUTION_AUTHORIZED", "PENDING", NoDetail)),
         NEW row3, row3 = Advanced(row2, "EXECUTION_CLAIMED", "CLAIMED", NoDetail),
         NEW log3, log3 = Append(log2, NextAuditRow(row2, "EXECUTION_CLAIMED", "CLAIMED", NoDetail))
  PROVE  RowInv(row3, log3) /\ RowStep(row, log, row3, log3) /\ ClaimLogged(log3)
<1>1. /\ "EXECUTION_AUTHORIZED" \in NoteTypes /\ "EXECUTION_CLAIMED" \in NoteTypes
      /\ "PENDING" \in AuditStatuses /\ "CLAIMED" \in AuditStatuses
      /\ NoDetail \in Details
  BY DEF NoteTypes, AuditEventTypes, DecisionEvents, AuditStatuses, Details
<1>2. row.status \in TerminalStatuses
  BY DEF TerminalStatuses
<1>3. RowInv(row2, log2) /\ RowStep(row, log, row2, log2)
  BY <1>1, <1>2, NoteRow
<1>4. row2.status \in TerminalStatuses
  BY <1>2, <1>3 DEF RowStep, Fixed
<1>5. RowInv(row3, log3) /\ RowStep(row2, log2, row3, log3)
  BY <1>1, <1>3, <1>4, NoteRow
<1>6. row \in Rows /\ log \in Seq(AuditRows) /\ Len(log) >= 2
  BY <1>2 DEF RowInv, History
<1>7. row2 \in Rows /\ log2 \in Seq(AuditRows) /\ log3 \in Seq(AuditRows)
  BY <1>3, <1>5 DEF RowInv
<1>8. /\ Len(log2) = Len(log) + 1
      /\ log2[Len(log) + 1].payload.event_type = "EXECUTION_AUTHORIZED"
  BY <1>1, <1>6, AppendedLog DEF NoteTypes
<1>9. /\ Len(log3) = Len(log2) + 1
      /\ log3[Len(log2) + 1].payload.event_type = "EXECUTION_CLAIMED"
  BY <1>1, <1>7, AppendedLog DEF NoteTypes
<1>10. log3[Len(log) + 1] = log2[Len(log) + 1]
  BY <1>5, <1>6, <1>8 DEF RowStep
<1>11. ClaimLogged(log3)
  <2>1. Len(log) + 1 \in 3..(Len(log3) - 1)
    BY <1>6, <1>8, <1>9
  <2>2. QED
    BY <2>1, <1>8, <1>9, <1>10 DEF ClaimLogged
<1>12. RowStep(row, log, row3, log3)
  BY <1>2, <1>3, <1>4, <1>5, <1>6, <1>7 DEF RowStep, Fixed, TerminalStatuses
<1>13. QED
  BY <1>5, <1>11, <1>12

\* The events of claim are appended to the log of an approved approval.
LEMMA AppendClaimEventsOK ==
  ASSUME Tables, NEW a \in ApprovalIds, approvals[a].status = "APPROVED", AppendClaimEvents(a)
  PROVE  TableStep /\ ClaimLogged(audit'[a])
<1> DEFINE row2 == Advanced(approvals[a], "EXECUTION_AUTHORIZED", "PENDING", NoDetail)
           log2 == Append(audit[a],
                     NextAuditRow(approvals[a], "EXECUTION_AUTHORIZED", "PENDING", NoDetail))
           row3 == Advanced(row2, "EXECUTION_CLAIMED", "CLAIMED", NoDetail)
           log3 == Append(log2, NextAuditRow(row2, "EXECUTION_CLAIMED", "CLAIMED", NoDetail))
<1>1. /\ approvals' = [approvals EXCEPT ![a] = row3]
      /\ audit' = [audit EXCEPT ![a] = log3]
  BY DEF AppendClaimEvents
<1>2. RowInv(approvals[a], audit[a])
  BY DEF Tables
<1>3. /\ RowInv(row3, log3)
      /\ RowStep(approvals[a], audit[a], row3, log3)
      /\ ClaimLogged(log3)
  BY <1>2, ClaimRow
<1> HIDE DEF row3, log3
<1>4. TableStep
  BY <1>1, <1>3, StoreRow
<1>5. audit'[a] = log3
  BY <1>1 DEF Tables
<1>6. QED
  BY <1>3, <1>4, <1>5

\* What claim has checked when it goes on.
LEMMA ClaimChecked ==
  ASSUME NEW a, NEW now, ClaimError(a, now) = "none"
  PROVE  /\ approvals[a].status = "APPROVED"
         /\ approvals[a].action = "ADD_CONTACT_TAG"
         /\ ~Due(approvals[a], now)
         /\ ~Executed(a)
BY DEF ClaimError

\* claim refuses with one of its errors.
LEMMA ClaimErrorType ==
  ASSUME NEW a, NEW now
  PROVE  ClaimError(a, now) \in RunReplies
BY DEF ClaimError, RunReplies

\* claim: the permit is spent, and only the runner that spent it goes on with it.
LEMMA ClaimTxnOK ==
  ASSUME ExecutionInv, NEW r \in Runners, ClaimTxn(r)
  PROVE  ExecutionInv'
<1> DEFINE a == runs[r].approval_id
           now == runs[r].now
           x == ClaimedExecution(now)
<1>1. /\ runs[r].pc = "execute" /\ RunShape(runs[r])
      /\ a \in ApprovalIds /\ now \in Nat /\ runs[r] \in Runs
      /\ UNCHANGED <<clock, calls>>
  BY DEF ClaimTxn, ExecutionInv, RunsOK, RunShape
<1>2. CASE ClaimError(a, now) # "none" /\ Decline(r, ClaimError(a, now))
  <2>1. ClaimError(a, now) \in RunReplies
    BY ClaimErrorType
  <2>2. QED
    BY <1>1, <1>2, <2>1, DeclineOK
<1>3. CASE /\ ClaimError(a, now) = "none"
           /\ executions' = [executions EXCEPT ![a] = x]
           /\ AppendClaimEvents(a)
           /\ \/ runs' = [runs EXCEPT ![r].pc = "calling", ![r].now = NoTime]
              \/ ReadBackFails(r)
           /\ UNCHANGED <<assessments, requests>>
  <2>1. /\ approvals[a].status = "APPROVED"
        /\ approvals[a].action = "ADD_CONTACT_TAG"
        /\ ~Due(approvals[a], now)
        /\ executions[a].status = "ABSENT"
    BY <1>3, ClaimChecked DEF Executed
  <2>2. /\ assessments[a] = NoAssessment
        /\ requests[a] \in Seq(RequestStates) /\ Len(requests[a]) = 0
    BY <1>1, <2>1 DEF ExecutionInv, ExecutionsOK, ExecutionOK, Assessed
  <2>3. TableStep /\ ClaimLogged(audit'[a])
    BY <1>1, <1>3, <2>1, AppendClaimEventsOK DEF ExecutionInv, ApprovalInv
  <2>4. /\ x.status = "CLAIMED" /\ x.claimed_at = now
        /\ x \in Executions /\ HashMatches(x)
    BY <1>1 DEF ClaimedExecution, Executions, ExecutionStatuses, Times, FailureCategories,
                ExecutionHash, ExecutionHashes, HashMatches
  <2>5. ExecutionOK(x, assessments[a], requests[a])
    BY <2>2, <2>4, NoExecutionOK DEF ExecutionOK, Truthful
  <2>6. /\ approvals'[a].status = "APPROVED"
        /\ approvals'[a].action = "ADD_CONTACT_TAG"
        /\ approvals'[a].expires_at = approvals[a].expires_at
    BY <1>1, <2>1, <2>3 DEF TableStep, RowStep, Fixed, TerminalStatuses
  <2>7. now < approvals[a].expires_at
    <3>1. approvals[a].expires_at \in Nat
      BY <1>1, <2>1 DEF ExecutionInv, ApprovalInv, Tables, RowInv, OnTime
    <3>2. QED
      BY <1>1, <2>1, <3>1 DEF Due
  <2>8. Permitted(approvals'[a], audit'[a], x)
    BY <1>1, <2>3, <2>4, <2>6, <2>7 DEF Permitted
  <2>9. /\ assessments' = [assessments EXCEPT ![a] = assessments[a]]
        /\ requests' = [requests EXCEPT ![a] = requests[a]]
    BY <1>1, <1>3 DEF ExecutionInv, ExecutionsOK
  <2> HIDE DEF x
  <2>10. ExecutionsOK'
    BY <1>1, <1>3, <2>3, <2>5, <2>8, <2>9, StoreExecution
  <2>11. ApprovalInv'
    BY <1>1, <2>3 DEF ExecutionInv, ApprovalInv, TableStep, CallsOK
  <2>12. executions'[a] = x /\ \A b \in ApprovalIds : b # a => executions'[b] = executions[b]
    BY <1>1, <1>3 DEF ExecutionInv, ExecutionsOK
  <2>13. \A q \in Runners : ~(runs[q].pc \in Holding /\ runs[q].approval_id = a)
    BY <2>1 DEF ExecutionInv, RunsOK, RunTables, Holding
  <2>14. \A q \in Runners \ {r} :
           LET b == runs[q].approval_id IN
           runs[q].pc # "idle" =>
             RunTables(runs[q], executions'[b], assessments'[b], requests'[b])
    BY <1>1, <1>3, <2>12, <2>13, OthersUnmoved
  <2>15. \E run : /\ runs' = [runs EXCEPT ![r] = run]
                  /\ RunShape(run)
                  /\ run.pc \in {"calling", "done"}
                  /\ run.approval_id = a
    <3>1. CASE runs' = [runs EXCEPT ![r].pc = "calling", ![r].now = NoTime]
      <4> DEFINE run == [runs[r] EXCEPT !.pc = "calling", !.now = NoTime]
      <4>1. runs' = [runs EXCEPT ![r] = run]
        BY <3>1
      <4>2. run \in Runs /\ run.pc = "calling" /\ run.approval_id = a
        BY <1>1 DEF Runs, Times
      <4>3. RunShape(run)
        BY <1>1, <4>2 DEF RunShape
      <4> HIDE DEF run
      <4>4. QED
        BY <4>1, <4>2, <4>3
    <3>2. CASE ReadBackFails(r)
      <4>1. "EXECUTION_UNAVAILABLE" \in RunReplies
        BY DEF RunReplies
      <4>2. runs' = [runs EXCEPT ![r] = Finished(runs[r], "EXECUTION_UNAVAILABLE")]
        BY <3>2 DEF ReadBackFails, Answer
      <4>3. QED
        BY <1>1, <4>1, <4>2, FinishedOK DEF ExecutionInv
    <3>3. QED
      BY <1>3, <3>1, <3>2
  <2>16. PICK run : /\ runs' = [runs EXCEPT ![r] = run]
                    /\ RunShape(run)
                    /\ run.pc \in {"calling", "done"}
                    /\ run.approval_id = a
    BY <2>15
  <2>17. RunTables(run, executions'[a], assessments'[a], requests'[a])
    BY <1>3, <2>2, <2>4, <2>12, <2>16 DEF RunTables, Holding
  <2>18. RunsOK'
    BY <2>13, <2>14, <2>16, <2>17, StoreRunToo DEF ExecutionInv
  <2>19. QED
    BY <2>10, <2>11, <2>18 DEF ExecutionInv
<1>4. QED
  BY <1>2, <1>3 DEF ClaimTxn

\* The request leaves: the permit's one.
LEMMA SendRequestOK ==
  ASSUME ExecutionInv, NEW r \in Runners, SendRequest(r)
  PROVE  ExecutionInv'
<1> DEFINE a == runs[r].approval_id
           x == executions[a]
           sent == Append(requests[a], "sent")
           run == [runs[r] EXCEPT !.pc = "awaiting"]
<1>1. /\ runs[r].pc = "calling" /\ RunShape(runs[r]) /\ runs[r] \in Runs
      /\ a \in ApprovalIds
      /\ RunTables(runs[r], x, assessments[a], requests[a])
  BY DEF SendRequest, ExecutionInv, RunsOK, RunShape
<1>2. x.status = "CLAIMED" /\ requests[a] \in Seq(RequestStates) /\ Len(requests[a]) = 0
  BY <1>1 DEF RunTables, Holding, ExecutionInv, ExecutionsOK
<1>3. ExecutionOK(x, assessments[a], requests[a]) /\ Permitted(approvals[a], audit[a], x)
  BY <1>1, <1>2 DEF ExecutionInv, ExecutionsOK, Executed
<1>4. sent \in Seq(RequestStates) /\ Len(sent) = 1
  BY <1>2 DEF RequestStates
<1>5. /\ requests' = [requests EXCEPT ![a] = sent]
      /\ runs' = [runs EXCEPT ![r] = run]
      /\ UNCHANGED <<clock, approvals, audit, calls, executions, assessments>>
  BY DEF SendRequest
<1>6. run.pc = "awaiting" /\ run.approval_id = a /\ RunShape(run)
  BY <1>1 DEF RunShape, Runs
<1> HIDE DEF sent, run
<1>7. ApprovalInv' /\ TableStep
  BY <1>5, SameTables DEF ExecutionInv, ApprovalInv, CallsOK, TableStep
<1>8. ExecutionOK(x, assessments[a], sent)
  BY <1>2, <1>3, <1>4 DEF ExecutionOK, Truthful
<1>9. /\ executions' = [executions EXCEPT ![a] = x]
      /\ assessments' = [assessments EXCEPT ![a] = assessments[a]]
  BY <1>1, <1>5 DEF ExecutionInv, ExecutionsOK
<1>10. ExecutionsOK'
  BY <1>1, <1>3, <1>5, <1>7, <1>8, <1>9, StoreExecution
<1>11. /\ requests'[a] = sent
       /\ \A b \in ApprovalIds : b # a => requests'[b] = requests[b]
  BY <1>1, <1>5 DEF ExecutionInv, ExecutionsOK
<1>12. \A q \in Runners \ {r} : ~(runs[q].pc \in Holding /\ runs[q].approval_id = a)
  BY <1>1 DEF ExecutionInv, RunsOK, Holding
<1>13. \A q \in Runners \ {r} :
         LET b == runs[q].approval_id IN
         runs[q].pc # "idle" =>
           RunTables(runs[q], executions'[b], assessments'[b], requests'[b])
  BY <1>1, <1>5, <1>11, <1>12, OthersUnmoved
<1>14. RunTables(run, executions'[a], assessments'[a], requests'[a])
  BY <1>2, <1>4, <1>5, <1>6, <1>11 DEF RunTables, Holding
<1>15. RunsOK'
  BY <1>5, <1>6, <1>12, <1>13, <1>14, StoreRunToo DEF ExecutionInv
<1>16. QED
  BY <1>7, <1>10, <1>15 DEF ExecutionInv

\* The provider settles a request: a recorded or reported outcome that depends on it
\* was settled before.
LEMMA ProviderSettlesOK ==
  ASSUME ExecutionInv, NEW a \in ApprovalIds, NEW verdict \in {"applied", "refused"},
         ProviderSettles(a, verdict)
  PROVE  ExecutionInv'
<1>1. PICK n : /\ n \in 1..Len(requests[a])
               /\ requests[a][n] = "sent"
               /\ requests' = [requests EXCEPT ![a][n] = verdict]
  BY DEF ProviderSettles
<1> DEFINE x == executions[a]
           sent == [requests[a] EXCEPT ![n] = verdict]
<1>2. UNCHANGED <<clock, approvals, audit, calls, executions, assessments, runs>>
  BY DEF ProviderSettles
<1>3. requests' = [requests EXCEPT ![a] = sent]
  BY <1>1
<1>4. requests[a] \in Seq(RequestStates) /\ ExecutionOK(x, assessments[a], requests[a])
  BY DEF ExecutionInv, ExecutionsOK
<1>5. Len(requests[a]) = 1 /\ n = 1 /\ requests[a][1] = "sent"
  <2>1. Len(requests[a]) \in Nat /\ Len(requests[a]) <= 1
    BY <1>4 DEF ExecutionOK
  <2>2. n \in 1..Len(requests[a])
    BY <1>1
  <2>3. \A k \in Nat : k <= 1 /\ n \in 1..k => k = 1 /\ n = 1
    OBVIOUS
  <2>4. Len(requests[a]) = 1 /\ n = 1
    BY <2>1, <2>2, <2>3
  <2>5. QED
    BY <1>1, <2>4
<1>6. sent \in Seq(RequestStates) /\ Len(sent) = 1 /\ sent[1] = verdict
  BY <1>4, <1>5 DEF RequestStates
<1> HIDE DEF sent
<1>7. ApprovalInv' /\ TableStep
  BY <1>2, SameTables DEF ExecutionInv, ApprovalInv, CallsOK, TableStep
<1>8. ExecutionOK(x, assessments[a], sent)
  BY <1>4, <1>5, <1>6 DEF ExecutionOK, Truthful
<1>9. x.status # "ABSENT" => Permitted(approvals'[a], audit'[a], x)
  BY <1>2 DEF ExecutionInv, ExecutionsOK, Executed
<1>10. /\ executions' = [executions EXCEPT ![a] = x]
       /\ assessments' = [assessments EXCEPT ![a] = assessments[a]]
  BY <1>2 DEF ExecutionInv, ExecutionsOK
<1>11. ExecutionsOK'
  BY <1>3, <1>7, <1>8, <1>9, <1>10, StoreExecution
<1>12. /\ requests'[a] = sent
       /\ \A b \in ApprovalIds : b # a => requests'[b] = requests[b]
  BY <1>3 DEF ExecutionInv, ExecutionsOK
<1>13. ASSUME NEW q \in Runners, runs[q].pc # "idle"
       PROVE  LET b == runs[q].approval_id IN
              RunTables(runs[q], executions[b], assessments[b], requests'[b])
  <2>1. runs[q].approval_id \in ApprovalIds
    BY <1>13 DEF ExecutionInv, RunsOK, RunShape
  <2>2. RunTables(runs[q], executions[runs[q].approval_id],
                  assessments[runs[q].approval_id], requests[runs[q].approval_id])
    BY <1>13 DEF ExecutionInv, RunsOK
  <2>3. CASE runs[q].approval_id = a
    BY <1>5, <1>6, <1>12, <2>2, <2>3 DEF RunTables, FailureTrue
  <2>4. CASE runs[q].approval_id # a
    BY <1>12, <2>1, <2>2, <2>4
  <2>5. QED
    BY <2>3, <2>4
<1>14. RunsOK'
  BY <1>2, <1>13 DEF ExecutionInv, RunsOK
<1>15. QED
  BY <1>7, <1>11, <1>14 DEF ExecutionInv

\* The operations of the approval boundary.
LEMMA ApprovalStepOK ==
  ASSUME ExecutionInv, [ApprovalNext]_approvalVars, UNCHANGED executionVars
  PROVE  ExecutionInv'
<1>1. ApprovalInv' /\ TableStep
  BY ApprovalInvStep DEF ExecutionInv
<1>2. UNCHANGED <<executions, assessments, requests, runs>>
  BY DEF executionVars
<1>3. ASSUME NEW a \in ApprovalIds, executions[a].status # "ABSENT"
      PROVE  Permitted(approvals'[a], audit'[a], executions[a])
  <2>1. Permitted(approvals[a], audit[a], executions[a])
    BY <1>3 DEF ExecutionInv, ExecutionsOK, Executed
  <2>2. /\ RowStep(approvals[a], audit[a], approvals'[a], audit'[a])
        /\ audit[a] \in Seq(AuditRows) /\ audit'[a] \in Seq(AuditRows)
    BY <1>1 DEF TableStep, Tables, ExecutionInv, ApprovalInv
  <2>3. QED
    BY <2>1, <2>2, PermitStays
<1>4. ExecutionsOK'
  BY <1>2, <1>3 DEF ExecutionInv, ExecutionsOK, Executed
<1>5. RunsOK'
  BY <1>2 DEF ExecutionInv, RunsOK
<1>6. QED
  BY <1>1, <1>4, <1>5 DEF ExecutionInv

\* What execute derives from a provider error is a status, a category and an event.
LEMMA OutcomeType ==
  ASSUME NEW failure \in Failures
  PROVE  /\ StatusFor(failure) \in CompletedStatuses
         /\ FAILURE_MAP[failure.category] \in FailureCategories
         /\ StatusFor(failure) = "SUCCEEDED" => failure = NoFailure
         /\ StatusFor(failure) = "FAILED" => failure.certainty = "DEFINITIVE"
         /\ FAILURE_MAP[failure.category] # "PROVIDER_ERROR" =>
              failure.category # "PROVIDER_ERROR"
<1>1. failure.category \in {"AUTHENTICATION", "RATE_LIMIT", "BAD_REQUEST", "UNAVAILABLE",
                            "TIMEOUT", "PROVIDER_ERROR", "UNKNOWN", "NONE"}
  BY DEF Failures, UnsentFailures, TransportFailures, RefusalFailures, ServerFailure,
         NoFailure, Failure
<1>2. FAILURE_MAP[failure.category] \in FailureCategories
  BY <1>1 DEF FAILURE_MAP, FailureCategories
<1>3. FAILURE_MAP["PROVIDER_ERROR"] = "PROVIDER_ERROR"
  BY DEF FAILURE_MAP
<1>4. QED
  BY <1>2, <1>3 DEF StatusFor, CompletedStatuses

\* complete and reconcile refuse with one of their errors.
LEMMA OpenErrorType ==
  ASSUME NEW a
  PROVE  OpenError(a) # "none" => OpenError(a) \in RunReplies
BY DEF OpenError, RunReplies

\* complete: the outcome of the runner that holds the claim is recorded.
LEMMA CompleteTxnOK ==
  ASSUME ExecutionInv, NEW r \in Runners, CompleteTxn(r)
  PROVE  ExecutionInv'
<1> DEFINE a == runs[r].approval_id
           failure == runs[r].failure
           status == StatusFor(failure)
           category == FAILURE_MAP[failure.category]
           x == CompletedExecution(executions[a], status, category)
<1>1. /\ runs[r].pc = "complete" /\ RunShape(runs[r]) /\ runs[r] \in Runs
      /\ a \in ApprovalIds /\ failure \in Failures
      /\ executions[a].status = "CLAIMED" /\ FailureTrue(failure, requests[a])
      /\ UNCHANGED <<clock, calls>>
  BY DEF CompleteTxn, ExecutionInv, RunsOK, RunShape, RunTables, Holding, Runs
<1>2. CASE OpenError(a) # "none" /\ Decline(r, OpenError(a))
  BY <1>1, <1>2, OpenErrorType, DeclineOK
<1>3. CASE /\ executions' = [executions EXCEPT ![a] = x]
           /\ AppendAudit(a, approvals[a], CompletionEvent(status), status,
                          CategoryDetail(category))
           /\ Answer(r, status) \/ ReadBackFails(r)
           /\ UNCHANGED <<assessments, requests>>
  <2>1. /\ status \in CompletedStatuses /\ category \in FailureCategories
        /\ status = "SUCCEEDED" => failure = NoFailure
        /\ status = "FAILED" => failure.certainty = "DEFINITIVE"
        /\ category # "PROVIDER_ERROR" => failure.category # "PROVIDER_ERROR"
    BY <1>1, OutcomeType
  <2>2. /\ ExecutionOK(executions[a], assessments[a], requests[a])
        /\ Permitted(approvals[a], audit[a], executions[a])
        /\ assessments[a] = NoAssessment
    BY <1>1 DEF ExecutionInv, ExecutionsOK, ExecutionOK, Executed, Assessed
  <2> HIDE DEF status, category
  <2>3. TableStep
    <3>1. approvals[a].status \in TerminalStatuses
      BY <2>2 DEF Permitted, TerminalStatuses
    <3>2. CompletionEvent(status) \in NoteTypes
      BY <2>1 DEF CompletedStatuses, CompletionEvent, NoteTypes, AuditEventTypes, DecisionEvents
    <3>3. status \in AuditStatuses
      BY <2>1 DEF CompletedStatuses, AuditStatuses
    <3>4. CategoryDetail(category) \in Details
      BY <2>1 DEF Details
    <3>5. QED
      BY <1>1, <1>3, <3>1, <3>2, <3>3, <3>4, NoteOK DEF ExecutionInv, ApprovalInv
  <2>4. /\ x.status = status /\ x.failure_category = category
        /\ x.claimed_at = executions[a].claimed_at
        /\ x.integrity_hash = ExecutionHash(status, executions[a].claimed_at, category)
    BY <2>2 DEF CompletedExecution, ExecutionOK, Executions
  <2>5. x \in Executions
    <3>1. status \in ExecutionStatuses
      BY <2>1 DEF CompletedStatuses, ExecutionStatuses
    <3>2. ExecutionHash(status, executions[a].claimed_at, category) \in ExecutionHashes
      BY <2>1, <2>2, <3>1 DEF Permitted, ExecutionHash, ExecutionHashes
    <3>3. QED
      BY <2>1, <2>2, <3>1, <3>2 DEF CompletedExecution, ExecutionOK, Executions
  <2> HIDE DEF x
  <2>6. Truthful(x, requests[a])
    BY <1>1, <2>1, <2>4 DEF Truthful, FailureTrue
  <2>7. ExecutionOK(x, assessments[a], requests[a])
    BY <2>1, <2>2, <2>4, <2>5, <2>6 DEF ExecutionOK, HashMatches, CompletedStatuses
  <2>8. Permitted(approvals'[a], audit'[a], x)
    <3>1. /\ RowStep(approvals[a], audit[a], approvals'[a], audit'[a])
          /\ audit[a] \in Seq(AuditRows) /\ audit'[a] \in Seq(AuditRows)
      BY <1>1, <2>3 DEF TableStep, Tables, ExecutionInv, ApprovalInv
    <3>2. Permitted(approvals'[a], audit'[a], executions[a])
      BY <2>2, <3>1, PermitStays
    <3>3. QED
      BY <2>4, <3>2 DEF Permitted
  <2>9. /\ assessments' = [assessments EXCEPT ![a] = assessments[a]]
        /\ requests' = [requests EXCEPT ![a] = requests[a]]
    BY <1>1, <1>3 DEF ExecutionInv, ExecutionsOK
  <2>10. ExecutionsOK'
    BY <1>1, <1>3, <2>3, <2>7, <2>8, <2>9, StoreExecution
  <2>11. ApprovalInv'
    BY <1>1, <2>3 DEF ExecutionInv, ApprovalInv, TableStep, CallsOK
  <2>12. \A q \in Runners \ {r} : ~(runs[q].pc \in Holding /\ runs[q].approval_id = a)
    BY <1>1 DEF ExecutionInv, RunsOK, Holding
  <2>13. \A b \in ApprovalIds : b # a => /\ executions'[b] = executions[b]
                                        /\ assessments'[b] = assessments[b]
                                        /\ requests'[b] = requests[b]
    BY <1>1, <1>3 DEF ExecutionInv, ExecutionsOK
  <2>14. \A q \in Runners \ {r} :
           LET b == runs[q].approval_id IN
           runs[q].pc # "idle" =>
             RunTables(runs[q], executions'[b], assessments'[b], requests'[b])
    BY <1>1, <2>2, <2>12, <2>13, OthersUnmoved
  <2>15. PICK reply \in {status, "EXECUTION_UNAVAILABLE"} : Answer(r, reply)
    BY <1>3 DEF ReadBackFails
  <2>16. reply \in RunReplies
    BY <2>1 DEF RunReplies, CompletedStatuses, ExecutionStatuses
  <2> DEFINE run == Finished(runs[r], reply)
  <2>17. runs' = [runs EXCEPT ![r] = run]
    BY <2>15 DEF Answer
  <2>18. RunShape(run) /\ run.pc = "done"
    BY <1>1, <2>16, FinishedOK DEF ExecutionInv
  <2> HIDE DEF run
  <2>19. /\ run.pc \notin Holding
         /\ RunTables(run, executions'[run.approval_id], assessments'[run.approval_id],
                      requests'[run.approval_id])
    BY <2>18 DEF RunTables, Holding
  <2>20. RunsOK'
    BY <2>14, <2>17, <2>18, <2>19, StoreRunToo DEF ExecutionInv
  <2>21. QED
    BY <2>10, <2>11, <2>20 DEF ExecutionInv
<1>4. QED
  BY <1>1, <1>2, <1>3 DEF CompleteTxn

\* reconcile: an assessment is stored beside an UNKNOWN execution that has none.
LEMMA ReconcileTxnOK ==
  ASSUME ExecutionInv, NEW r \in Runners, ReconcileTxn(r)
  PROVE  ExecutionInv'
<1> DEFINE a == runs[r].approval_id
           outcome == runs[r].outcome
           x == executions[a]
           hash == x.integrity_hash
           t == [outcome |-> outcome, original_hash |-> hash]
           run == [runs[r] EXCEPT !.pc = "reconcile_read"]
<1>1. /\ runs[r].pc = "reconcile" /\ RunShape(runs[r]) /\ runs[r] \in Runs
      /\ a \in ApprovalIds /\ outcome \in ReconciliationOutcomes
      /\ UNCHANGED <<clock, calls>>
  BY DEF ReconcileTxn, ExecutionInv, RunsOK, RunShape
<1>2. CASE OpenError(a) # "none" /\ Decline(r, OpenError(a))
  BY <1>1, <1>2, OpenErrorType, DeclineOK
<1>3. CASE \/ Decline(r, "EXECUTION_NOT_RECONCILIABLE")
           \/ Decline(r, "EXECUTION_ALREADY_ASSESSED")
  <2>1. /\ "EXECUTION_NOT_RECONCILIABLE" \in RunReplies
        /\ "EXECUTION_ALREADY_ASSESSED" \in RunReplies
    BY DEF RunReplies
  <2>2. QED
    BY <1>1, <1>3, <2>1, DeclineOK
<1>4. CASE /\ x.status = "UNKNOWN"
           /\ assessments[a] = NoAssessment
           /\ assessments' = [assessments EXCEPT ![a] = t]
           /\ AppendAudit(a, approvals[a], "RECONCILIATION_RECORDED", "UNKNOWN",
                          AssessmentHash(outcome, hash))
           /\ runs' = [runs EXCEPT ![r].pc = "reconcile_read"]
           /\ UNCHANGED <<executions, requests>>
  <2>1. /\ ExecutionOK(x, assessments[a], requests[a])
        /\ Permitted(approvals[a], audit[a], x)
    BY <1>1, <1>4 DEF ExecutionInv, ExecutionsOK, Executed
  <2>2. hash \in ExecutionHashes
    BY <1>4, <2>1 DEF ExecutionOK, Permitted, Executions, HashMatches, ExecutionHash,
                      ExecutionHashes, ExecutionStatuses
  <2>3. TableStep
    <3>1. approvals[a].status \in TerminalStatuses
      BY <2>1 DEF Permitted, TerminalStatuses
    <3>2. "RECONCILIATION_RECORDED" \in NoteTypes /\ "UNKNOWN" \in AuditStatuses
      BY DEF NoteTypes, AuditEventTypes, DecisionEvents, AuditStatuses
    <3>3. AssessmentHash(outcome, hash) \in Details
      BY <1>1, <2>2 DEF AssessmentHash, Details
    <3>4. QED
      BY <1>1, <1>4, <3>1, <3>2, <3>3, NoteOK DEF ExecutionInv, ApprovalInv
  <2>4. t \in Assessments /\ t.outcome = outcome /\ t.original_hash = hash
    BY <1>1, <2>2 DEF Assessments
  <2>5. t # NoAssessment
    BY <1>1, <2>4 DEF NoAssessment, ReconciliationOutcomes
  <2> HIDE DEF t
  <2>6. ExecutionOK(x, t, requests[a])
    BY <1>1, <1>4, <2>1, <2>4 DEF ExecutionOK, Assessed
  <2>7. Permitted(approvals'[a], audit'[a], x)
    <3>1. /\ RowStep(approvals[a], audit[a], approvals'[a], audit'[a])
          /\ audit[a] \in Seq(AuditRows) /\ audit'[a] \in Seq(AuditRows)
      BY <1>1, <2>3 DEF TableStep, Tables, ExecutionInv, ApprovalInv
    <3>2. QED
      BY <2>1, <3>1, PermitStays
  <2>8. /\ executions' = [executions EXCEPT ![a] = x]
        /\ requests' = [requests EXCEPT ![a] = requests[a]]
    BY <1>1, <1>4 DEF ExecutionInv, ExecutionsOK
  <2>9. ExecutionsOK'
    BY <1>1, <1>4, <2>3, <2>6, <2>7, <2>8, StoreExecution
  <2>10. ApprovalInv'
    BY <1>1, <2>3 DEF ExecutionInv, ApprovalInv, TableStep, CallsOK
  <2>11. \A q \in Runners \ {r} : ~(runs[q].pc \in Holding /\ runs[q].approval_id = a)
    BY <1>4 DEF ExecutionInv, RunsOK, RunTables, Holding
  <2>12. /\ assessments'[a] = t
         /\ \A b \in ApprovalIds : b # a => /\ executions'[b] = executions[b]
                                           /\ assessments'[b] = assessments[b]
                                           /\ requests'[b] = requests[b]
    BY <1>1, <1>4 DEF ExecutionInv, ExecutionsOK
  <2>13. \A q \in Runners \ {r} :
           LET b == runs[q].approval_id IN
           runs[q].pc # "idle" =>
             RunTables(runs[q], executions'[b], assessments'[b], requests'[b])
    BY <1>1, <2>5, <2>11, <2>12, OthersUnmoved
  <2>14. runs' = [runs EXCEPT ![r] = run]
    BY <1>4
  <2>15. run.pc = "reconcile_read" /\ run.approval_id = a /\ RunShape(run)
    BY <1>1 DEF RunShape, Runs
  <2> HIDE DEF run
  <2>16. /\ run.pc \notin Holding
         /\ RunTables(run, executions'[a], assessments'[a], requests'[a])
    BY <2>5, <2>12, <2>15 DEF RunTables, Holding
  <2>17. RunsOK'
    BY <2>13, <2>14, <2>15, <2>16, StoreRunToo DEF ExecutionInv
  <2>18. QED
    BY <2>9, <2>10, <2>17 DEF ExecutionInv
<1>5. QED
  BY <1>1, <1>2, <1>3, <1>4 DEF ReconcileTxn

-----------------------------------------------------------------------------
(* The inductive invariant and the theorems.                               *)

\* Empty tables, idle runners, no requests.
LEMMA ExecutionInvInit == Init => ExecutionInv
<1> SUFFICES ASSUME Init PROVE ExecutionInv
  OBVIOUS
<1>1. ApprovalInv
  BY ApprovalInvInit DEF Init
<1>2. ExecutionsOK
  <2>1. /\ NoExecution \in Executions /\ NoAssessment \in Assessments
        /\ <<>> \in Seq(RequestStates) /\ NoExecution.status = "ABSENT"
    BY NoExecutionOK DEF ExecutionOK, NoExecution
  <2>2. QED
    BY <2>1, NoExecutionOK DEF Init, ExecutionsOK, Executed
<1>3. RunsOK
  BY IdleRunOK DEF Init, RunsOK, RunShape, IdleRun, Holding
<1>4. QED
  BY <1>1, <1>2, <1>3 DEF ExecutionInv

\* Every step of every client, runner and of the provider keeps the invariant.
LEMMA ExecutionInvStep ==
  ASSUME ExecutionInv, [Next]_vars
  PROVE  ExecutionInv'
<1>1. CASE ApprovalNext /\ UNCHANGED executionVars
  BY <1>1, ApprovalStepOK
<1>2. CASE UNCHANGED vars
  BY <1>2, ApprovalStepOK DEF vars, approvalVars, executionVars
<1>3. CASE ProviderNext
  BY <1>3, ProviderSettlesOK DEF ProviderNext
<1>4. ASSUME NEW r \in Runners, RunnerNext(r)
      PROVE  ExecutionInv'
  <2>1. ASSUME NEW a \in ApprovalIds, NEW op \in RunnerOps \ {"reconcile"},
               BeginRun(r, op, a, "NONE")
        PROVE  ExecutionInv'
    BY <2>1, BeginRunOK, RunnerOpsAssumption
  <2>2. ASSUME NEW a \in ApprovalIds, NEW outcome \in ReconciliationOutcomes,
               BeginRun(r, "reconcile", a, outcome)
        PROVE  ExecutionInv'
    BY <2>2, BeginRunOK
  <2>3. CASE ExecuteStep(r)
    BY <2>3, ClaimTxnOK, CallNotSentOK, SendRequestOK, CallReturnsOK, CompleteTxnOK
       DEF ExecuteStep
  <2>4. CASE ReconcileStep(r)
    BY <2>4, ReconcileTxnOK, ReconcileReadOK DEF ReconcileStep
  <2>5. CASE GetStep(r)
    BY <2>5, GetStepOK
  <2>6. CASE RunReturns(r) \/ RunStorageFails(r) \/ RunCrashes(r)
    BY <2>6, RunEndsOK
  <2>7. QED
    BY <1>4, <2>1, <2>2, <2>3, <2>4, <2>5, <2>6 DEF RunnerNext
<1>5. QED
  BY <1>1, <1>2, <1>3, <1>4 DEF Next

\* The invariant holds of every behaviour.
THEOREM ExecutionInvariant == Spec => []ExecutionInv
<1>1. ExecutionInv /\ [Next]_vars => ExecutionInv'
  BY ExecutionInvStep
<1>2. QED
  BY <1>1, ExecutionInvInit, PTL DEF Spec

\* The shape of the tables, the requests and the runs.
LEMMA InvTypeOK == ExecutionInv => TypeOK
<1> SUFFICES ASSUME ExecutionInv PROVE TypeOK
  OBVIOUS
<1>1. ApprovalTypeOK
  BY ApprovalInvImplies DEF ExecutionInv
<1>2. ASSUME NEW a \in ApprovalIds, Executed(a)
      PROVE  executions[a].claimed_at \in Nat /\ executions[a].integrity_hash \in ExecutionHashes
  <2>1. /\ executions[a] \in Executions /\ executions[a].status # "ABSENT"
        /\ HashMatches(executions[a]) /\ executions[a].claimed_at \in Nat
    BY <1>2 DEF ExecutionInv, ExecutionsOK, ExecutionOK, Permitted, Executed
  <2>2. QED
    BY <2>1 DEF HashMatches, ExecutionHash, ExecutionHashes, Executions
<1>3. QED
  BY <1>1, <1>2 DEF ExecutionInv, ExecutionsOK, RunsOK, RunShape, TypeOK

\* One request at most, and only with a permit.
LEMMA InvRequests == ExecutionInv => AtMostOneRequest /\ RequestOnlyIfApproved
<1> SUFFICES ASSUME ExecutionInv, NEW a \in ApprovalIds
             PROVE  /\ Len(requests[a]) <= 1
                    /\ requests[a] # <<>> =>
                         LET row == approvals[a]
                             log == audit[a] IN
                         /\ row.status = "APPROVED"
                         /\ row.decided_at < row.expires_at
                         /\ executions[a].claimed_at < row.expires_at
                         /\ row.action = "ADD_CONTACT_TAG"
                         /\ row.provenance.event_type = "GHL_CONTACT_TAG_REQUEST"
                         /\ \E n \in 3..(Len(log) - 1) :
                              /\ log[n].payload.event_type = "EXECUTION_AUTHORIZED"
                              /\ log[n + 1].payload.event_type = "EXECUTION_CLAIMED"
  BY DEF AtMostOneRequest, RequestOnlyIfApproved
<1>1. /\ requests[a] \in Seq(RequestStates)
      /\ ExecutionOK(executions[a], assessments[a], requests[a])
  BY DEF ExecutionInv, ExecutionsOK
<1>2. Len(requests[a]) <= 1
  BY <1>1 DEF ExecutionOK
<1>3. ASSUME requests[a] # <<>>
      PROVE  /\ Permitted(approvals[a], audit[a], executions[a])
             /\ OnTime(approvals[a]) /\ RowBound(approvals[a])
  <2>1. Len(requests[a]) # 0
    BY <1>1, <1>3
  <2>2. Executed(a)
    BY <1>1, <2>1 DEF ExecutionOK, Executed
  <2>3. QED
    BY <2>2 DEF ExecutionInv, ExecutionsOK, ApprovalInv, Tables, RowInv
<1>4. QED
  BY <1>2, <1>3 DEF Permitted, OnTime, RowBound, Bound, ClaimLogged

\* A claim has one holder and stays CLAIMED while it is held.
LEMMA InvExclusive == ExecutionInv => ClaimIsExclusive
BY DEF ExecutionInv, RunsOK, RunTables, Holding, ClaimIsExclusive, Holds

\* What is recorded is what happened.
LEMMA InvTruthful == ExecutionInv => RecordedOutcomeIsTrue
<1> SUFFICES ASSUME ExecutionInv, NEW a \in ApprovalIds
             PROVE  /\ executions[a].status = "SUCCEEDED" => requests[a] = <<"applied">>
                    /\ /\ executions[a].status = "FAILED"
                       /\ executions[a].failure_category # "PROVIDER_ERROR"
                       => requests[a] \in {<<>>, <<"refused">>}
  BY DEF RecordedOutcomeIsTrue
<1>1. /\ requests[a] \in Seq(RequestStates) /\ Len(requests[a]) \in Nat
      /\ Len(requests[a]) <= 1 /\ Truthful(executions[a], requests[a])
  BY DEF ExecutionInv, ExecutionsOK, ExecutionOK
<1>2. Len(requests[a]) = 0 => requests[a] = <<>>
  BY <1>1
<1>3. /\ Len(requests[a]) = 1 /\ requests[a][1] = "applied" => requests[a] = <<"applied">>
      /\ Len(requests[a]) = 1 /\ requests[a][1] = "refused" => requests[a] = <<"refused">>
  BY <1>1
<1>4. \A n \in Nat : n <= 1 => n = 0 \/ n = 1
  OBVIOUS
<1>5. QED
  BY <1>1, <1>2, <1>3, <1>4 DEF Truthful

\* The tables of both boundaries and the runs always have their shape.
THEOREM TypeCorrect == Spec => []TypeOK
BY ExecutionInvariant, InvTypeOK, PTL

\* However many runners execute one approval, crash, time out or try again, the
\* provider is asked at most once.
THEOREM AskedAtMostOnce == Spec => []AtMostOneRequest
BY ExecutionInvariant, InvRequests, PTL

\* The provider is asked only for an approval whose recorded times of decision and claim
\* are before its deadline, that stems from a contact-tag event and whose log says so.
THEOREM AskedOnlyIfApproved == Spec => []RequestOnlyIfApproved
BY ExecutionInvariant, InvRequests, PTL

\* Between claim and complete, with no lock held, a runner is alone with its claim.
THEOREM ClaimsAreExclusive == Spec => []ClaimIsExclusive
BY ExecutionInvariant, InvExclusive, PTL

\* complete records SUCCEEDED only if the provider applied the tag, and FAILED, but
\* for an unexplained provider error, only if it never will.
THEOREM OutcomesAreTrue == Spec => []RecordedOutcomeIsTrue
BY ExecutionInvariant, InvTruthful, PTL

\* What one step may do to an execution (x becomes y), its assessment (t becomes u)
\* and its requests (m becomes n in number).
Kept(x, y, t, u, m, n) ==
  /\ x.status \in CompletedStatuses => y = x
  /\ x.status # "ABSENT" => y.status # "ABSENT" /\ y.claimed_at = x.claimed_at
  /\ t # NoAssessment => u = t
  /\ n >= m

AllKept ==
  \A b \in ApprovalIds :
    Kept(executions[b], executions'[b], assessments[b], assessments'[b],
         Len(requests[b]), Len(requests'[b]))

\* A step that leaves the tables alone.
LEMMA KeptUnchanged ==
  ASSUME ExecutionInv, UNCHANGED <<executions, assessments, requests>>
  PROVE  AllKept
<1>1. \A b \in ApprovalIds : Len(requests[b]) \in Nat
  BY DEF ExecutionInv, ExecutionsOK
<1>2. \A n \in Nat : n >= n
  OBVIOUS
<1>3. QED
  BY <1>1, <1>2 DEF AllKept, Kept

\* claim inserts an execution where there is none.
LEMMA ClaimKeeps ==
  ASSUME ExecutionInv, NEW r \in Runners, ClaimTxn(r)
  PROVE  AllKept
<1> DEFINE a == runs[r].approval_id
<1>1. CASE UNCHANGED <<executions, assessments, requests>>
  BY <1>1, KeptUnchanged
<1>2. CASE /\ executions[a].status = "ABSENT"
           /\ executions' = [executions EXCEPT ![a] = ClaimedExecution(runs[r].now)]
           /\ UNCHANGED <<assessments, requests>>
  <2>1. \A b \in ApprovalIds : b # a => executions'[b] = executions[b]
    BY <1>2 DEF ExecutionInv, ExecutionsOK
  <2>2. \A b \in ApprovalIds : Len(requests[b]) \in Nat /\ requests'[b] = requests[b]
                              /\ assessments'[b] = assessments[b]
    BY <1>2 DEF ExecutionInv, ExecutionsOK
  <2>3. \A n \in Nat : n >= n
    OBVIOUS
  <2>4. QED
    BY <1>2, <2>1, <2>2, <2>3 DEF AllKept, Kept, CompletedStatuses
<1>3. QED
  BY <1>1, <1>2 DEF ClaimTxn, Decline, ClaimError, Executed

\* complete records an outcome on a CLAIMED execution only and keeps its claim.
LEMMA CompleteKeeps ==
  ASSUME ExecutionInv, NEW r \in Runners, CompleteTxn(r)
  PROVE  AllKept
<1> DEFINE a == runs[r].approval_id
           status == StatusFor(runs[r].failure)
           y == CompletedExecution(executions[a], status,
                                   FAILURE_MAP[runs[r].failure.category])
<1>1. CASE UNCHANGED <<executions, assessments, requests>>
  BY <1>1, KeptUnchanged
<1>2. CASE /\ executions[a].status = "CLAIMED"
           /\ executions' = [executions EXCEPT ![a] = y]
           /\ UNCHANGED <<assessments, requests>>
  <2>1. a \in ApprovalIds /\ runs[r].failure \in Failures
    BY DEF CompleteTxn, ExecutionInv, RunsOK, RunShape, Runs
  <2>2. executions[a] \in Executions
    BY <2>1 DEF ExecutionInv, ExecutionsOK
  <2>3. status \in CompletedStatuses
    BY <2>1, OutcomeType
  <2>4. y.status = status /\ y.claimed_at = executions[a].claimed_at
    BY <2>2 DEF CompletedExecution, Executions
  <2> HIDE DEF y, status
  <2>5. /\ executions'[a] = y
        /\ \A b \in ApprovalIds : b # a => executions'[b] = executions[b]
    BY <1>2, <2>1 DEF ExecutionInv, ExecutionsOK
  <2>6. \A b \in ApprovalIds : Len(requests[b]) \in Nat /\ requests'[b] = requests[b]
                              /\ assessments'[b] = assessments[b]
    BY <1>2 DEF ExecutionInv, ExecutionsOK
  <2>7. \A n \in Nat : n >= n
    OBVIOUS
  <2>8. QED
    BY <1>2, <2>3, <2>4, <2>5, <2>6, <2>7 DEF AllKept, Kept, CompletedStatuses
<1>3. QED
  BY <1>1, <1>2 DEF CompleteTxn, Decline

\* reconcile stores an assessment where there is none.
LEMMA ReconcileKeeps ==
  ASSUME ExecutionInv, NEW r \in Runners, ReconcileTxn(r)
  PROVE  AllKept
<1> DEFINE a == runs[r].approval_id
           t == [outcome |-> runs[r].outcome, original_hash |-> executions[a].integrity_hash]
<1>1. CASE UNCHANGED <<executions, assessments, requests>>
  BY <1>1, KeptUnchanged
<1>2. CASE /\ assessments[a] = NoAssessment
           /\ assessments' = [assessments EXCEPT ![a] = t]
           /\ UNCHANGED <<executions, requests>>
  <2>1. \A b \in ApprovalIds : b # a => assessments'[b] = assessments[b]
    BY <1>2 DEF ExecutionInv, ExecutionsOK
  <2>2. \A b \in ApprovalIds : Len(requests[b]) \in Nat /\ requests'[b] = requests[b]
                              /\ executions'[b] = executions[b]
    BY <1>2 DEF ExecutionInv, ExecutionsOK
  <2>3. \A n \in Nat : n >= n
    OBVIOUS
  <2>4. QED
    BY <1>2, <2>1, <2>2, <2>3 DEF AllKept, Kept
<1>3. QED
  BY <1>1, <1>2 DEF ReconcileTxn, Decline

\* The client adds a request and the provider replaces one by its verdict.
LEMMA RequestsKept ==
  ASSUME ExecutionInv, NEW a \in ApprovalIds, NEW sent \in Seq(RequestStates),
         Len(sent) >= Len(requests[a]), requests' = [requests EXCEPT ![a] = sent],
         UNCHANGED <<executions, assessments>>
  PROVE  AllKept
<1>1. /\ requests'[a] = sent
      /\ \A b \in ApprovalIds : b # a => requests'[b] = requests[b]
      /\ \A b \in ApprovalIds : Len(requests[b]) \in Nat
  BY DEF ExecutionInv, ExecutionsOK
<1>2. \A n \in Nat : n >= n
  OBVIOUS
<1>3. QED
  BY <1>1, <1>2 DEF AllKept, Kept

\* The POST to the provider keeps the invariant.
LEMMA SendKeeps ==
  ASSUME ExecutionInv, NEW r \in Runners, SendRequest(r)
  PROVE  AllKept
<1> DEFINE a == runs[r].approval_id
           sent == Append(requests[a], "sent")
<1>1. a \in ApprovalIds
  BY DEF SendRequest, ExecutionInv, RunsOK, RunShape
<1>2. requests[a] \in Seq(RequestStates)
  BY <1>1 DEF ExecutionInv, ExecutionsOK
<1>3. sent \in Seq(RequestStates) /\ Len(sent) >= Len(requests[a])
  BY <1>2 DEF RequestStates
<1>4. requests' = [requests EXCEPT ![a] = sent] /\ UNCHANGED <<executions, assessments>>
  BY DEF SendRequest
<1> HIDE DEF sent
<1>5. QED
  BY <1>1, <1>3, <1>4, RequestsKept

\* So does the provider's verdict on a request.
LEMMA SettleKeeps ==
  ASSUME ExecutionInv, NEW a \in ApprovalIds, NEW verdict \in {"applied", "refused"},
         ProviderSettles(a, verdict)
  PROVE  AllKept
<1>1. PICK n : /\ n \in 1..Len(requests[a])
               /\ requests' = [requests EXCEPT ![a][n] = verdict]
  BY DEF ProviderSettles
<1> DEFINE sent == [requests[a] EXCEPT ![n] = verdict]
<1>2. requests[a] \in Seq(RequestStates)
  BY DEF ExecutionInv, ExecutionsOK
<1>3. sent \in Seq(RequestStates) /\ Len(sent) = Len(requests[a])
  BY <1>1, <1>2 DEF RequestStates
<1>4. requests' = [requests EXCEPT ![a] = sent] /\ UNCHANGED <<executions, assessments>>
  BY <1>1 DEF ProviderSettles
<1> HIDE DEF sent
<1>5. Len(sent) >= Len(requests[a])
  BY <1>2, <1>3
<1>6. QED
  BY <1>3, <1>4, <1>5, RequestsKept

\* Every step keeps what is recorded.
LEMMA StepKeeps ==
  ASSUME ExecutionInv, [Next]_vars
  PROVE  AllKept
<1>1. CASE UNCHANGED executionVars \/ UNCHANGED vars
  BY <1>1, KeptUnchanged DEF executionVars, vars
<1>2. CASE ProviderNext
  BY <1>2, SettleKeeps DEF ProviderNext
<1>3. ASSUME NEW r \in Runners, RunnerNext(r)
      PROVE  AllKept
  <2>1. CASE UNCHANGED <<executions, assessments, requests>>
    BY <2>1, KeptUnchanged
  <2>2. ASSUME NEW a, NEW op, NEW outcome, BeginRun(r, op, a, outcome)
        PROVE  AllKept
    BY <2>1, <2>2 DEF BeginRun
  <2>3. CASE CallNotSent(r) \/ CallReturns(r) \/ ReconcileRead(r) \/ GetStep(r)
    BY <2>1, <2>3 DEF CallNotSent, CallReturns, ReconcileRead, GetStep, GetReadExecution,
                      GetReadRow, GetReadLog, GetReadLogAgain
  <2>4. CASE RunReturns(r) \/ RunStorageFails(r) \/ RunCrashes(r)
    BY <2>1, <2>4 DEF RunReturns, RunStorageFails, RunCrashes
  <2>5. CASE ClaimTxn(r) \/ SendRequest(r) \/ CompleteTxn(r) \/ ReconcileTxn(r)
    BY <2>5, ClaimKeeps, SendKeeps, CompleteKeeps, ReconcileKeeps
  <2>6. QED
    BY <1>3, <2>2, <2>3, <2>4, <2>5 DEF RunnerNext, ExecuteStep, ReconcileStep
<1>4. QED
  BY <1>1, <1>2, <1>3 DEF Next

\* No interleaving rewrites a completed execution, moves the time of a claim,
\* replaces an assessment or takes back a request.
THEOREM OutcomesAreFinal == Spec => OutcomeIsFinal
<1> DEFINE Final == \A a \in ApprovalIds :
       /\ executions[a].status \in CompletedStatuses => executions'[a] = executions[a]
       /\ Executed(a) => /\ executions'[a].status # "ABSENT"
                         /\ executions'[a].claimed_at = executions[a].claimed_at
       /\ assessments[a] # NoAssessment => assessments'[a] = assessments[a]
       /\ Len(requests'[a]) >= Len(requests[a])
<1>1. ExecutionInv /\ [Next]_vars => Final
  BY StepKeeps DEF AllKept, Kept, Executed
<1>2. QED
  BY <1>1, ExecutionInvariant, PTL DEF Spec, OutcomeIsFinal

\* With executions and reconciliations writing to the same log, the chain still
\* verifies exactly up to the limit on sequence numbers.
THEOREM ChainStaysIntactWithExecutions == Spec => []ChainIntact
<1>1. ExecutionInv => ChainIntact
  BY ApprovalInvImplies DEF ExecutionInv
<1>2. QED
  BY <1>1, ExecutionInvariant, PTL
=============================================================================
