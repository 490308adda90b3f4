----------------------- MODULE ExecutionAudit_proofs -----------------------
(***************************************************************************)
(* Theorems about what is told of an execution: by the audit log, which    *)
(* the approval and the execution boundary write to in turn, and by the    *)
(* answers of execute and get, which are read without a lock.              *)
(***************************************************************************)
EXTENDS ControlledExecution_proofs

-----------------------------------------------------------------------------
(* A log with one more event.                                              *)

\* log2 is log and one event of the given type and detail.
OneMore(log, log2, type, detail) ==
  /\ Len(log2) = Len(log) + 1
  /\ \A n \in 1..Len(log) : log2[n] = log[n]
  /\ log2[Len(log) + 1].payload.event_type = type
  /\ log2[Len(log) + 1].payload.detail = detail

\* What _append_audit does to a log.
LEMMA AppendIsOneMore ==
  ASSUME NEW log \in Seq(AuditRows), NEW row, NEW type, NEW status, NEW detail
  PROVE  OneMore(log, Append(log, NextAuditRow(row, type, status, detail)), type, detail)
<1> DEFINE event == NextAuditRow(row, type, status, detail)
<1>1. event.payload.event_type = type /\ event.payload.detail = detail
  BY DEF NextAuditRow, AuditRow, Payload
<1> HIDE DEF event
<1>2. log \in Seq(AuditRows \cup {event})
  OBVIOUS
<1>3. /\ Len(Append(log, event)) = Len(log) + 1
      /\ \A n \in 1..Len(log) : Append(log, event)[n] = log[n]
      /\ Append(log, event)[Len(log) + 1] = event
  BY <1>2
<1>4. OneMore(log, Append(log, event), type, detail)
  BY <1>1, <1>3 DEF OneMore
<1>5. QED
  BY <1>4 DEF event

\* The new event is the last position of its type and of every set with its type;
\* the positions of the other types are what they were.
LEMMA OneMorePositions ==
  ASSUME NEW log \in Seq(AuditRows), NEW log2, NEW type, NEW detail,
         OneMore(log, log2, type, detail)
  PROVE  /\ \A other : other # type => Positions(log2, other) = Positions(log, other)
         /\ Positions(log2, type) = Positions(log, type) \cup {Len(log) + 1}
         /\ \A types : type \notin types => PositionsIn(log2, types) = PositionsIn(log, types)
         /\ \A types : type \in types =>
              PositionsIn(log2, types) = PositionsIn(log, types) \cup {Len(log) + 1}
<1>1. Len(log) \in Nat
  OBVIOUS
<1>2. 1..Len(log2) = 1..Len(log) \cup {Len(log) + 1}
  BY <1>1 DEF OneMore
<1>3. /\ \A n \in 1..Len(log) : log2[n] = log[n]
      /\ log2[Len(log) + 1].payload.event_type = type
  BY DEF OneMore
<1>4. Len(log) + 1 \notin 1..Len(log)
  BY <1>1
<1> DEFINE k == Len(log) + 1
           D == 1..Len(log)
           E == 1..Len(log2)
<1>5. E = D \cup {k} /\ k \notin D /\ (\A n \in D : log2[n] = log[n])
      /\ log2[k].payload.event_type = type
  BY <1>2, <1>3, <1>4
<1> HIDE DEF k, D, E
<1>6. /\ \A other : other # type =>
           {n \in E : log2[n].payload.event_type = other} =
           {n \in D : log[n].payload.event_type = other}
      /\ {n \in E : log2[n].payload.event_type = type} =
           {n \in D : log[n].payload.event_type = type} \cup {k}
      /\ \A types : type \notin types =>
           {n \in E : log2[n].payload.event_type \in types} =
           {n \in D : log[n].payload.event_type \in types}
      /\ \A types : type \in types =>
           {n \in E : log2[n].payload.event_type \in types} =
           {n \in D : log[n].payload.event_type \in types} \cup {k}
  BY <1>5
<1>7. QED
  BY <1>6 DEF k, D, E, Positions, PositionsIn

-----------------------------------------------------------------------------
(* What the log of one approval tells of its execution and assessment.     *)

ClaimTold(log, x) ==
  LET claim == Positions(log, "EXECUTION_CLAIMED") IN
  /\ Positions(log, "EXECUTION_AUTHORIZED") = {n - 1 : n \in claim}
  /\ x.status = "ABSENT" => claim = {}
  /\ x.status # "ABSENT" => \E n \in 3..Len(log) : claim = {n}

CompletionTold(log, x) ==
  LET completion == PositionsIn(log, CompletionEvents) IN
  /\ x.status \notin CompletedStatuses => completion = {}
  /\ x.status \in CompletedStatuses =>
       \E n \in 1..Len(log) :
         /\ completion = {n}
         /\ \A m \in Positions(log, "EXECUTION_CLAIMED") : m < n
         /\ \A m \in Positions(log, "RECONCILIATION_RECORDED") : n < m
         /\ log[n].payload.event_type = CompletionEvent(x.status)
         /\ log[n].payload.detail = CategoryDetail(x.failure_category)

AssessmentTold(log, t) ==
  LET assessment == Positions(log, "RECONCILIATION_RECORDED") IN
  /\ t = NoAssessment => assessment = {}
  /\ t # NoAssessment =>
       \E n \in 1..Len(log) :
         /\ assessment = {n}
         /\ log[n].payload.detail = AssessmentHash(t.outcome, t.original_hash)

Story(log, x, t) == ClaimTold(log, x) /\ CompletionTold(log, x) /\ AssessmentTold(log, t)

\* The events of an execution; those of the approval boundary are the others.
ExecutionEvents == {"EXECUTION_AUTHORIZED", "EXECUTION_CLAIMED", "RECONCILIATION_RECORDED"}
                     \cup CompletionEvents

\* An event of the approval boundary tells nothing of the execution.
LEMMA StoryQuiet ==
  ASSUME NEW log \in Seq(AuditRows), NEW log2, NEW type, NEW detail,
         OneMore(log, log2, type, detail), type \notin ExecutionEvents,
         NEW x, NEW t, Story(log, x, t)
  PROVE  Story(log2, x, t)
<1>1. /\ Positions(log2, "EXECUTION_CLAIMED") = Positions(log, "EXECUTION_CLAIMED")
      /\ Positions(log2, "EXECUTION_AUTHORIZED") = Positions(log, "EXECUTION_AUTHORIZED")
      /\ Positions(log2, "RECONCILIATION_RECORDED") = Positions(log, "RECONCILIATION_RECORDED")
      /\ PositionsIn(log2, CompletionEvents) = PositionsIn(log, CompletionEvents)
  BY OneMorePositions DEF ExecutionEvents
<1>2. /\ Len(log) \in Nat /\ Len(log2) = Len(log) + 1
      /\ \A n \in 1..Len(log) : log2[n] = log[n]
  BY DEF OneMore
<1>3. /\ \A n \in 3..Len(log) : n \in 3..Len(log2)
      /\ \A n \in 1..Len(log) : n \in 1..Len(log2)
  BY <1>2
<1>4. ClaimTold(log2, x)
  BY <1>1, <1>3 DEF Story, ClaimTold
<1>5. CompletionTold(log2, x)
  BY <1>1, <1>2, <1>3 DEF Story, CompletionTold
<1>6. AssessmentTold(log2, t)
  BY <1>1, <1>2, <1>3 DEF Story, AssessmentTold
<1>7. QED
  BY <1>4, <1>5, <1>6 DEF Story

\* claim, on an approval that was never executed: authorization, then the claim.
LEMMA StoryClaim ==
  ASSUME NEW log \in Seq(AuditRows), Len(log) >= 2, NEW log2 \in Seq(AuditRows), NEW log3,
         OneMore(log, log2, "EXECUTION_AUTHORIZED", NoDetail),
         OneMore(log2, log3, "EXECUTION_CLAIMED", NoDetail),
         NEW x, x.status = "ABSENT", NEW t, t = NoAssessment, Story(log, x, t),
         NEW y, y.status = "CLAIMED"
  PROVE  Story(log3, y, t)
<1> DEFINE k == Len(log)
<1>1. k \in Nat /\ k >= 2 /\ Len(log2) = k + 1 /\ Len(log3) = k + 2
  BY DEF OneMore
<1>2. /\ Positions(log, "EXECUTION_CLAIMED") = {}
      /\ Positions(log, "EXECUTION_AUTHORIZED") = {}
      /\ Positions(log, "RECONCILIATION_RECORDED") = {}
      /\ PositionsIn(log, CompletionEvents) = {}
  BY DEF Story, ClaimTold, CompletionTold, AssessmentTold, CompletedStatuses
<1>3. /\ Positions(log2, "EXECUTION_CLAIMED") = {}
      /\ Positions(log2, "EXECUTION_AUTHORIZED") = {k + 1}
      /\ Positions(log2, "RECONCILIATION_RECORDED") = {}
      /\ PositionsIn(log2, CompletionEvents) = {}
  BY <1>2, OneMorePositions DEF CompletionEvents
<1>4. /\ Positions(log3, "EXECUTION_CLAIMED") = {k + 2}
      /\ Positions(log3, "EXECUTION_AUTHORIZED") = {k + 1}
      /\ Positions(log3, "RECONCILIATION_RECORDED") = {}
      /\ PositionsIn(log3, CompletionEvents) = {}
  <2>1. Len(log2) + 1 = k + 2
    BY <1>1
  <2>2. QED
    BY <1>3, <2>1, OneMorePositions DEF CompletionEvents
<1>5. ClaimTold(log3, y)
  <2>1. k + 2 \in 3..Len(log3) /\ (k + 2) - 1 = k + 1
    BY <1>1
  <2>2. {n - 1 : n \in {k + 2}} = {k + 1}
    BY <2>1
  <2>3. QED
    BY <1>4, <2>1, <2>2 DEF ClaimTold
<1>6. CompletionTold(log3, y) /\ AssessmentTold(log3, t)
  BY <1>4 DEF CompletionTold, AssessmentTold, CompletedStatuses
<1>7. QED
  BY <1>5, <1>6 DEF Story

\* complete, on a CLAIMED execution: the completion with its status and category.
LEMMA StoryComplete ==
  ASSUME NEW log \in Seq(AuditRows), NEW log2,
         NEW y, y.status \in CompletedStatuses,
         OneMore(log, log2, CompletionEvent(y.status), CategoryDetail(y.failure_category)),
         NEW x, x.status = "CLAIMED", NEW t, t = NoAssessment, Story(log, x, t)
  PROVE  Story(log2, y, t)
<1> DEFINE k == Len(log) + 1
           type == CompletionEvent(y.status)
<1>1. /\ Len(log) \in Nat /\ Len(log2) = k
      /\ \A n \in 1..Len(log) : log2[n] = log[n]
  BY DEF OneMore
<1>2. type \in CompletionEvents
  BY DEF CompletionEvent, CompletionEvents, CompletedStatuses
<1>3. /\ log2[k].payload.event_type = type
      /\ log2[k].payload.detail = CategoryDetail(y.failure_category)
  BY DEF OneMore
<1>4. /\ Positions(log, "RECONCILIATION_RECORDED") = {}
      /\ PositionsIn(log, CompletionEvents) = {}
  BY DEF Story, CompletionTold, AssessmentTold, CompletedStatuses
<1>5. /\ Positions(log2, "EXECUTION_CLAIMED") = Positions(log, "EXECUTION_CLAIMED")
      /\ Positions(log2, "EXECUTION_AUTHORIZED") = Positions(log, "EXECUTION_AUTHORIZED")
      /\ Positions(log2, "RECONCILIATION_RECORDED") = {}
      /\ PositionsIn(log2, CompletionEvents) = {k}
  <2>1. /\ type # "EXECUTION_CLAIMED" /\ type # "EXECUTION_AUTHORIZED"
        /\ type # "RECONCILIATION_RECORDED"
    BY <1>2 DEF CompletionEvents
  <2>2. QED
    BY <1>2, <1>4, <2>1, OneMorePositions
<1> HIDE DEF type
<1>6. PICK m \in 3..Len(log) : Positions(log, "EXECUTION_CLAIMED") = {m}
  BY DEF Story, ClaimTold
<1>7. ClaimTold(log2, y)
  <2>1. m \in 3..Len(log2)
    BY <1>1
  <2>2. y.status # "ABSENT"
    BY DEF CompletedStatuses
  <2>3. QED
    BY <1>5, <1>6, <2>1, <2>2 DEF Story, ClaimTold
<1>8. CompletionTold(log2, y)
  <2>1. k \in 1..Len(log2) /\ m < k
    BY <1>1
  <2>2. QED
    BY <1>3, <1>5, <1>6, <2>1 DEF CompletionTold, type
<1>9. AssessmentTold(log2, t)
  BY <1>5 DEF AssessmentTold
<1>10. QED
  BY <1>7, <1>8, <1>9 DEF Story

\* reconcile, on a completed execution without an assessment: the one assessment.
LEMMA StoryReconcile ==
  ASSUME NEW log \in Seq(AuditRows), NEW log2, NEW u,
         OneMore(log, log2, "RECONCILIATION_RECORDED",
                 AssessmentHash(u.outcome, u.original_hash)), u # NoAssessment,
         NEW x, x.status \in CompletedStatuses, NEW t, t = NoAssessment, Story(log, x, t)
  PROVE  Story(log2, x, u)
<1> DEFINE k == Len(log) + 1
<1>1. /\ Len(log) \in Nat /\ Len(log2) = k
      /\ \A n \in 1..Len(log) : log2[n] = log[n]
      /\ log2[k].payload.detail = AssessmentHash(u.outcome, u.original_hash)
  BY DEF OneMore
<1>2. Positions(log, "RECONCILIATION_RECORDED") = {}
  BY DEF Story, AssessmentTold
<1>3. /\ Positions(log2, "EXECUTION_CLAIMED") = Positions(log, "EXECUTION_CLAIMED")
      /\ Positions(log2, "EXECUTION_AUTHORIZED") = Positions(log, "EXECUTION_AUTHORIZED")
      /\ Positions(log2, "RECONCILIATION_RECORDED") = {k}
      /\ PositionsIn(log2, CompletionEvents) = PositionsIn(log, CompletionEvents)
  BY <1>2, OneMorePositions DEF CompletionEvents
<1>4. /\ \A n \in 3..Len(log) : n \in 3..Len(log2)
      /\ \A n \in 1..Len(log) : n \in 1..Len(log2) /\ n < k
      /\ k \in 1..Len(log2)
  BY <1>1
<1>5. ClaimTold(log2, x)
  BY <1>3, <1>4 DEF Story, ClaimTold
<1>6. CompletionTold(log2, x)
  <2>1. PICK n \in 1..Len(log) :
          /\ PositionsIn(log, CompletionEvents) = {n}
          /\ \A m \in Positions(log, "EXECUTION_CLAIMED") : m < n
          /\ log[n].payload.event_type = CompletionEvent(x.status)
          /\ log[n].payload.detail = CategoryDetail(x.failure_category)
    BY DEF Story, CompletionTold
  <2>2. n \in 1..Len(log2) /\ n < k /\ log2[n] = log[n]
    BY <1>1, <1>4
  <2>3. QED
    BY <1>3, <2>1, <2>2 DEF CompletionTold
<1>7. AssessmentTold(log2, u)
  BY <1>1, <1>3, <1>4 DEF AssessmentTold
<1>8. QED
  BY <1>5, <1>6, <1>7 DEF Story

-----------------------------------------------------------------------------
(* Every step tells the story on.                                          *)

Stories == \A a \in ApprovalIds : Story(audit[a], executions[a], assessments[a])

\* Nothing is executed and nothing logged at first.
LEMMA StoriesInit == Init => Stories
<1> SUFFICES ASSUME Init, NEW a \in ApprovalIds
             PROVE  Story(audit[a], executions[a], assessments[a])
  BY DEF Stories
<1>1. audit[a] = <<>> /\ executions[a] = NoExecution /\ assessments[a] = NoAssessment
  BY DEF Init, ApprovalInit
<1>2. \A type : Positions(<<>>, type) = {}
  BY DEF Positions
<1>3. \A types : PositionsIn(<<>>, types) = {}
  BY DEF PositionsIn
<1>4. NoExecution.status = "ABSENT"
  BY DEF NoExecution
<1>5. ClaimTold(<<>>, NoExecution) /\ CompletionTold(<<>>, NoExecution)
  BY <1>2, <1>3, <1>4 DEF ClaimTold, CompletionTold, CompletedStatuses
<1>6. AssessmentTold(<<>>, NoAssessment)
  BY <1>2 DEF AssessmentTold
<1>7. QED
  BY <1>1, <1>5, <1>6 DEF Story

\* One append, seen from any approval.
LEMMA AppendAuditLogs ==
  ASSUME Tables, NEW a, NEW row, NEW type, NEW status, NEW detail,
         AppendAudit(a, row, type, status, detail), NEW b \in ApprovalIds
  PROVE  \/ audit'[b] = audit[b]
         \/ b = a /\ OneMore(audit[b], audit'[b], type, detail)
<1>1. audit[b] \in Seq(AuditRows)
  BY DEF Tables
<1>2. \/ audit'[b] = audit[b]
      \/ b = a /\ audit'[b] = Append(audit[b], NextAuditRow(row, type, status, detail))
  BY DEF AppendAudit, Tables
<1>3. QED
  BY <1>1, <1>2, AppendIsOneMore

\* A transaction of the approval boundary appends nothing, or one event of its own.
LEMMA ApprovalLogs ==
  ASSUME Tables, [ApprovalNext]_approvalVars, NEW b \in ApprovalIds
  PROVE  \/ audit'[b] = audit[b]
         \/ \E type, detail : /\ type \notin ExecutionEvents
                              /\ OneMore(audit[b], audit'[b], type, detail)
<1>1. ASSUME NEW a, NEW row, NEW type, NEW status,
             AppendAudit(a, row, type, status, NoDetail), type \notin ExecutionEvents
      PROVE  \/ audit'[b] = audit[b]
             \/ \E t, d : t \notin ExecutionEvents /\ OneMore(audit[b], audit'[b], t, d)
  BY <1>1, AppendAuditLogs
<1>2. /\ "APPROVAL_CREATED" \notin ExecutionEvents
      /\ "APPROVAL_EXPIRED" \notin ExecutionEvents
      /\ "APPROVAL_TRANSITION_REJECTED" \notin ExecutionEvents
      /\ \A status : DecisionEvent(status) \notin ExecutionEvents
  BY DEF ExecutionEvents, CompletionEvents, DecisionEvent
<1>3. CASE UNCHANGED audit
  BY <1>3
<1>4. ASSUME NEW c \in Clients, CreateTxn(c)
      PROVE  \/ audit'[b] = audit[b]
             \/ \E t, d : t \notin ExecutionEvents /\ OneMore(audit[b], audit'[b], t, d)
  BY <1>1, <1>2, <1>4 DEF CreateTxn, Refuse
<1>5. ASSUME NEW c \in Clients, GetTxn(c)
      PROVE  \/ audit'[b] = audit[b]
             \/ \E t, d : t \notin ExecutionEvents /\ OneMore(audit[b], audit'[b], t, d)
  BY <1>1, <1>2, <1>5 DEF GetTxn, CannotOpen, Refuse, Expire
<1>6. ASSUME NEW c \in Clients, TransitionTxn(c)
      PROVE  \/ audit'[b] = audit[b]
             \/ \E t, d : t \notin ExecutionEvents /\ OneMore(audit[b], audit'[b], t, d)
  BY <1>1, <1>2, <1>6 DEF TransitionTxn, CannotOpen, Refuse, ExpireInstead, Expire,
                          LogRejectedTransition, Decide
<1>7. ASSUME NEW c \in Clients,
             VerifyReadRow(c) \/ VerifyReadLog(c) \/ Return(c) \/ StorageFails(c) \/ Crash(c)
      PROVE  UNCHANGED audit
  BY <1>7 DEF VerifyReadRow, VerifyReadLog, Return, StorageFails, Crash
<1>8. ASSUME NEW c \in Clients, NEW a \in ApprovalIds,
             \/ \E request \in Requests : BeginCreate(c, a, request)
             \/ \E op \in ClientOps : Begin(c, op, a)
      PROVE  UNCHANGED audit
  BY <1>8 DEF BeginCreate, Begin
<1>9. Tick \/ UNCHANGED approvalVars => UNCHANGED audit
  BY DEF Tick, approvalVars
<1>10. QED
  BY <1>3, <1>4, <1>5, <1>6, <1>7, <1>8, <1>9 DEF ApprovalNext, CallStep

\* A step that leaves the log and the execution tables alone.
LEMMA StoriesUnchanged ==
  ASSUME Stories, UNCHANGED <<audit, executions, assessments>>
  PROVE  Stories'
BY DEF Stories

\* The approval boundary leaves the execution tables alone and logs nothing of them.
LEMMA ApprovalStories ==
  ASSUME ExecutionInv, Stories, [ApprovalNext]_approvalVars, UNCHANGED executionVars
  PROVE  Stories'
<1> SUFFICES ASSUME NEW b \in ApprovalIds
             PROVE  Story(audit'[b], executions'[b], assessments'[b])
  BY DEF Stories
<1>1. executions'[b] = executions[b] /\ assessments'[b] = assessments[b]
  BY DEF executionVars
<1>2. Story(audit[b], executions[b], assessments[b])
  BY DEF Stories
<1>3. Tables /\ audit[b] \in Seq(AuditRows)
  BY DEF ExecutionInv, ApprovalInv, Tables
<1>4. CASE audit'[b] = audit[b]
  BY <1>1, <1>2, <1>4
<1>5. ASSUME NEW type, NEW detail, type \notin ExecutionEvents,
             OneMore(audit[b], audit'[b], type, detail)
      PROVE  Story(audit'[b], executions'[b], assessments'[b])
  BY <1>1, <1>2, <1>3, <1>5, StoryQuiet
<1>6. QED
  BY <1>3, <1>4, <1>5, ApprovalLogs

\* A step of the execution boundary tells the story of one approval on.
LEMMA StoreStory ==
  ASSUME ExecutionInv, Stories, NEW a \in ApprovalIds, NEW log, NEW x, NEW t,
         audit' = [audit EXCEPT ![a] = log],
         executions' = [executions EXCEPT ![a] = x],
         assessments' = [assessments EXCEPT ![a] = t],
         Story(log, x, t)
  PROVE  Stories'
<1> SUFFICES ASSUME NEW b \in ApprovalIds
             PROVE  Story(audit'[b], executions'[b], assessments'[b])
  BY DEF Stories
<1>1. /\ audit'[b] = IF b = a THEN log ELSE audit[b]
      /\ executions'[b] = IF b = a THEN x ELSE executions[b]
      /\ assessments'[b] = IF b = a THEN t ELSE assessments[b]
  BY DEF ExecutionInv, ExecutionsOK, ApprovalInv, Tables
<1>2. QED
  BY <1>1 DEF Stories

\* claim logs the authorization and the claim with the row it inserts.
LEMMA ClaimStories ==
  ASSUME ExecutionInv, Stories, NEW r \in Runners, ClaimTxn(r)
  PROVE  Stories'
<1> DEFINE a == runs[r].approval_id
           now == runs[r].now
           row == approvals[a]
           row2 == Advanced(row, "EXECUTION_AUTHORIZED", "PENDING", NoDetail)
           log2 == Append(audit[a], NextAuditRow(row, "EXECUTION_AUTHORIZED", "PENDING", NoDetail))
           log3 == Append(log2, NextAuditRow(row2, "EXECUTION_CLAIMED", "CLAIMED", NoDetail))
           x == ClaimedExecution(now)
<1>1. a \in ApprovalIds
  BY DEF ClaimTxn, ExecutionInv, RunsOK, RunShape
<1>2. CASE UNCHANGED <<audit, executions, assessments>>
  BY <1>2, StoriesUnchanged
<1>3. CASE /\ ClaimError(a, now) = "none"
           /\ executions' = [executions EXCEPT ![a] = x]
           /\ AppendClaimEvents(a)
           /\ UNCHANGED <<assessments, requests>>
  <2>1. row.status = "APPROVED" /\ executions[a].status = "ABSENT"
    BY <1>3, ClaimChecked DEF Executed
  <2>2. assessments[a] = NoAssessment
    BY <1>1, <2>1 DEF ExecutionInv, ExecutionsOK, ExecutionOK, Assessed
  <2>3. row \in Rows /\ audit[a] \in Seq(AuditRows) /\ Len(audit[a]) >= 2
    BY <1>1, <2>1 DEF ExecutionInv, ApprovalInv, Tables, RowInv, History, TerminalStatuses
  <2>4. log2 \in Seq(AuditRows)
    <3>1. /\ "EXECUTION_AUTHORIZED" \in AuditEventTypes /\ "PENDING" \in AuditStatuses
          /\ NoDetail \in Details
      BY DEF AuditEventTypes, AuditStatuses, Details
    <3>2. QED
      BY <2>3, <3>1, AppendedLog
  <2>5. OneMore(audit[a], log2, "EXECUTION_AUTHORIZED", NoDetail)
    BY <2>3, AppendIsOneMore
  <2>6. audit' = [audit EXCEPT ![a] = log3]
    BY <1>3 DEF AppendClaimEvents
  <2>7. x.status = "CLAIMED"
    BY DEF ClaimedExecution
  <2> HIDE DEF log2, row2, x
  <2>8. OneMore(log2, log3, "EXECUTION_CLAIMED", NoDetail)
    BY <2>4, AppendIsOneMore
  <2> HIDE DEF log3
  <2>9. Story(audit[a], executions[a], assessments[a])
    BY <1>1 DEF Stories
  <2>10. Story(log3, x, assessments[a])
    BY <2>1, <2>2, <2>3, <2>4, <2>5, <2>7, <2>8, <2>9, StoryClaim
  <2>11. assessments' = [assessments EXCEPT ![a] = assessments[a]]
    BY <1>1, <1>3 DEF ExecutionInv, ExecutionsOK
  <2>12. QED
    BY <1>1, <1>3, <2>6, <2>10, <2>11, StoreStory
<1>4. QED
  BY <1>2, <1>3 DEF ClaimTxn, Decline

\* complete logs the outcome it records.
LEMMA CompleteStories ==
  ASSUME ExecutionInv, Stories, NEW r \in Runners, CompleteTxn(r)
  PROVE  Stories'
<1> DEFINE a == runs[r].approval_id
           status == StatusFor(runs[r].failure)
           category == FAILURE_MAP[runs[r].failure.category]
           y == CompletedExecution(executions[a], status, category)
           log2 == Append(audit[a], NextAuditRow(approvals[a], CompletionEvent(status), status,
                                                 CategoryDetail(category)))
<1>1. /\ a \in ApprovalIds /\ runs[r].failure \in Failures
  BY DEF CompleteTxn, ExecutionInv, RunsOK, RunShape, Runs
<1>2. CASE UNCHANGED <<audit, executions, assessments>>
  BY <1>2, StoriesUnchanged
<1>3. CASE /\ executions[a].status = "CLAIMED"
           /\ executions' = [executions EXCEPT ![a] = y]
           /\ AppendAudit(a, approvals[a], CompletionEvent(status), status,
                          CategoryDetail(category))
           /\ UNCHANGED <<assessments, requests>>
  <2>1. assessments[a] = NoAssessment
    BY <1>1, <1>3 DEF ExecutionInv, ExecutionsOK, ExecutionOK, Assessed
  <2>2. executions[a] \in Executions /\ audit[a] \in Seq(AuditRows)
    BY <1>1 DEF ExecutionInv, ExecutionsOK, ApprovalInv, Tables
  <2>3. status \in CompletedStatuses
    BY <1>1, OutcomeType
  <2> HIDE DEF status, category
  <2>4. y.status = status /\ y.failure_category = category
    BY <2>2 DEF CompletedExecution, Executions
  <2>5. audit' = [audit EXCEPT ![a] = log2]
    BY <1>3 DEF AppendAudit
  <2> HIDE DEF y
  <2>6. OneMore(audit[a], log2, CompletionEvent(y.status), CategoryDetail(y.failure_category))
    BY <2>2, <2>4, AppendIsOneMore
  <2> HIDE DEF log2
  <2>7. Story(audit[a], executions[a], assessments[a])
    BY <1>1 DEF Stories
  <2>8. Story(log2, y, assessments[a])
    BY <1>3, <2>1, <2>2, <2>3, <2>4, <2>6, <2>7, StoryComplete
  <2>9. assessments' = [assessments EXCEPT ![a] = assessments[a]]
    BY <1>1, <1>3 DEF ExecutionInv, ExecutionsOK
  <2>10. QED
    BY <1>1, <1>3, <2>5, <2>8, <2>9, StoreStory
<1>4. QED
  BY <1>2, <1>3 DEF CompleteTxn, Decline

\* reconcile logs the hash of the assessment it stores.
LEMMA ReconcileStories ==
  ASSUME ExecutionInv, Stories, NEW r \in Runners, ReconcileTxn(r)
  PROVE  Stories'
<1> DEFINE a == runs[r].approval_id
           outcome == runs[r].outcome
           hash == executions[a].integrity_hash
           u == [outcome |-> outcome, original_hash |-> hash]
           log2 == Append(audit[a], NextAuditRow(approvals[a], "RECONCILIATION_RECORDED",
                                                 "UNKNOWN", AssessmentHash(outcome, hash)))
<1>1. a \in ApprovalIds /\ outcome \in ReconciliationOutcomes
  BY DEF ReconcileTxn, ExecutionInv, RunsOK, RunShape
<1>2. CASE UNCHANGED <<audit, executions, assessments>>
  BY <1>2, StoriesUnchanged
<1>3. CASE /\ executions[a].status = "UNKNOWN"
           /\ assessments[a] = NoAssessment
           /\ assessments' = [assessments EXCEPT ![a] = u]
           /\ AppendAudit(a, approvals[a], "RECONCILIATION_RECORDED", "UNKNOWN",
                          AssessmentHash(outcome, hash))
           /\ UNCHANGED <<executions, requests>>
  <2>1. u.outcome = outcome /\ u.original_hash = hash
    OBVIOUS
  <2>2. u # NoAssessment
    BY <1>1, <2>1 DEF NoAssessment, ReconciliationOutcomes
  <2>3. audit' = [audit EXCEPT ![a] = log2]
    BY <1>3 DEF AppendAudit
  <2> HIDE DEF u
  <2>4. audit[a] \in Seq(AuditRows)
    BY <1>1 DEF ExecutionInv, ApprovalInv, Tables
  <2>5. OneMore(audit[a], log2, "RECONCILIATION_RECORDED",
                AssessmentHash(u.outcome, u.original_hash))
    BY <2>1, <2>4, AppendIsOneMore
  <2> HIDE DEF log2
  <2>6. Story(audit[a], executions[a], assessments[a])
    BY <1>1 DEF Stories
  <2>7. executions[a].status \in CompletedStatuses
    BY <1>3 DEF CompletedStatuses
  <2>8. Story(log2, executions[a], u)
    BY <1>3, <2>2, <2>4, <2>5, <2>6, <2>7, StoryReconcile
  <2>9. executions' = [executions EXCEPT ![a] = executions[a]]
    BY <1>1, <1>3 DEF ExecutionInv, ExecutionsOK
  <2>10. QED
    BY <1>1, <1>3, <2>3, <2>8, <2>9, StoreStory
<1>4. QED
  BY <1>2, <1>3 DEF ReconcileTxn, Decline

\* Every step of every client, runner and of the provider tells the stories on.
LEMMA StoriesStep ==
  ASSUME ExecutionInv, Stories, [Next]_vars
  PROVE  Stories'
<1>1. CASE ApprovalNext /\ UNCHANGED executionVars
  BY <1>1, ApprovalStories
<1>2. CASE UNCHANGED <<audit, executions, assessments>>
  BY <1>2, StoriesUnchanged
<1>3. CASE ProviderNext
  BY <1>2, <1>3 DEF ProviderNext, ProviderSettles
<1>4. ASSUME NEW r \in Runners, RunnerNext(r)
      PROVE  Stories'
  <2>1. ASSUME NEW a, NEW op, NEW outcome, BeginRun(r, op, a, outcome)
        PROVE  Stories'
    BY <1>2, <2>1 DEF BeginRun
  <2>2. CASE CallNotSent(r) \/ SendRequest(r) \/ CallReturns(r) \/ ReconcileRead(r) \/ GetStep(r)
    BY <1>2, <2>2 DEF CallNotSent, SendRequest, CallReturns, ReconcileRead, GetStep,
                      GetReadExecution, GetReadRow, GetReadLog, GetReadLogAgain
  <2>3. CASE RunReturns(r) \/ RunStorageFails(r) \/ RunCrashes(r)
    BY <1>2, <2>3 DEF RunReturns, RunStorageFails, RunCrashes
  <2>4. CASE ClaimTxn(r) \/ CompleteTxn(r) \/ ReconcileTxn(r)
    BY <2>4, ClaimStories, CompleteStories, ReconcileStories
  <2>5. QED
    BY <1>4, <2>1, <2>2, <2>3, <2>4 DEF RunnerNext, ExecuteStep, ReconcileStep
<1>5. QED
  BY <1>1, <1>2, <1>3, <1>4 DEF Next, vars

\* The story is the correspondence of log and tables.
LEMMA StoriesImply == ExecutionInv /\ Stories => ExecutionIsAudited /\ AssessmentKeepsOriginal
<1> SUFFICES ASSUME ExecutionInv, Stories
             PROVE  ExecutionIsAudited /\ AssessmentKeepsOriginal
  OBVIOUS
<1>1. ASSUME NEW a \in ApprovalIds
      PROVE  LET log == audit[a]
                 x == executions[a]
                 claim == Positions(log, "EXECUTION_CLAIMED")
                 completion == PositionsIn(log, CompletionEvents)
                 assessment == Positions(log, "RECONCILIATION_RECORDED") IN
             /\ Positions(log, "EXECUTION_AUTHORIZED") = {n - 1 : n \in claim}
             /\ Executed(a) <=> \E n \in 3..Len(log) : claim = {n}
             /\ ~Executed(a) => claim = {}
             /\ IF x.status \in CompletedStatuses
                THEN \E n \in 1..Len(log) :
                       /\ completion = {n}
                       /\ \A m \in claim : m < n
                       /\ \A m \in assessment : n < m
                       /\ <<x.status, log[n].payload.event_type>> \in
                            {<<"SUCCEEDED", "EXECUTION_SUCCEEDED">>,
                             <<"FAILED", "EXECUTION_FAILED">>,
                             <<"UNKNOWN", "EXECUTION_UNKNOWN">>}
                       /\ log[n].payload.detail = CategoryDetail(x.failure_category)
                ELSE completion = {}
             /\ assessments[a] # NoAssessment <=> \E n \in 1..Len(log) : assessment = {n}
             /\ assessments[a] = NoAssessment => assessment = {}
  <2> DEFINE log == audit[a]
             x == executions[a]
             t == assessments[a]
  <2>1. ClaimTold(log, x) /\ CompletionTold(log, x) /\ AssessmentTold(log, t)
    BY DEF Stories, Story
  <2>2. \A n : {n} # {}
    OBVIOUS
  <2>3. ASSUME x.status \in CompletedStatuses
        PROVE  <<x.status, CompletionEvent(x.status)>> \in
                 {<<"SUCCEEDED", "EXECUTION_SUCCEEDED">>, <<"FAILED", "EXECUTION_FAILED">>,
                  <<"UNKNOWN", "EXECUTION_UNKNOWN">>}
    BY <2>3 DEF CompletedStatuses, CompletionEvent
  <2>4. /\ Positions(log, "EXECUTION_AUTHORIZED") =
             {n - 1 : n \in Positions(log, "EXECUTION_CLAIMED")}
        /\ Executed(a) <=> \E n \in 3..Len(log) : Positions(log, "EXECUTION_CLAIMED") = {n}
        /\ ~Executed(a) => Positions(log, "EXECUTION_CLAIMED") = {}
    BY <2>1, <2>2 DEF ClaimTold, Executed
  <2>5. /\ t # NoAssessment <=>
             \E n \in 1..Len(log) : Positions(log, "RECONCILIATION_RECORDED") = {n}
        /\ t = NoAssessment => Positions(log, "RECONCILIATION_RECORDED") = {}
    BY <2>1, <2>2 DEF AssessmentTold
  <2>6. CASE x.status \in CompletedStatuses
    BY <2>1, <2>3, <2>4, <2>5, <2>6 DEF CompletionTold
  <2>7. CASE x.status \notin CompletedStatuses
    BY <2>1, <2>4, <2>5, <2>7 DEF CompletionTold
  <2>8. QED
    BY <2>6, <2>7
<1>2. ASSUME NEW a \in ApprovalIds, assessments[a] # NoAssessment
      PROVE  /\ executions[a].status = "UNKNOWN"
             /\ assessments[a].original_hash = executions[a].integrity_hash
             /\ \A n \in Positions(audit[a], "RECONCILIATION_RECORDED") :
                  audit[a][n].payload.detail =
                    AssessmentHash(assessments[a].outcome, assessments[a].original_hash)
  <2>1. Assessed(executions[a], assessments[a])
    BY <1>2 DEF ExecutionInv, ExecutionsOK, ExecutionOK
  <2>2. AssessmentTold(audit[a], assessments[a])
    BY DEF Stories, Story
  <2>3. QED
    BY <1>2, <2>1, <2>2 DEF Assessed, AssessmentTold
<1>3. QED
  BY <1>1, <1>2 DEF ExecutionIsAudited, AssessmentKeepsOriginal

\* The invariant holds of every behaviour.
THEOREM StoriesInvariant == Spec => []Stories
<1>1. ExecutionInv /\ Stories /\ [Next]_vars => Stories'
  BY StoriesStep
<1>2. QED
  BY <1>1, StoriesInit, ExecutionInvariant, PTL DEF Spec

\* At every commit the log and the execution tables agree, whatever the approval
\* operations append in between: one authorization and claim exactly when there is an
\* execution, then its one completion, then its one assessment.
THEOREM ExecutionsAreAudited == Spec => []ExecutionIsAudited
BY StoriesInvariant, ExecutionInvariant, StoriesImply, PTL

\* reconcile adds an operator's word and changes nothing: the execution stays UNKNOWN
\* with the hash it was assessed with, and the log commits to the assessment.
THEOREM AssessmentsKeepTheOriginal == Spec => []AssessmentKeepsOriginal
BY StoriesInvariant, ExecutionInvariant, StoriesImply, PTL

-----------------------------------------------------------------------------
(* What execute, get and reconcile answer.                                 *)

Getting == {"get_row", "get_log", "get_log_again"}

\* A run against the execution of its approval: an answer is there at the end only,
\* what get read first is still what the record says once it is completed, and an
\* outcome reported by execute or get is the recorded one.
RunTold(run, x) ==
  /\ run.pc # "done" => run.reply = "none"
  /\ run.pc \in {"reconcile", "reconcile_read"} => run.op = "reconcile"
  /\ run.pc \in Getting =>
       /\ HashMatches(run.execution)
       /\ x.status # "ABSENT"
       /\ run.execution.status \in CompletedStatuses => x.status = run.execution.status
  /\ run.op \in {"execute", "get"} /\ run.reply \in CompletedStatuses => x.status = run.reply

RunsTold == \A r \in Runners : RunTold(runs[r], executions[runs[r].approval_id])

\* What was told of an execution stays true whatever a later step records.
LEMMA ToldStays ==
  ASSUME NEW run, NEW x, NEW y, NEW t, NEW u, NEW m, NEW n,
         Kept(x, y, t, u, m, n), RunTold(run, x)
  PROVE  RunTold(run, y)
BY DEF Kept, RunTold

\* Between two operations a runner has been told nothing.
LEMMA IdleTold ==
  ASSUME NEW run, run.pc = "idle", run.reply = "none", NEW x
  PROVE  RunTold(run, x)
BY DEF RunTold, Getting, CompletedStatuses

\* One run goes on; the others keep what they were told.
LEMMA StoreTold ==
  ASSUME ExecutionInv, RunsTold, AllKept, NEW r \in Runners, NEW run,
         runs' = [runs EXCEPT ![r] = run], RunTold(run, executions'[run.approval_id])
  PROVE  RunsTold'
<1> SUFFICES ASSUME NEW q \in Runners
             PROVE  RunTold(runs'[q], executions'[runs'[q].approval_id])
  BY DEF RunsTold
<1>1. runs'[q] = IF q = r THEN run ELSE runs[q]
  BY DEF ExecutionInv, RunsOK
<1>2. CASE q = r
  BY <1>1, <1>2
<1>3. CASE q # r /\ runs[q].pc = "idle"
  BY <1>1, <1>3, IdleTold DEF RunsTold, RunTold
<1>4. CASE q # r /\ runs[q].pc # "idle"
  <2>1. runs[q].approval_id \in ApprovalIds
    BY <1>4 DEF ExecutionInv, RunsOK, RunShape
  <2>2. RunTold(runs[q], executions[runs[q].approval_id])
    BY DEF RunsTold
  <2>3. RunTold(runs[q], executions'[runs[q].approval_id])
    BY <2>1, <2>2, ToldStays DEF AllKept
  <2>4. QED
    BY <1>1, <1>4, <2>3
<1>5. QED
  BY <1>2, <1>3, <1>4

\* No run goes on.
LEMMA RunsUnchangedTold ==
  ASSUME ExecutionInv, RunsTold, AllKept, UNCHANGED runs
  PROVE  RunsTold'
<1> SUFFICES ASSUME NEW q \in Runners
             PROVE  RunTold(runs[q], executions'[runs[q].approval_id])
  BY DEF RunsTold
<1>1. RunTold(runs[q], executions[runs[q].approval_id])
  BY DEF RunsTold
<1>2. CASE runs[q].pc = "idle"
  BY <1>1, <1>2, IdleTold DEF RunTold
<1>3. CASE runs[q].pc # "idle"
  <2>1. runs[q].approval_id \in ApprovalIds
    BY <1>3 DEF ExecutionInv, RunsOK, RunShape
  <2>2. QED
    BY <1>1, <2>1, ToldStays DEF AllKept
<1>4. QED
  BY <1>2, <1>3

\* A run ends with an answer; an outcome told by execute or get is the recorded one.
LEMMA AnswerTold ==
  ASSUME ExecutionInv, RunsTold, AllKept, NEW r \in Runners, NEW reply, Answer(r, reply),
         /\ runs[r].op \in {"execute", "get"} /\ reply \in CompletedStatuses
         => executions'[runs[r].approval_id].status = reply
  PROVE  RunsTold'
<1> DEFINE run == Finished(runs[r], reply)
<1>1. /\ run.pc = "done" /\ run.op = runs[r].op /\ run.reply = reply
      /\ run.approval_id = runs[r].approval_id
  BY DEF Finished, IdleRun
<1>2. runs' = [runs EXCEPT ![r] = run]
  BY DEF Answer
<1> HIDE DEF run
<1>3. RunTold(run, executions'[run.approval_id])
  BY <1>1 DEF RunTold, Getting
<1>4. QED
  BY <1>2, <1>3, StoreTold

\* A run goes on without an answer and outside of get.
LEMMA OnwardTold ==
  ASSUME ExecutionInv, RunsTold, AllKept, NEW r \in Runners, NEW run,
         runs' = [runs EXCEPT ![r] = run], run.reply = "none",
         run.pc \notin Getting,
         run.pc \in {"reconcile", "reconcile_read"} => run.op = "reconcile"
  PROVE  RunsTold'
<1>1. RunTold(run, executions'[run.approval_id])
  BY DEF RunTold, CompletedStatuses
<1>2. QED
  BY <1>1, StoreTold

\* A refusal is no outcome.
LEMMA ErrorsAreNoOutcome ==
  /\ \A a, now : ClaimError(a, now) \notin CompletedStatuses
  /\ \A a : OpenError(a) \notin CompletedStatuses
BY DEF ClaimError, OpenError, CompletedStatuses

\* claim, the provider call and complete.
LEMMA ExecuteTold ==
  ASSUME ExecutionInv, RunsTold, AllKept, NEW r \in Runners, ExecuteStep(r)
  PROVE  RunsTold'
<1> DEFINE a == runs[r].approval_id
<1>1. runs[r] \in Runs /\ RunTold(runs[r], executions[a])
  BY DEF ExecutionInv, RunsOK, RunShape, RunsTold
<1>2. ASSUME NEW reply, reply \notin CompletedStatuses, Answer(r, reply)
      PROVE  RunsTold'
  BY <1>2, AnswerTold
<1>3. ASSUME ReadBackFails(r)
      PROVE  RunsTold'
  BY <1>2, <1>3 DEF ReadBackFails, CompletedStatuses
<1>4. CASE ClaimTxn(r)
  <2>1. CASE Decline(r, ClaimError(a, runs[r].now))
    BY <1>2, <2>1, ErrorsAreNoOutcome DEF Decline
  <2>2. CASE runs' = [runs EXCEPT ![r].pc = "calling", ![r].now = NoTime]
    <3> DEFINE run == [runs[r] EXCEPT !.pc = "calling", !.now = NoTime]
    <3>1. runs' = [runs EXCEPT ![r] = run]
      BY <2>2
    <3>2. run.pc = "calling" /\ run.reply = runs[r].reply
      BY <1>1 DEF Runs
    <3>3. runs[r].reply = "none"
      BY <1>1, <1>4 DEF RunTold, ClaimTxn
    <3> HIDE DEF run
    <3>4. QED
      BY <3>1, <3>2, <3>3, OnwardTold DEF Getting
  <2>3. QED
    BY <1>3, <1>4, <2>1, <2>2 DEF ClaimTxn
<1>5. CASE CallNotSent(r) \/ CallReturns(r)
  <2>1. PICK failure : CallEnds(r, failure)
    BY <1>5 DEF CallNotSent, CallReturns
  <2> DEFINE run == [runs[r] EXCEPT !.pc = "complete", !.failure = failure]
  <2>2. runs' = [runs EXCEPT ![r] = run]
    BY <2>1 DEF CallEnds
  <2>3. run.pc = "complete" /\ run.reply = runs[r].reply
    BY <1>1 DEF Runs
  <2>4. runs[r].reply = "none"
    BY <1>1, <1>5 DEF RunTold, CallNotSent, CallReturns
  <2> HIDE DEF run
  <2>5. QED
    BY <2>2, <2>3, <2>4, OnwardTold DEF Getting
<1>6. CASE SendRequest(r)
  <2> DEFINE run == [runs[r] EXCEPT !.pc = "awaiting"]
  <2>1. runs' = [runs EXCEPT ![r] = run]
    BY <1>6 DEF SendRequest
  <2>2. run.pc = "awaiting" /\ run.reply = runs[r].reply
    BY <1>1 DEF Runs
  <2>3. runs[r].reply = "none"
    BY <1>1, <1>6 DEF RunTold, SendRequest
  <2> HIDE DEF run
  <2>4. QED
    BY <2>1, <2>2, <2>3, OnwardTold DEF Getting
<1>7. CASE CompleteTxn(r)
  <2> DEFINE status == StatusFor(runs[r].failure)
             category == FAILURE_MAP[runs[r].failure.category]
  <2>1. CASE Decline(r, OpenError(a)) \/ Decline(r, "EXECUTION_ALREADY_COMPLETED")
    BY <1>2, <2>1, ErrorsAreNoOutcome DEF Decline, CompletedStatuses
  <2>2. CASE /\ executions' = [executions EXCEPT ![a] =
                  CompletedExecution(executions[a], status, category)]
             /\ Answer(r, status)
    <3>1. a \in ApprovalIds /\ executions[a] \in Executions
      BY <1>7 DEF CompleteTxn, ExecutionInv, RunsOK, RunShape, ExecutionsOK
    <3>2. executions'[a] = CompletedExecution(executions[a], status, category)
      BY <2>2, <3>1 DEF ExecutionInv, ExecutionsOK
    <3> HIDE DEF status, category
    <3>3. executions'[a].status = status
      BY <3>1, <3>2 DEF CompletedExecution, Executions
    <3>4. QED
      BY <2>2, <3>3, AnswerTold
  <2>3. QED
    BY <1>3, <1>7, <2>1, <2>2 DEF CompleteTxn
<1>8. QED
  BY <1>4, <1>5, <1>6, <1>7 DEF ExecuteStep

\* reconcile answers with the operator's word, under its own name.
LEMMA ReconcileTold ==
  ASSUME ExecutionInv, RunsTold, AllKept, NEW r \in Runners, ReconcileStep(r)
  PROVE  RunsTold'
<1> DEFINE a == runs[r].approval_id
<1>1. runs[r] \in Runs /\ RunTold(runs[r], executions[a])
  BY DEF ExecutionInv, RunsOK, RunShape, RunsTold
<1>2. runs[r].op = "reconcile" /\ runs[r].reply = "none"
  BY <1>1 DEF RunTold, ReconcileStep, ReconcileTxn, ReconcileRead
<1>3. ASSUME NEW reply, Answer(r, reply)
      PROVE  RunsTold'
  BY <1>2, <1>3, AnswerTold
<1>4. CASE runs' = [runs EXCEPT ![r].pc = "reconcile_read"]
  <2> DEFINE run == [runs[r] EXCEPT !.pc = "reconcile_read"]
  <2>1. runs' = [runs EXCEPT ![r] = run]
    BY <1>4
  <2>2. run.pc = "reconcile_read" /\ run.reply = runs[r].reply /\ run.op = runs[r].op
    BY <1>1 DEF Runs
  <2> HIDE DEF run
  <2>3. QED
    BY <1>2, <2>1, <2>2, OnwardTold DEF Getting
<1>5. QED
  BY <1>3, <1>4 DEF ReconcileStep, ReconcileTxn, ReconcileRead, Decline

\* The four reads of get: the execution it read first does not change under it once
\* it is completed.
LEMMA GetTold ==
  ASSUME ExecutionInv, RunsTold, AllKept, NEW r \in Runners, GetStep(r)
  PROVE  RunsTold'
<1> DEFINE a == runs[r].approval_id
<1>1. runs[r] \in Runs /\ RunTold(runs[r], executions[a])
  BY DEF ExecutionInv, RunsOK, RunShape, RunsTold
<1>2. /\ runs[r].pc \in Getting \cup {"get"} /\ runs[r].reply = "none"
      /\ UNCHANGED executions
  BY <1>1 DEF RunTold, GetStep, GetReadExecution, GetReadRow, GetReadLog, GetReadLogAgain,
              Getting
<1>3. ASSUME NEW reply, reply \notin CompletedStatuses, Answer(r, reply)
      PROVE  RunsTold'
  BY <1>3, AnswerTold
<1>4. CASE GetReadExecution(r)
  <2>1. CASE Answer(r, "EXECUTION_NOT_FOUND")
    BY <1>3, <2>1 DEF CompletedStatuses
  <2>2. CASE Executed(a) /\ runs' = [runs EXCEPT ![r].pc = "get_row",
                                                 ![r].execution = executions[a]]
    <3> DEFINE run == [runs[r] EXCEPT !.pc = "get_row", !.execution = executions[a]]
    <3>1. runs' = [runs EXCEPT ![r] = run]
      BY <2>2
    <3>2. /\ run.pc = "get_row" /\ run.reply = runs[r].reply
          /\ run.execution = executions[a] /\ run.approval_id = a
      BY <1>1 DEF Runs
    <3>3. a \in ApprovalIds
      BY <1>4 DEF ExecutionInv, RunsOK, RunShape, GetReadExecution
    <3>4. HashMatches(executions[a]) /\ executions[a].status # "ABSENT"
      BY <2>2, <3>3 DEF ExecutionInv, ExecutionsOK, ExecutionOK, Executed
    <3> HIDE DEF run
    <3>5. RunTold(run, executions'[run.approval_id])
      BY <1>2, <3>2, <3>4 DEF RunTold, CompletedStatuses
    <3>6. QED
      BY <3>1, <3>5, StoreTold
  <2>3. QED
    BY <1>4, <2>1, <2>2 DEF GetReadExecution
<1>5. ASSUME NEW run, runs' = [runs EXCEPT ![r] = run], runs[r].pc \in Getting,
             run.pc \in Getting, run.reply = "none", run.execution = runs[r].execution,
             run.approval_id = a
      PROVE  RunsTold'
  <2>1. RunTold(run, executions'[run.approval_id])
    BY <1>1, <1>2, <1>5 DEF RunTold, CompletedStatuses, Getting
  <2>2. QED
    BY <1>5, <2>1, StoreTold
<1>6. CASE GetReadRow(r)
  <2> DEFINE run == [runs[r] EXCEPT !.pc = "get_log", !.seen = Commitment(approvals[a])]
  <2>1. runs' = [runs EXCEPT ![r] = run] /\ runs[r].pc \in Getting
    BY <1>6 DEF GetReadRow, Getting
  <2>2. /\ run.pc \in Getting /\ run.reply = "none" /\ run.execution = runs[r].execution
        /\ run.approval_id = a
    BY <1>1, <1>2 DEF Runs, Getting
  <2> HIDE DEF run
  <2>3. QED
    BY <1>5, <2>1, <2>2
<1>7. CASE GetReadLog(r)
  <2>1. CASE Answer(r, "EXECUTION_INTEGRITY_FAILURE")
    BY <1>3, <2>1 DEF CompletedStatuses
  <2>2. CASE runs' = [runs EXCEPT ![r].pc = "get_log_again"]
    <3> DEFINE run == [runs[r] EXCEPT !.pc = "get_log_again"]
    <3>1. runs' = [runs EXCEPT ![r] = run] /\ runs[r].pc \in Getting
      BY <1>7, <2>2 DEF GetReadLog, Getting
    <3>2. /\ run.pc \in Getting /\ run.reply = "none" /\ run.execution = runs[r].execution
          /\ run.approval_id = a
      BY <1>1, <1>2 DEF Runs, Getting
    <3> HIDE DEF run
    <3>3. QED
      BY <1>5, <3>1, <3>2
  <2>3. QED
    BY <1>7, <2>1, <2>2 DEF GetReadLog
<1>8. CASE GetReadLogAgain(r)
  <2>1. PICK reply \in {"APPROVAL_PROVENANCE_INVALID", "EXECUTION_INTEGRITY_FAILURE",
                        runs[r].execution.status} : Answer(r, reply)
    BY <1>8 DEF GetReadLogAgain
  <2>2. reply \in CompletedStatuses => executions'[a].status = reply
    BY <1>1, <1>2, <1>8, <2>1 DEF RunTold, GetReadLogAgain, Getting, CompletedStatuses
  <2>3. QED
    BY <2>1, <2>2, AnswerTold
<1>9. QED
  BY <1>4, <1>6, <1>7, <1>8 DEF GetStep

\* Every step of every client, runner and of the provider leaves the answers true.
LEMMA RunsToldStep ==
  ASSUME ExecutionInv, RunsTold, [Next]_vars
  PROVE  RunsTold'
<1>1. AllKept
  BY StepKeeps
<1>2. CASE UNCHANGED runs
  BY <1>1, <1>2, RunsUnchangedTold
<1>3. ASSUME NEW r \in Runners, RunnerNext(r)
      PROVE  RunsTold'
  <2>1. ASSUME NEW a, NEW op \in {"execute", "get", "reconcile"}, NEW outcome,
               BeginRun(r, op, a, outcome)
        PROVE  RunsTold'
    <3> DEFINE run == [IdleRun EXCEPT !.pc = op, !.op = op, !.approval_id = a,
                         !.now = IF op = "execute" THEN clock ELSE NoTime, !.outcome = outcome]
    <3>1. runs' = [runs EXCEPT ![r] = run]
      BY <2>1 DEF BeginRun
    <3>2. run.pc = op /\ run.op = op /\ run.reply = "none"
      BY DEF IdleRun
    <3> HIDE DEF run
    <3>3. QED
      BY <1>1, <3>1, <3>2, OnwardTold DEF Getting
  <2>2. CASE ExecuteStep(r) \/ ReconcileStep(r) \/ GetStep(r)
    BY <1>1, <2>2, ExecuteTold, ReconcileTold, GetTold
  <2>3. CASE RunReturns(r) \/ RunCrashes(r)
    <3>1. runs' = [runs EXCEPT ![r] = IdleRun]
      BY <2>3 DEF RunReturns, RunCrashes
    <3>2. IdleRun.pc = "idle" /\ IdleRun.reply = "none"
      BY DEF IdleRun
    <3>3. QED
      BY <1>1, <3>1, <3>2, OnwardTold DEF Getting
  <2>4. CASE RunStorageFails(r)
    <3>1. PICK reply \in {"APPROVAL_UNAVAILABLE", "EXECUTION_UNAVAILABLE"} : Answer(r, reply)
      BY <2>4 DEF RunStorageFails
    <3>2. reply \notin CompletedStatuses
      BY DEF CompletedStatuses
    <3>3. QED
      BY <1>1, <3>1, <3>2, AnswerTold
  <2>5. QED
    BY <1>3, <2>1, <2>2, <2>3, <2>4, RunnerOpsAssumption DEF RunnerNext
<1>4. QED
  BY <1>2, <1>3 DEF Next, executionVars, vars, ProviderNext, ProviderSettles

\* The invariant holds of every behaviour.
THEOREM RunsToldInvariant == Spec => []RunsTold
<1>1. Init => RunsTold
  <2> SUFFICES ASSUME Init, NEW r \in Runners
               PROVE  RunTold(runs[r], executions[runs[r].approval_id])
    BY DEF RunsTold
  <2>1. runs[r].pc = "idle" /\ runs[r].reply = "none"
    BY DEF Init, IdleRun
  <2>2. QED
    BY <2>1, IdleTold
<1>2. ExecutionInv /\ RunsTold /\ [Next]_vars => RunsTold'
  BY RunsToldStep
<1>3. QED
  BY <1>1, <1>2, ExecutionInvariant, PTL DEF Spec

\* execute and get report a completed execution only as what the record says, now and
\* for ever, though get pieces its answer together from four reads.
THEOREM RunAnswersAreTrue == Spec => []RunAnswersHold
<1>1. RunsTold => RunAnswersHold
  BY DEF RunsTold, RunTold, RunAnswersHold
<1>2. QED
  BY <1>1, RunsToldInvariant, PTL

-----------------------------------------------------------------------------
(* The alarms of get.                                                      *)

Alarms == {"EXECUTION_INTEGRITY_FAILURE", "APPROVAL_PROVENANCE_INVALID"}

\* While the commitment get read is the row's and the log is within its numbering,
\* everything get checks is in order.
LEMMA GetFindsAllInOrder ==
  ASSUME ExecutionInv, RunsTold, NEW r \in Runners,
         runs[r].pc \in {"get_log", "get_log_again"},
         Commitment(approvals[runs[r].approval_id]) = runs[r].seen,
         Len(audit[runs[r].approval_id]) <= MaxSequence
  PROVE  LET a == runs[r].approval_id IN
         /\ VerifyAuditChain(audit[a], runs[r].seen)
         /\ ProvenanceMatches(approvals[a])
         /\ ExecutionMatches(runs[r].execution, approvals[a])
         /\ runs[r].execution.status \notin Alarms
<1> DEFINE a == runs[r].approval_id
<1>1. a \in ApprovalIds /\ runs[r] \in Runs
  BY DEF ExecutionInv, RunsOK, RunShape
<1>2. RowInv(approvals[a], audit[a])
  BY <1>1 DEF ExecutionInv, ApprovalInv, Tables
<1>3. VerifyAuditChain(audit[a], runs[r].seen)
  BY <1>2, CommitmentVerifies
<1>4. HashMatches(runs[r].execution) /\ Executed(a)
  BY DEF RunsTold, RunTold, Getting, Executed
<1>5. Permitted(approvals[a], audit[a], executions[a])
  BY <1>1, <1>4 DEF ExecutionInv, ExecutionsOK
<1>6. ProvenanceMatches(approvals[a])
  BY <1>2, <1>5 DEF Permitted, RowInv, RowBound, Bound, ProvenanceMatches
<1>7. runs[r].execution.status \notin Alarms
  BY <1>1 DEF Runs, Executions, ExecutionStatuses, Alarms
<1>8. QED
  BY <1>3, <1>4, <1>5, <1>6, <1>7 DEF Permitted, ExecutionMatches

\* Only a read of get itself raises an alarm there.
LEMMA GetAlarmCaused ==
  ASSUME ExecutionInv, RunsTold, [Next]_vars, NEW r \in Runners,
         runs[r].pc \in {"get_log", "get_log_again"}, runs'[r].reply \in Alarms
  PROVE  LET a == runs[r].approval_id IN
         \/ Commitment(approvals[a]) # runs[r].seen
         \/ Len(audit[a]) > MaxSequence
<1> DEFINE a == runs[r].approval_id
           log == audit[a]
<1>1. runs[r].reply = "none" /\ runs \in [Runners -> Runs]
  BY DEF RunsTold, RunTold, ExecutionInv, RunsOK
<1>2. Len(audit[a]) \in Nat /\ MaxSequence \in Nat
  <2>1. audit[a] \in Seq(AuditRows)
    BY DEF ExecutionInv, RunsOK, RunShape, ApprovalInv, Tables
  <2>2. QED
    BY <2>1, MaxSequenceAssumption
<1>3. runs'[r] # runs[r]
  BY <1>1 DEF Alarms
<1>4. PICK q \in Runners : RunnerNext(q)
  BY <1>3 DEF Next, executionVars, vars, ProviderNext, ProviderSettles
<1>5. ASSUME NEW reply, Answer(r, reply)
      PROVE  runs'[r].reply = reply
  BY <1>1, <1>5 DEF Answer, Finished, IdleRun
<1>6. q = r
  <2>1. \A run : runs' = [runs EXCEPT ![q] = run] => q = r
    BY <1>1, <1>3
  <2>2. \A reply : Answer(q, reply) => q = r
    BY <2>1 DEF Answer
  <2>3. ASSUME NEW b, NEW op, NEW outcome, BeginRun(q, op, b, outcome)
        PROVE  q = r
    BY <2>1, <2>3 DEF BeginRun
  <2>4. CASE ClaimTxn(q)
    BY <2>1, <2>2, <2>4 DEF ClaimTxn, Decline, ReadBackFails
  <2>5. CASE CallNotSent(q) \/ CallReturns(q) \/ SendRequest(q)
    BY <2>1, <2>5 DEF CallNotSent, CallReturns, SendRequest, CallEnds
  <2>6. CASE CompleteTxn(q)
    BY <2>2, <2>6 DEF CompleteTxn, Decline, ReadBackFails
  <2>7. CASE ReconcileStep(q)
    BY <2>1, <2>2, <2>7 DEF ReconcileStep, ReconcileTxn, ReconcileRead, Decline
  <2>8. CASE GetStep(q)
    BY <2>1, <2>2, <2>8 DEF GetStep, GetReadExecution, GetReadRow, GetReadLog, GetReadLogAgain
  <2>9. CASE RunReturns(q) \/ RunStorageFails(q) \/ RunCrashes(q)
    BY <2>1, <2>2, <2>9 DEF RunReturns, RunStorageFails, RunCrashes
  <2>10. QED
    BY <1>4, <2>3, <2>4, <2>5, <2>6, <2>7, <2>8, <2>9 DEF RunnerNext, ExecuteStep
<1>7. GetReadLog(r) \/ GetReadLogAgain(r)
  <2>1. runs[r] # IdleRun
    BY DEF IdleRun
  <2>2. CASE RunStorageFails(r)
    <3>1. PICK reply \in {"APPROVAL_UNAVAILABLE", "EXECUTION_UNAVAILABLE"} : Answer(r, reply)
      BY <2>2 DEF RunStorageFails
    <3>2. QED
      BY <1>5, <3>1 DEF Alarms
  <2>3. CASE RunCrashes(r)
    BY <1>1, <2>3 DEF RunCrashes, IdleRun, Alarms
  <2>4. QED
    BY <1>4, <1>6, <2>1, <2>2, <2>3
       DEF RunnerNext, BeginRun, ExecuteStep, ClaimTxn, CallNotSent, SendRequest, CallReturns,
           CompleteTxn, ReconcileStep, ReconcileTxn, ReconcileRead, GetStep, GetReadExecution,
           GetReadRow, RunReturns
<1>8. SUFFICES ASSUME Commitment(approvals[a]) = runs[r].seen, Len(log) <= MaxSequence
               PROVE  FALSE
  BY <1>2
<1>9. /\ VerifyAuditChain(log, runs[r].seen) /\ ProvenanceMatches(approvals[a])
      /\ ExecutionMatches(runs[r].execution, approvals[a])
      /\ runs[r].execution.status \notin Alarms
  BY <1>8, GetFindsAllInOrder
<1>10. CASE GetReadLog(r)
  <2>1. runs' = [runs EXCEPT ![r].pc = "get_log_again"]
    BY <1>9, <1>10 DEF GetReadLog
  <2>2. runs'[r].reply = "none"
    BY <1>1, <2>1 DEF Runs
  <2>3. QED
    BY <2>2 DEF Alarms
<1>11. CASE GetReadLogAgain(r)
  <2>1. Answer(r, runs[r].execution.status)
    BY <1>9, <1>11 DEF GetReadLogAgain
  <2>2. QED
    BY <1>5, <1>9, <2>1
<1>12. QED
  BY <1>7, <1>10, <1>11

\* ExecutionService.get reads the execution, the row and the log in separate
\* statements; it raises an integrity error only when the log moved under it or
\* outgrew its numbering, never because an execution and its hash disagree.
THEOREM GetAlarmsHaveACause == Spec => GetAlarmHasACause
<1> DEFINE Caused == \A r \in Runners :
       LET a == runs[r].approval_id IN
       /\ runs[r].pc \in {"get_log", "get_log_again"}
       /\ runs'[r].reply \in {"EXECUTION_INTEGRITY_FAILURE", "APPROVAL_PROVENANCE_INVALID"}
       => \/ Commitment(approvals[a]) # runs[r].seen
          \/ Len(audit[a]) > MaxSequence
<1>1. ExecutionInv /\ RunsTold /\ [Next]_vars => Caused
  BY GetAlarmCaused DEF Alarms
<1>2. QED
  BY <1>1, ExecutionInvariant, RunsToldInvariant, PTL DEF Spec, GetAlarmHasACause
=============================================================================
