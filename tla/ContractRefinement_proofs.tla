---------------------- MODULE ContractRefinement_proofs ----------------------
(***************************************************************************)
(* The approval and execution boundaries implement PlatformContract, for   *)
(* any number of approvals, clients and runners: the initial tables stand  *)
(* for the contract's initial state, and every step of a caller or of the  *)
(* provider is one step of the contract or changes nothing of it.          *)
(***************************************************************************)
EXTENDS ContractRefinement, ExecutionAudit_proofs

-----------------------------------------------------------------------------
(* The five variables of the contract, as the tables stand for them.       *)

Decisions == [a \in ApprovalIds |-> DecisionOf(approvals[a].status)]
Spents == [a \in ApprovalIds |-> Executed(a)]
Effects == [a \in ApprovalIds |-> EffectOf(requests[a])]
Verdicts == [a \in ApprovalIds |-> VerdictOf(executions[a].status)]
Opinions == [a \in ApprovalIds |-> OpinionOf(assessments[a].outcome)]

\* The decision on one approval moves.
LEMMA DecisionMoves ==
  ASSUME NEW a \in ApprovalIds, NEW v, DecisionOf(approvals'[a].status) = v,
         \A b \in ApprovalIds : b # a => approvals'[b].status = approvals[b].status
  PROVE  Decisions' = [Decisions EXCEPT ![a] = v]
BY DEF Decisions

\* A permit is spent.
LEMMA SpentMoves ==
  ASSUME NEW a \in ApprovalIds, executions'[a].status # "ABSENT",
         \A b \in ApprovalIds : b # a => executions'[b] = executions[b]
  PROVE  Spents' = [Spents EXCEPT ![a] = TRUE]
BY Zenon DEF Spents, Executed

\* The provider is asked, or does something.
LEMMA EffectMoves ==
  ASSUME NEW a \in ApprovalIds, NEW v, EffectOf(requests'[a]) = v,
         \A b \in ApprovalIds : b # a => requests'[b] = requests[b]
  PROVE  Effects' = [Effects EXCEPT ![a] = v]
BY DEF Effects

\* An outcome is recorded.
LEMMA VerdictMoves ==
  ASSUME NEW a \in ApprovalIds, NEW v, VerdictOf(executions'[a].status) = v,
         \A b \in ApprovalIds : b # a => executions'[b] = executions[b]
  PROVE  Verdicts' = [Verdicts EXCEPT ![a] = v]
BY DEF Verdicts

\* An assessment is stored.
LEMMA OpinionMoves ==
  ASSUME NEW a \in ApprovalIds, NEW v, OpinionOf(assessments'[a].outcome) = v,
         \A b \in ApprovalIds : b # a => assessments'[b] = assessments[b]
  PROVE  Opinions' = [Opinions EXCEPT ![a] = v]
BY DEF Opinions

\* Where the statuses, requests and outcomes stay, so does the contract.
LEMMA MapUnmoved ==
  /\ (\A b \in ApprovalIds : approvals'[b].status = approvals[b].status) =>
       Decisions' = Decisions
  /\ (\A b \in ApprovalIds : executions'[b].status # "ABSENT" <=> executions[b].status # "ABSENT") =>
       Spents' = Spents
  /\ (\A b \in ApprovalIds : VerdictOf(executions'[b].status) = VerdictOf(executions[b].status)) =>
       Verdicts' = Verdicts
  /\ UNCHANGED executions => Spents' = Spents /\ Verdicts' = Verdicts
  /\ UNCHANGED requests => Effects' = Effects
  /\ UNCHANGED assessments => Opinions' = Opinions
<1>1. (\A b \in ApprovalIds : approvals'[b].status = approvals[b].status) =>
        Decisions' = Decisions
  BY DEF Decisions
<1>2. (\A b \in ApprovalIds : executions'[b].status # "ABSENT" <=> executions[b].status # "ABSENT") =>
        Spents' = Spents
  BY Zenon DEF Spents, Executed
<1>3. (\A b \in ApprovalIds : VerdictOf(executions'[b].status) = VerdictOf(executions[b].status)) =>
        Verdicts' = Verdicts
  BY DEF Verdicts
<1>4. UNCHANGED executions => Spents' = Spents /\ Verdicts' = Verdicts
  BY DEF Spents, Verdicts, Executed
<1>5. (UNCHANGED requests => Effects' = Effects) /\ (UNCHANGED assessments => Opinions' = Opinions)
  BY DEF Effects, Opinions
<1>6. QED
  BY <1>1, <1>2, <1>3, <1>4, <1>5

\* The contract's steps, said of the tables.
ContractStep == [Contract!ContractNext]_(Contract!contractVars)

\* Nothing of the contract changes.
LEMMA ContractStutters ==
  ASSUME Decisions' = Decisions, Spents' = Spents, Effects' = Effects, Verdicts' = Verdicts,
         Opinions' = Opinions
  PROVE  ContractStep
BY DEF ContractStep, Contract!contractVars, Decisions, Spents, Effects, Verdicts, Opinions

-----------------------------------------------------------------------------
(* The approval boundary: Open, Settle or nothing.                         *)

\* A transaction of the approval boundary writes to one row.
LEMMA ApprovalTouchesOne ==
  ASSUME Tables, [ApprovalNext]_approvalVars
  PROVE  \E a : \A b \in ApprovalIds : b # a => approvals'[b] = approvals[b]
<1> DEFINE One == \E a : \A b \in ApprovalIds : b # a => approvals'[b] = approvals[b]
<1>1. ASSUME NEW a, NEW row, NEW type, NEW status, NEW detail,
             AppendAudit(a, row, type, status, detail)
      PROVE  One
  BY <1>1 DEF AppendAudit, Tables
<1>2. UNCHANGED approvals => One
  OBVIOUS
<1> HIDE DEF One
<1>3. ASSUME NEW c \in Clients, CreateTxn(c)
      PROVE  One
  BY <1>1, <1>2, <1>3 DEF CreateTxn, Refuse
<1>4. ASSUME NEW c \in Clients, GetTxn(c)
      PROVE  One
  BY <1>1, <1>2, <1>4 DEF GetTxn, CannotOpen, Refuse, Expire
<1>5. ASSUME NEW c \in Clients, TransitionTxn(c)
      PROVE  One
  BY <1>1, <1>2, <1>5 DEF TransitionTxn, CannotOpen, Refuse, ExpireInstead, Expire,
                          LogRejectedTransition, Decide
<1>6. ASSUME NEW c \in Clients,
             VerifyReadRow(c) \/ VerifyReadLog(c) \/ Return(c) \/ StorageFails(c) \/ Crash(c)
      PROVE  One
  BY <1>2, <1>6 DEF VerifyReadRow, VerifyReadLog, Return, StorageFails, Crash
<1>7. ASSUME NEW c \in Clients, NEW a \in ApprovalIds,
             \/ \E request \in Requests : BeginCreate(c, a, request)
             \/ \E op \in ClientOps : Begin(c, op, a)
      PROVE  One
  BY <1>2, <1>7 DEF BeginCreate, Begin
<1>8. Tick \/ UNCHANGED approvalVars => One
  BY <1>2 DEF Tick, approvalVars
<1>9. One
  BY <1>3, <1>4, <1>5, <1>6, <1>7, <1>8 DEF ApprovalNext, CallStep
<1>10. QED
  BY <1>9 DEF One

\* The status of a row stays, or goes from absent to PENDING, or from PENDING to a
\* decision: a log grows by one event at most, and how long it is says how far the
\* approval has come.
LEMMA ApprovalStatusMoves ==
  ASSUME ApprovalInv, [ApprovalNext]_approvalVars, NEW b \in ApprovalIds
  PROVE  \/ approvals'[b].status = approvals[b].status
         \/ approvals[b].status = "ABSENT" /\ approvals'[b].status = "PENDING"
         \/ approvals[b].status = "PENDING" /\ approvals'[b].status \in TerminalStatuses
<1>1. Tables /\ TableStep
  BY ApprovalInvStep DEF ApprovalInv
<1>2. /\ RowInv(approvals[b], audit[b]) /\ RowInv(approvals'[b], audit'[b])
      /\ RowStep(approvals[b], audit[b], approvals'[b], audit'[b])
  BY <1>1 DEF TableStep, Tables
<1>3. /\ approvals[b].status \in ApprovalStatuses /\ approvals'[b].status \in ApprovalStatuses
      /\ audit[b] \in Seq(AuditRows) /\ audit'[b] \in Seq(AuditRows)
  BY <1>2 DEF RowInv, Rows
<1>4. Len(audit[b]) \in Nat /\ (Len(audit'[b]) = Len(audit[b]) \/ Len(audit'[b]) = Len(audit[b]) + 1)
  BY <1>1, <1>3, ApprovalLogs DEF OneMore
<1>5. CASE approvals[b].status = "ABSENT"
  <2>1. Len(audit[b]) = 0
    BY <1>2, <1>5 DEF RowInv, History
  <2>2. ~(Len(audit'[b]) >= 2)
    <3> DEFINE n == Len(audit'[b])
    <3>1. n = 0 \/ n = 1
      BY <1>4, <2>1
    <3> HIDE DEF n
    <3>2. ~(n >= 2)
      BY <3>1
    <3>3. QED
      BY <3>2 DEF n
  <2>3. approvals'[b].status \notin TerminalStatuses
    BY <1>2, <2>2 DEF RowInv, History
  <2>4. QED
    BY <1>3, <1>5, <2>3 DEF ApprovalStatuses
<1>6. CASE approvals[b].status = "PENDING"
  BY <1>2, <1>3, <1>6 DEF RowStep, ApprovalStatuses
<1>7. CASE approvals[b].status \in TerminalStatuses
  BY <1>2, <1>7 DEF RowStep, Fixed
<1>8. QED
  BY <1>3, <1>5, <1>6, <1>7 DEF ApprovalStatuses

\* create is Open; approve, reject and an expiry are Settle.
LEMMA ApprovalStepMaps ==
  ASSUME ExecutionInv, [ApprovalNext]_approvalVars, UNCHANGED executionVars
  PROVE  ContractStep
<1>1. /\ Spents' = Spents /\ Effects' = Effects /\ Verdicts' = Verdicts
      /\ Opinions' = Opinions
  BY MapUnmoved DEF executionVars
<1>2. PICK a : \A b \in ApprovalIds : b # a => approvals'[b] = approvals[b]
  BY ApprovalTouchesOne DEF ExecutionInv, ApprovalInv
<1>3. CASE a \notin ApprovalIds \/ approvals'[a].status = approvals[a].status
  <2>1. \A b \in ApprovalIds : approvals'[b].status = approvals[b].status
    BY <1>2, <1>3
  <2>2. Decisions' = Decisions
    BY <2>1, MapUnmoved
  <2>3. QED
    BY <1>1, <2>2, ContractStutters
<1>4. CASE a \in ApprovalIds /\ approvals'[a].status # approvals[a].status
  <2> DEFINE v == DecisionOf(approvals'[a].status)
  <2>1. Decisions' = [Decisions EXCEPT ![a] = v]
    BY <1>2, <1>4, DecisionMoves
  <2>2. \/ approvals[a].status = "ABSENT" /\ approvals'[a].status = "PENDING"
        \/ approvals[a].status = "PENDING" /\ approvals'[a].status \in TerminalStatuses
    BY <1>4, ApprovalStatusMoves DEF ExecutionInv
  <2>3. \/ Decisions[a] = "none" /\ v = "open"
        \/ Decisions[a] = "open" /\ v \in {"granted", "refused"}
    BY <1>4, <2>2 DEF Decisions, DecisionOf, TerminalStatuses
  <2> HIDE DEF v
  <2>4. \/ Contract!Open(a)
        \/ \E outcome \in {"granted", "refused"} : Contract!Settle(a, outcome)
    BY <1>1, <2>1, <2>3 DEF Contract!Open, Contract!Settle, Decisions, Spents, Effects,
                            Verdicts, Opinions
  <2>5. QED
    BY <1>4, <2>4 DEF ContractStep, Contract!ContractNext
<1>5. QED
  BY <1>3, <1>4

-----------------------------------------------------------------------------
(* The execution boundary: Spend, Ask, Happen, Conclude, Assess or nothing. *)

\* claim, complete and reconcile append to the log of an approval that is granted.
LEMMA ExecutionTables ==
  ASSUME ExecutionInv, NEW r \in Runners, ClaimTxn(r) \/ CompleteTxn(r) \/ ReconcileTxn(r)
  PROVE  TableStep
<1> DEFINE a == runs[r].approval_id
<1>1. /\ a \in ApprovalIds /\ Tables
      /\ runs[r].failure \in Failures
      /\ runs[r].pc = "reconcile" => runs[r].outcome \in ReconciliationOutcomes
  BY DEF ClaimTxn, CompleteTxn, ReconcileTxn, ExecutionInv, RunsOK, RunShape, Runs, ApprovalInv
<1>2. CASE UNCHANGED <<approvals, audit>>
  BY <1>1, <1>2, SameTables
<1>3. CASE ClaimError(a, runs[r].now) = "none" /\ AppendClaimEvents(a)
  BY <1>1, <1>3, ClaimChecked, AppendClaimEventsOK
<1>4. ASSUME NEW type \in NoteTypes, NEW status \in AuditStatuses, NEW detail \in Details,
             Executed(a), AppendAudit(a, approvals[a], type, status, detail)
      PROVE  TableStep
  <2>1. approvals[a].status \in TerminalStatuses
    BY <1>1, <1>4 DEF ExecutionInv, ExecutionsOK, Permitted, TerminalStatuses
  <2>2. QED
    BY <1>1, <1>4, <2>1, NoteOK
<1>5. CASE CompleteTxn(r)
  <2> DEFINE status == StatusFor(runs[r].failure)
             category == FAILURE_MAP[runs[r].failure.category]
  <2>1. status \in CompletedStatuses /\ category \in FailureCategories
    BY <1>1, OutcomeType
  <2>2. \/ UNCHANGED <<approvals, audit>>
        \/ /\ executions[a].status = "CLAIMED"
           /\ AppendAudit(a, approvals[a], CompletionEvent(status), status,
                          CategoryDetail(category))
    BY <1>5 DEF CompleteTxn, Decline
  <2> HIDE DEF status, category
  <2>3. /\ CompletionEvent(status) \in NoteTypes /\ status \in AuditStatuses
        /\ CategoryDetail(category) \in Details
    BY <2>1 DEF CompletedStatuses, CompletionEvent, NoteTypes, AuditEventTypes, DecisionEvents,
                AuditStatuses, Details
  <2>4. QED
    BY <1>2, <1>4, <2>2, <2>3 DEF Executed
<1>6. CASE ReconcileTxn(r)
  <2> DEFINE hash == executions[a].integrity_hash
             detail == AssessmentHash(runs[r].outcome, hash)
  <2>1. \/ UNCHANGED <<approvals, audit>>
        \/ /\ executions[a].status = "UNKNOWN"
           /\ AppendAudit(a, approvals[a], "RECONCILIATION_RECORDED", "UNKNOWN", detail)
    BY <1>6 DEF ReconcileTxn, Decline
  <2>2. ASSUME executions[a].status = "UNKNOWN"
        PROVE  detail \in Details
    <3>1. /\ executions[a] \in Executions /\ HashMatches(executions[a])
          /\ Permitted(approvals[a], audit[a], executions[a])
      BY <1>1, <2>2 DEF ExecutionInv, ExecutionsOK, ExecutionOK, Executed
    <3>2. hash \in ExecutionHashes
      BY <2>2, <3>1 DEF Permitted, Executions, HashMatches, ExecutionHash, ExecutionHashes,
                        ExecutionStatuses
    <3>3. runs[r].outcome \in ReconciliationOutcomes
      BY <1>1, <1>6 DEF ReconcileTxn
    <3>4. QED
      BY <3>2, <3>3 DEF AssessmentHash, Details
  <2>3. "RECONCILIATION_RECORDED" \in NoteTypes /\ "UNKNOWN" \in AuditStatuses
    BY DEF NoteTypes, AuditEventTypes, DecisionEvents, AuditStatuses
  <2> HIDE DEF detail
  <2>4. QED
    BY <1>2, <1>4, <2>1, <2>2, <2>3 DEF Executed
<1>7. QED
  BY <1>2, <1>3, <1>5, <1>6 DEF ClaimTxn, Decline

\* They leave every approval as decided, or as undecided, as it is.
LEMMA ExecutionKeepsStatuses ==
  ASSUME ExecutionInv, NEW r \in Runners, ClaimTxn(r) \/ CompleteTxn(r) \/ ReconcileTxn(r)
  PROVE  \A b \in ApprovalIds : approvals'[b].status = approvals[b].status
<1> DEFINE a == runs[r].approval_id
<1>1. TableStep
  BY ExecutionTables
<1>2. \A b \in ApprovalIds : b # a => approvals'[b] = approvals[b]
  BY DEF ClaimTxn, CompleteTxn, ReconcileTxn, Decline, AppendClaimEvents, AppendAudit,
         ExecutionInv, ApprovalInv, Tables
<1>3. approvals'[a].status = approvals[a].status
  <2>1. a \in ApprovalIds
    BY DEF ClaimTxn, CompleteTxn, ReconcileTxn, ExecutionInv, RunsOK, RunShape
  <2>2. CASE UNCHANGED approvals
    BY <2>2
  <2>3. CASE approvals[a].status = "APPROVED"
    BY <1>1, <2>1, <2>3 DEF TableStep, RowStep, Fixed, TerminalStatuses
  <2>4. CASE Executed(a)
    BY <2>1, <2>3, <2>4 DEF ExecutionInv, ExecutionsOK, Permitted
  <2>5. QED
    BY <2>2, <2>3, <2>4, ClaimChecked
       DEF ClaimTxn, CompleteTxn, ReconcileTxn, Decline, Executed
<1>4. QED
  BY <1>2, <1>3

\* So they leave every decision of the contract as it is.
LEMMA ExecutionDecidesNothing ==
  ASSUME ExecutionInv, NEW r \in Runners, ClaimTxn(r) \/ CompleteTxn(r) \/ ReconcileTxn(r)
  PROVE  Decisions' = Decisions
BY ExecutionKeepsStatuses, MapUnmoved

\* claim is Spend: the permit goes before anything is asked.
LEMMA ClaimMaps ==
  ASSUME ExecutionInv, NEW r \in Runners, ClaimTxn(r)
  PROVE  ContractStep
<1> DEFINE a == runs[r].approval_id
           x == ClaimedExecution(runs[r].now)
<1>1. Decisions' = Decisions
  BY ExecutionDecidesNothing
<1>2. CASE UNCHANGED <<executions, assessments, requests>>
  BY <1>1, <1>2, MapUnmoved, ContractStutters
<1>3. CASE /\ ClaimError(a, runs[r].now) = "none"
           /\ executions' = [executions EXCEPT ![a] = x]
           /\ UNCHANGED <<assessments, requests>>
  <2>1. a \in ApprovalIds
    BY DEF ClaimTxn, ExecutionInv, RunsOK, RunShape
  <2>2. approvals[a].status = "APPROVED" /\ executions[a].status = "ABSENT"
    BY <1>3, ClaimChecked DEF Executed
  <2>3. x.status = "CLAIMED"
    BY DEF ClaimedExecution
  <2> HIDE DEF x
  <2>4. executions'[a] = x /\ \A b \in ApprovalIds : b # a => executions'[b] = executions[b]
    BY <1>3, <2>1 DEF ExecutionInv, ExecutionsOK
  <2>5. Spents' = [Spents EXCEPT ![a] = TRUE]
    <3>1. executions'[a].status # "ABSENT"
      BY <2>3, <2>4
    <3>2. QED
      BY <2>1, <2>4, <3>1, SpentMoves
  <2>6. \A b \in ApprovalIds : VerdictOf(executions'[b].status) = VerdictOf(executions[b].status)
    BY <2>2, <2>3, <2>4 DEF VerdictOf
  <2>7. Verdicts' = Verdicts /\ Effects' = Effects /\ Opinions' = Opinions
    BY <1>3, <2>6, MapUnmoved
  <2>8. Decisions[a] = "granted" /\ ~Executed(a)
    BY <2>1, <2>2 DEF Decisions, DecisionOf, Executed
  <2>9. ~Spents[a]
    BY <2>1, <2>8, Zenon DEF Spents
  <2>10. Contract!Spend(a)
    BY <1>1, <2>5, <2>7, <2>8, <2>9, Zenon
       DEF Contract!Spend, Decisions, Spents, Effects, Verdicts, Opinions
  <2>11. QED
    BY <2>1, <2>10 DEF ContractStep, Contract!ContractNext
<1>4. QED
  BY <1>2, <1>3 DEF ClaimTxn, Decline

\* The POST is Ask: on a spent permit, once, before the verdict.
LEMMA SendMaps ==
  ASSUME ExecutionInv, NEW r \in Runners, SendRequest(r)
  PROVE  ContractStep
<1> DEFINE a == runs[r].approval_id
           sent == Append(requests[a], "sent")
<1>1. /\ a \in ApprovalIds /\ executions[a].status = "CLAIMED"
      /\ requests[a] \in Seq(RequestStates) /\ Len(requests[a]) = 0
  BY DEF SendRequest, ExecutionInv, RunsOK, RunShape, RunTables, Holding, ExecutionsOK
<1>2. requests[a] = <<>>
  BY <1>1
<1>3. sent = <<"sent">>
  BY <1>2
<1>4. /\ requests' = [requests EXCEPT ![a] = sent]
      /\ UNCHANGED <<approvals, executions, assessments>>
  BY DEF SendRequest
<1> HIDE DEF sent
<1>5. requests'[a] = sent /\ \A b \in ApprovalIds : b # a => requests'[b] = requests[b]
  BY <1>1, <1>4 DEF ExecutionInv, ExecutionsOK
<1>6. Decisions' = Decisions /\ Spents' = Spents /\ Verdicts' = Verdicts /\ Opinions' = Opinions
  BY <1>4, MapUnmoved
<1>7. EffectOf(<<>>) = "none" /\ EffectOf(<<"sent">>) = "asked"
  BY DEF EffectOf
<1>8. Effects' = [Effects EXCEPT ![a] = "asked"]
  BY <1>1, <1>3, <1>5, <1>7, EffectMoves
<1>9. Effects[a] = "none" /\ Verdicts[a] = "none"
  BY <1>1, <1>2, <1>7 DEF Effects, Verdicts, VerdictOf
<1>10. Executed(a)
  BY <1>1 DEF Executed
<1>11. Spents[a]
  BY <1>1, <1>10, Zenon DEF Spents
<1>12. Contract!Ask(a)
  BY <1>6, <1>8, <1>9, <1>11, Zenon
     DEF Contract!Ask, Decisions, Spents, Effects, Verdicts, Opinions
<1>13. QED
  BY <1>1, <1>12 DEF ContractStep, Contract!ContractNext

\* The provider settling a request is Happen, however late.
LEMMA SettleMaps ==
  ASSUME ExecutionInv, NEW a \in ApprovalIds, NEW what \in {"applied", "refused"},
         ProviderSettles(a, what)
  PROVE  ContractStep
<1>1. PICK n : /\ n \in 1..Len(requests[a])
               /\ requests[a][n] = "sent"
               /\ requests' = [requests EXCEPT ![a][n] = what]
  BY DEF ProviderSettles
<1> DEFINE sent == [requests[a] EXCEPT ![n] = what]
<1>2. requests[a] \in Seq(RequestStates) /\ Len(requests[a]) \in Nat /\ Len(requests[a]) <= 1
  BY DEF ExecutionInv, ExecutionsOK, ExecutionOK
<1>3. Len(requests[a]) = 1 /\ n = 1
  <2>1. n \in 1..Len(requests[a])
    BY <1>1
  <2>2. \A k \in Nat : k <= 1 /\ n \in 1..k => k = 1 /\ n = 1
    OBVIOUS
  <2>3. QED
    BY <1>2, <2>1, <2>2
<1>4. requests[a] = <<"sent">>
  <2>1. requests[a][1] = "sent"
    BY <1>1, <1>3
  <2>2. QED
    BY <1>2, <1>3, <2>1
<1>5. sent = <<what>>
  <2>1. sent \in Seq(RequestStates) /\ Len(sent) = 1 /\ sent[1] = what
    BY <1>2, <1>3 DEF RequestStates
  <2> HIDE DEF sent
  <2>2. QED
    BY <2>1
<1>6. /\ requests' = [requests EXCEPT ![a] = sent]
      /\ UNCHANGED <<approvals, executions, assessments>>
  BY <1>1 DEF ProviderSettles
<1> HIDE DEF sent
<1>7. requests'[a] = sent /\ \A b \in ApprovalIds : b # a => requests'[b] = requests[b]
  BY <1>6 DEF ExecutionInv, ExecutionsOK
<1>8. Decisions' = Decisions /\ Spents' = Spents /\ Verdicts' = Verdicts /\ Opinions' = Opinions
  BY <1>6, MapUnmoved
<1>9. EffectOf(<<"sent">>) = "asked" /\ EffectOf(<<what>>) = what
  BY DEF EffectOf
<1>10. Effects' = [Effects EXCEPT ![a] = what]
  BY <1>5, <1>7, <1>9, EffectMoves
<1>11. Effects[a] = "asked"
  BY <1>4, <1>9 DEF Effects
<1>12. Contract!Happen(a, what)
  BY <1>8, <1>10, <1>11, Zenon
     DEF Contract!Happen, Decisions, Spents, Effects, Verdicts, Opinions
<1>13. QED
  BY <1>12 DEF ContractStep, Contract!ContractNext

\* complete is Conclude: "succeeded" is said of what the provider applied.
LEMMA CompleteMaps ==
  ASSUME ExecutionInv, NEW r \in Runners, CompleteTxn(r)
  PROVE  ContractStep
<1> DEFINE a == runs[r].approval_id
           failure == runs[r].failure
           status == StatusFor(failure)
           category == FAILURE_MAP[failure.category]
           y == CompletedExecution(executions[a], status, category)
           v == VerdictOf(status)
<1>1. Decisions' = Decisions
  BY ExecutionDecidesNothing
<1>2. CASE UNCHANGED <<executions, assessments, requests>>
  BY <1>1, <1>2, MapUnmoved, ContractStutters
<1>3. CASE /\ executions' = [executions EXCEPT ![a] = y]
           /\ UNCHANGED <<assessments, requests>>
  <2>1. /\ a \in ApprovalIds /\ failure \in Failures /\ executions[a].status = "CLAIMED"
        /\ executions[a] \in Executions /\ requests[a] \in Seq(RequestStates)
        /\ FailureTrue(failure, requests[a])
    BY DEF CompleteTxn, ExecutionInv, RunsOK, RunShape, RunTables, Holding, Runs, ExecutionsOK
  <2>2. status \in CompletedStatuses /\ (status = "SUCCEEDED" => failure = NoFailure)
    BY <2>1, OutcomeType
  <2> HIDE DEF status, category
  <2>3. y.status = status
    BY <2>1 DEF CompletedExecution, Executions
  <2> HIDE DEF y
  <2>4. executions'[a] = y /\ \A b \in ApprovalIds : b # a => executions'[b] = executions[b]
    BY <1>3, <2>1 DEF ExecutionInv, ExecutionsOK
  <2>5. Verdicts' = [Verdicts EXCEPT ![a] = v]
    BY <2>1, <2>3, <2>4, VerdictMoves
  <2>6. \A b \in ApprovalIds : executions'[b].status # "ABSENT" <=> executions[b].status # "ABSENT"
    BY <2>1, <2>2, <2>3, <2>4 DEF CompletedStatuses
  <2>7. Spents' = Spents
    BY <2>6, MapUnmoved
  <2>8. Effects' = Effects /\ Opinions' = Opinions
    BY <1>3, MapUnmoved
  <2>9. v \in {"succeeded", "failed", "unknown"} /\ (v = "succeeded" => status = "SUCCEEDED")
    BY <2>2 DEF VerdictOf, CompletedStatuses
  <2> HIDE DEF v
  <2>10. v = "succeeded" => Effects[a] = "applied"
    <3>1. ASSUME v = "succeeded"
          PROVE  Len(requests[a]) = 1 /\ requests[a][1] = "applied"
      BY <2>1, <2>2, <2>9, <3>1 DEF FailureTrue
    <3>2. ASSUME v = "succeeded"
          PROVE  requests[a] = <<"applied">>
      BY <2>1, <3>1, <3>2
    <3>3. EffectOf(<<"applied">>) = "applied"
      BY DEF EffectOf
    <3>4. QED
      BY <2>1, <3>2, <3>3 DEF Effects
  <2>11. Verdicts[a] = "none" /\ Executed(a)
    BY <2>1 DEF Verdicts, VerdictOf, Executed
  <2>12. Spents[a]
    BY <2>1, <2>11, Zenon DEF Spents
  <2>13. Contract!Conclude(a, v)
    BY <1>1, <2>5, <2>7, <2>8, <2>10, <2>11, <2>12, Zenon
       DEF Contract!Conclude, Decisions, Spents, Effects, Verdicts, Opinions
  <2>14. QED
    BY <2>1, <2>9, <2>13 DEF ContractStep, Contract!ContractNext
<1>4. QED
  BY <1>2, <1>3 DEF CompleteTxn, Decline

\* reconcile is Assess: one opinion on an unknown verdict.
LEMMA ReconcileMaps ==
  ASSUME ExecutionInv, NEW r \in Runners, ReconcileTxn(r)
  PROVE  ContractStep
<1> DEFINE a == runs[r].approval_id
           outcome == runs[r].outcome
           t == [outcome |-> outcome, original_hash |-> executions[a].integrity_hash]
<1>1. Decisions' = Decisions
  BY ExecutionDecidesNothing
<1>2. CASE UNCHANGED <<executions, assessments, requests>>
  BY <1>1, <1>2, MapUnmoved, ContractStutters
<1>3. CASE /\ executions[a].status = "UNKNOWN"
           /\ assessments[a] = NoAssessment
           /\ assessments' = [assessments EXCEPT ![a] = t]
           /\ UNCHANGED <<executions, requests>>
  <2>1. a \in ApprovalIds /\ outcome \in ReconciliationOutcomes
    BY DEF ReconcileTxn, ExecutionInv, RunsOK, RunShape
  <2>2. t.outcome = outcome
    OBVIOUS
  <2> HIDE DEF t
  <2>3. assessments'[a] = t /\ \A b \in ApprovalIds : b # a => assessments'[b] = assessments[b]
    BY <1>3, <2>1 DEF ExecutionInv, ExecutionsOK
  <2>4. OpinionOf(outcome) = outcome
    BY <2>1 DEF OpinionOf, ReconciliationOutcomes
  <2>5. Opinions' = [Opinions EXCEPT ![a] = outcome]
    BY <2>1, <2>2, <2>3, <2>4, OpinionMoves
  <2>6. Spents' = Spents /\ Verdicts' = Verdicts /\ Effects' = Effects
    BY <1>3, MapUnmoved
  <2>7. Opinions[a] = "none" /\ Verdicts[a] = "unknown"
    BY <1>3, <2>1 DEF Opinions, OpinionOf, NoAssessment, Verdicts, VerdictOf
  <2>8. Contract!Assess(a, outcome)
    BY <1>1, <2>5, <2>6, <2>7, Zenon
       DEF Contract!Assess, Decisions, Spents, Effects, Verdicts, Opinions
  <2>9. outcome \in {"SUCCEEDED", "FAILED"}
    BY <2>1 DEF ReconciliationOutcomes
  <2>10. QED
    BY <2>1, <2>8, <2>9 DEF ContractStep, Contract!ContractNext
<1>4. QED
  BY <1>2, <1>3 DEF ReconcileTxn, Decline

\* Every other step of a runner changes nothing of the contract.
LEMMA SilentStepMaps ==
  ASSUME UNCHANGED <<approvals, executions, assessments, requests>>
  PROVE  ContractStep
<1>1. Decisions' = Decisions
  BY DEF Decisions
<1>2. Spents' = Spents /\ Effects' = Effects /\ Verdicts' = Verdicts /\ Opinions' = Opinions
  BY MapUnmoved
<1>3. QED
  BY <1>1, <1>2, ContractStutters

-----------------------------------------------------------------------------
(* The refinement.                                                         *)

\* Empty tables stand for the contract's initial state.
LEMMA ContractInitMaps == Init => Contract!ContractInit
<1> SUFFICES ASSUME Init PROVE Contract!ContractInit
  OBVIOUS
<1>1. ASSUME NEW a \in ApprovalIds
      PROVE  /\ DecisionOf(approvals[a].status) = "none"
             /\ EffectOf(requests[a]) = "none"
             /\ VerdictOf(executions[a].status) = "none"
             /\ OpinionOf(assessments[a].outcome) = "none"
  BY DEF Init, ApprovalInit, NoRow, NoExecution, NoAssessment, DecisionOf, EffectOf, VerdictOf,
         OpinionOf
<1>2. ASSUME NEW a \in ApprovalIds
      PROVE  Executed(a) = FALSE
  BY DEF Init, NoExecution, Executed
<1>3. [a \in ApprovalIds |-> Executed(a)] = [a \in ApprovalIds |-> FALSE]
  BY <1>2, Zenon
<1>4. QED
  BY <1>1, <1>3 DEF Contract!ContractInit

\* Every step of every client, runner and of the provider is a step of the contract
\* or a stuttering one.
LEMMA NextMaps ==
  ASSUME ExecutionInv, [Next]_vars
  PROVE  ContractStep
<1>1. CASE ApprovalNext /\ UNCHANGED executionVars
  BY <1>1, ApprovalStepMaps
<1>2. CASE UNCHANGED vars
  BY <1>2, SilentStepMaps DEF vars
<1>3. CASE ProviderNext
  BY <1>3, SettleMaps DEF ProviderNext
<1>4. ASSUME NEW r \in Runners, RunnerNext(r)
      PROVE  ContractStep
  <2>1. CASE UNCHANGED <<approvals, executions, assessments, requests>>
    BY <2>1, SilentStepMaps
  <2>2. ASSUME NEW a, NEW op, NEW outcome, BeginRun(r, op, a, outcome)
        PROVE  ContractStep
    BY <2>1, <2>2 DEF BeginRun
  <2>3. CASE CallNotSent(r) \/ CallReturns(r) \/ ReconcileRead(r) \/ GetStep(r)
    BY <2>1, <2>3 DEF CallNotSent, CallReturns, ReconcileRead, GetStep, GetReadExecution,
                      GetReadRow, GetReadLog, GetReadLogAgain
  <2>4. CASE RunReturns(r) \/ RunStorageFails(r) \/ RunCrashes(r)
    BY <2>1, <2>4 DEF RunReturns, RunStorageFails, RunCrashes
  <2>5. CASE ClaimTxn(r) \/ SendRequest(r) \/ CompleteTxn(r) \/ ReconcileTxn(r)
    BY <2>5, ClaimMaps, SendMaps, CompleteMaps, ReconcileMaps
  <2>6. QED
    BY <1>4, <2>2, <2>3, <2>4, <2>5 DEF RunnerNext, ExecuteStep, ReconcileStep
<1>5. QED
  BY <1>1, <1>2, <1>3, <1>4 DEF Next

\* The two boundaries implement the contract: one decision, one permit that is spent
\* before the provider is asked, one question, one true verdict, one opinion.
THEOREM BoundariesImplementContract == Spec => ImplementsContract
<1>1. ExecutionInv /\ [Next]_vars => [Contract!ContractNext]_(Contract!contractVars)
  BY NextMaps DEF ContractStep
<1>2. QED
  BY <1>1, ContractInitMaps, ExecutionInvariant, PTL
     DEF Spec, ImplementsContract, Contract!ContractSpec

-----------------------------------------------------------------------------
(* The promises of the approval boundary while executions write to the     *)
(* same rows and the same logs.                                            *)

\* Whoever steps, every row and log moves as the approval boundary lets them; and
\* whatever moves calls is the approval boundary.
LEMMA StepTables ==
  ASSUME ExecutionInv, [Next]_vars
  PROVE  TableStep /\ ([ApprovalNext]_approvalVars \/ UNCHANGED calls)
<1>1. Tables /\ ApprovalInv
  BY DEF ExecutionInv, ApprovalInv
<1>2. CASE ApprovalNext
  BY <1>1, <1>2, ApprovalInvStep
<1>3. ASSUME UNCHANGED <<approvals, audit, calls>>
      PROVE  TableStep /\ UNCHANGED calls
  BY <1>1, <1>3, SameTables
<1>4. ASSUME NEW r \in Runners, RunnerNext(r)
      PROVE  TableStep /\ UNCHANGED calls
  <2>1. ASSUME NEW a, NEW op, NEW outcome, BeginRun(r, op, a, outcome)
        PROVE  UNCHANGED <<approvals, audit, calls>>
    BY <2>1 DEF BeginRun, approvalVars
  <2>2. CASE CallNotSent(r) \/ SendRequest(r) \/ CallReturns(r) \/ ReconcileRead(r) \/ GetStep(r)
    BY <1>3, <2>2 DEF CallNotSent, SendRequest, CallReturns, ReconcileRead, GetStep,
                      GetReadExecution, GetReadRow, GetReadLog, GetReadLogAgain, approvalVars
  <2>3. CASE RunReturns(r) \/ RunStorageFails(r) \/ RunCrashes(r)
    BY <1>3, <2>3 DEF RunReturns, RunStorageFails, RunCrashes, approvalVars
  <2>4. CASE ClaimTxn(r) \/ CompleteTxn(r) \/ ReconcileTxn(r)
    BY <2>4, ExecutionTables DEF ClaimTxn, CompleteTxn, ReconcileTxn, Decline, approvalVars
  <2>5. QED
    BY <1>3, <1>4, <2>1, <2>2, <2>3, <2>4 DEF RunnerNext, ExecuteStep, ReconcileStep
<1>5. CASE ProviderNext
  BY <1>3, <1>5 DEF ProviderNext, ProviderSettles, approvalVars
<1>6. CASE UNCHANGED vars
  BY <1>3, <1>6 DEF vars
<1>7. QED
  BY <1>2, <1>4, <1>5, <1>6 DEF Next

\* A runner and the provider neither date a decision nor turn the clock.
LEMMA ClockStep ==
  ASSUME ExecutionInv, ClockInv, [Next]_vars
  PROVE  ClockInv'
<1>1. ApprovalInv /\ TableStep
  BY StepTables DEF ExecutionInv
<1>2. CASE ApprovalNext
  BY <1>1, <1>2, ClockInvStep
<1>3. ASSUME UNCHANGED <<clock, approvals, calls>>
      PROVE  ClockInv'
  BY <1>3 DEF ClockInv
<1>4. ASSUME NEW r \in Runners, RunnerNext(r)
      PROVE  ClockInv'
  <2>1. ASSUME NEW a, NEW op, NEW outcome, BeginRun(r, op, a, outcome)
        PROVE  ClockInv'
    BY <1>3, <2>1 DEF BeginRun, approvalVars
  <2>2. CASE CallNotSent(r) \/ SendRequest(r) \/ CallReturns(r) \/ ReconcileRead(r) \/ GetStep(r)
    BY <1>3, <2>2 DEF CallNotSent, SendRequest, CallReturns, ReconcileRead, GetStep,
                      GetReadExecution, GetReadRow, GetReadLog, GetReadLogAgain, approvalVars
  <2>3. CASE RunReturns(r) \/ RunStorageFails(r) \/ RunCrashes(r)
    BY <1>3, <2>3 DEF RunReturns, RunStorageFails, RunCrashes, approvalVars
  <2>4. CASE ClaimTxn(r) \/ CompleteTxn(r) \/ ReconcileTxn(r)
    <3>1. UNCHANGED <<clock, calls>>
      BY <2>4 DEF ClaimTxn, CompleteTxn, ReconcileTxn, Decline, approvalVars
    <3>2. \A b \in ApprovalIds : approvals'[b].status = approvals[b].status
      BY <2>4, ExecutionKeepsStatuses
    <3>3. \A b \in ApprovalIds : approvals[b].status \in TerminalStatuses =>
            approvals'[b].decided_at = approvals[b].decided_at
      BY <1>1 DEF TableStep, RowStep, Fixed
    <3>4. QED
      BY <3>1, <3>2, <3>3 DEF ClockInv
  <2>5. QED
    BY <1>4, <2>1, <2>2, <2>3, <2>4 DEF RunnerNext, ExecuteStep, ReconcileStep
<1>5. CASE ProviderNext
  BY <1>3, <1>5 DEF ProviderNext, ProviderSettles, approvalVars
<1>6. CASE UNCHANGED vars
  BY <1>3, <1>6 DEF vars
<1>7. QED
  BY <1>2, <1>4, <1>5, <1>6 DEF Next

\* What a caller of approve, reject, get or verify was told stays true when a runner
\* appends to the log.
LEMMA AnswersStep ==
  ASSUME ExecutionInv, AnswersInv, [Next]_vars
  PROVE  AnswersInv'
<1>1. Tables /\ CallsOK /\ TableStep /\ ApprovalInv
  BY StepTables DEF ExecutionInv, ApprovalInv
<1>2. CASE [ApprovalNext]_approvalVars
  BY <1>1, <1>2, AnswersInvStep
<1>3. CASE UNCHANGED calls
  <2>1. \A c \in Clients : calls[c].pc = "done" =>
          AnswerTrue(calls[c], approvals'[calls[c].approval_id], audit'[calls[c].approval_id])
    BY <1>1, AnswersStay
  <2>2. QED
    BY <1>3, <2>1 DEF AnswersInv, AnswerTrue, CallHistory, ToldItDecided
<1>4. QED
  BY <1>2, <1>3, StepTables

\* Claims, completions and assessments share a row's count, head and log with the
\* approval boundary, and break none of its promises: decisions asked for in time and no
\* early expiry, a log that tells them, and told decisions that stay true.
THEOREM ApprovalsHoldWithExecutions ==
  Spec => [](DecisionRespectsDeadline /\ AuditTellsTheHistory /\ AnswersHold)
<1>1. Init => AnswersInv /\ ClockInv
  BY AnswersInvInit, ClockInvInit DEF Init
<1>2. ExecutionInv /\ AnswersInv /\ ClockInv /\ [Next]_vars => AnswersInv' /\ ClockInv'
  BY AnswersStep, ClockStep
<1>3. ExecutionInv /\ ClockInv => DecisionRespectsDeadline /\ AuditTellsTheHistory
  BY ApprovalInvImplies, OnTimeByTheClock DEF ExecutionInv
<1>4. QED
  BY <1>1, <1>2, <1>3, AnswersInvImplies, ExecutionInvariant, PTL DEF Spec

\* Neither does an execution reopen or change a decision, or what it was made on.
THEOREM DecisionsAreFinalWithExecutions == Spec => DecisionIsFinal
<1> DEFINE Final == \A a \in ApprovalIds :
       /\ approvals[a].status \in TerminalStatuses => Fixed(approvals'[a]) = Fixed(approvals[a])
       /\ Exists(a) => /\ approvals'[a].provenance = approvals[a].provenance
                       /\ approvals'[a].action = approvals[a].action
                       /\ approvals'[a].expires_at = approvals[a].expires_at
                       /\ approvals'[a].status # "ABSENT"
<1>1. ExecutionInv /\ [Next]_vars => Final
  BY StepTables DEF TableStep, RowStep, Exists
<1>2. QED
  BY <1>1, ExecutionInvariant, PTL DEF Spec, DecisionIsFinal

-----------------------------------------------------------------------------
(* What the contract implies, and so what the two boundaries inherit.      *)

\* EffectsAreGranted and KeepsWhatIsSettled of the contract, in the names used here.
Histories ==
  \A a \in ApprovalIds :
    /\ Spents[a] => Decisions[a] = "granted"
    /\ Effects[a] # "none" => Spents[a]
    /\ Verdicts[a] # "none" => Spents[a]
    /\ Verdicts[a] = "succeeded" => Effects[a] = "applied"
    /\ Opinions[a] # "none" => Verdicts[a] = "unknown"

Keeps ==
  \A a \in ApprovalIds :
    /\ Decisions[a] \in {"granted", "refused"} => Decisions'[a] = Decisions[a]
    /\ Spents[a] => Spents'[a]
    /\ Effects[a] # "none" => Effects'[a] # "none"
    /\ Effects[a] \in {"applied", "refused"} => Effects'[a] = Effects[a]
    /\ Verdicts[a] # "none" => Verdicts'[a] = Verdicts[a]
    /\ Verdicts[a] # "none" /\ Effects[a] = "none" => Effects'[a] = "none"
    /\ Opinions[a] # "none" => Opinions'[a] = Opinions[a]

\* They are what the contract says of the rows, requests and assessments.
LEMMA ContractShapes ==
  /\ Contract!EffectsAreGranted <=> Histories
  /\ Contract!EffectsAreGranted' <=> Histories'
  /\ Contract!KeepsWhatIsSettled <=> Keeps
BY Zenon DEF Contract!EffectsAreGranted, Contract!KeepsWhatIsSettled, Histories, Keeps,
             Decisions, Spents, Effects, Verdicts, Opinions

\* Every step of the contract keeps the history behind an effect and what is settled.
LEMMA ContractStepKeeps ==
  ASSUME Contract!EffectsAreGranted, [Contract!ContractNext]_(Contract!contractVars)
  PROVE  Contract!EffectsAreGranted' /\ Contract!KeepsWhatIsSettled
<1>1. /\ DOMAIN Decisions = ApprovalIds /\ DOMAIN Spents = ApprovalIds
      /\ DOMAIN Effects = ApprovalIds /\ DOMAIN Verdicts = ApprovalIds
      /\ DOMAIN Opinions = ApprovalIds
  BY DEF Decisions, Spents, Effects, Verdicts, Opinions
<1>2. ASSUME UNCHANGED Contract!contractVars
      PROVE  Histories' /\ Keeps
  <2>1. UNCHANGED <<Decisions, Spents, Effects, Verdicts, Opinions>>
    BY <1>2, Zenon DEF Contract!contractVars, Decisions, Spents, Effects, Verdicts, Opinions
  <2>2. QED
    BY <2>1, ContractShapes DEF Histories, Keeps
<1>3. ASSUME NEW a \in ApprovalIds, Contract!Open(a)
      PROVE  Histories' /\ Keeps
  <2>1. /\ Decisions[a] = "none"
        /\ Decisions' = [Decisions EXCEPT ![a] = "open"]
        /\ UNCHANGED <<Spents, Effects, Verdicts, Opinions>>
    BY <1>3, Zenon DEF Contract!Open, Decisions, Spents, Effects, Verdicts, Opinions
  <2>2. QED
    BY <1>1, <1>3, <2>1, ContractShapes DEF Histories, Keeps
<1>4. ASSUME NEW a \in ApprovalIds, NEW outcome \in {"granted", "refused"}, Contract!Settle(a, outcome)
      PROVE  Histories' /\ Keeps
  <2>1. /\ Decisions[a] = "open"
        /\ Decisions' = [Decisions EXCEPT ![a] = outcome]
        /\ UNCHANGED <<Spents, Effects, Verdicts, Opinions>>
    BY <1>4, Zenon DEF Contract!Settle, Decisions, Spents, Effects, Verdicts, Opinions
  <2>2. QED
    BY <1>1, <1>4, <2>1, ContractShapes DEF Histories, Keeps
<1>5. ASSUME NEW a \in ApprovalIds, Contract!Spend(a)
      PROVE  Histories' /\ Keeps
  <2>1. /\ Decisions[a] = "granted" /\ ~Spents[a]
        /\ Spents' = [Spents EXCEPT ![a] = TRUE]
        /\ UNCHANGED <<Decisions, Effects, Verdicts, Opinions>>
    BY <1>5, Zenon DEF Contract!Spend, Decisions, Spents, Effects, Verdicts, Opinions
  <2>2. QED
    BY <1>1, <1>5, <2>1, ContractShapes DEF Histories, Keeps
<1>6. ASSUME NEW a \in ApprovalIds, Contract!Ask(a)
      PROVE  Histories' /\ Keeps
  <2>1. /\ Spents[a] /\ Effects[a] = "none" /\ Verdicts[a] = "none"
        /\ Effects' = [Effects EXCEPT ![a] = "asked"]
        /\ UNCHANGED <<Decisions, Spents, Verdicts, Opinions>>
    BY <1>6, Zenon DEF Contract!Ask, Decisions, Spents, Effects, Verdicts, Opinions
  <2>2. QED
    BY <1>1, <1>6, <2>1, ContractShapes DEF Histories, Keeps
<1>7. ASSUME NEW a \in ApprovalIds, NEW what \in {"applied", "refused"}, Contract!Happen(a, what)
      PROVE  Histories' /\ Keeps
  <2>1. /\ Effects[a] = "asked"
        /\ Effects' = [Effects EXCEPT ![a] = what]
        /\ UNCHANGED <<Decisions, Spents, Verdicts, Opinions>>
    BY <1>7, Zenon DEF Contract!Happen, Decisions, Spents, Effects, Verdicts, Opinions
  <2>2. QED
    BY <1>1, <1>7, <2>1, ContractShapes DEF Histories, Keeps
<1>8. ASSUME NEW a \in ApprovalIds, NEW v \in {"succeeded", "failed", "unknown"}, Contract!Conclude(a, v)
      PROVE  Histories' /\ Keeps
  <2>1. /\ Spents[a] /\ Verdicts[a] = "none" /\ (v = "succeeded" => Effects[a] = "applied")
        /\ Verdicts' = [Verdicts EXCEPT ![a] = v]
        /\ UNCHANGED <<Decisions, Spents, Effects, Opinions>>
    BY <1>8, Zenon DEF Contract!Conclude, Decisions, Spents, Effects, Verdicts, Opinions
  <2>2. QED
    BY <1>1, <1>8, <2>1, ContractShapes DEF Histories, Keeps
<1>9. ASSUME NEW a \in ApprovalIds, NEW o \in {"SUCCEEDED", "FAILED"}, Contract!Assess(a, o)
      PROVE  Histories' /\ Keeps
  <2>1. /\ Verdicts[a] = "unknown" /\ Opinions[a] = "none"
        /\ Opinions' = [Opinions EXCEPT ![a] = o]
        /\ UNCHANGED <<Decisions, Spents, Effects, Verdicts>>
    BY <1>9, Zenon DEF Contract!Assess, Decisions, Spents, Effects, Verdicts, Opinions
  <2>2. QED
    BY <1>1, <1>9, <2>1, ContractShapes DEF Histories, Keeps
<1>10. QED
  BY <1>2, <1>3, <1>4, <1>5, <1>6, <1>7, <1>8, <1>9, ContractShapes DEF Contract!ContractNext

\* Whatever implements the contract asks, concludes and assesses only with the history
\* behind it that the contract demands; so do ExecutionService and ReconciliationService.
THEOREM EffectsHaveTheirHistory == Spec => []Contract!EffectsAreGranted
<1>1. Contract!ContractInit => Contract!EffectsAreGranted
  BY DEF Contract!ContractInit, Contract!EffectsAreGranted
<1>2. QED
  BY <1>1, ContractStepKeeps, BoundariesImplementContract, PTL
     DEF ImplementsContract, Contract!ContractSpec

\* Decisions, permits, effects, verdicts and opinions are never taken back, and an
\* execution that complete recorded before its request was sent never has an effect.
THEOREM SettledStaysSettled == Spec => Contract!NothingIsTakenBack
<1>1. Contract!EffectsAreGranted /\ [Contract!ContractNext]_(Contract!contractVars)
        => [Contract!KeepsWhatIsSettled]_(Contract!contractVars)
  BY ContractStepKeeps
<1>2. QED
  BY <1>1, EffectsHaveTheirHistory, BoundariesImplementContract, PTL
     DEF ImplementsContract, Contract!ContractSpec, Contract!NothingIsTakenBack

-----------------------------------------------------------------------------
(* The verifier, while executions append to the log it reads.              *)

\* verify_audit_chain, racing claims, completions and assessments too, says "not valid"
\* only of a log that moved between its two reads or outgrew its numbering.
THEOREM AlarmsHaveACauseWithExecutions == Spec => AlarmHasACause
<1> DEFINE Caused == \A c \in Clients :
       LET a == calls[c].approval_id IN
       VerifyReadLog(c) /\ calls'[c].reply = "INVALID" =>
         \/ Commitment(approvals[a]) # calls[c].seen
         \/ Len(audit[a]) > MaxSequence
<1>1. ExecutionInv => ApprovalInv
  BY DEF ExecutionInv, ApprovalInv
<1>2. ExecutionInv => Caused
  BY <1>1, AlarmCaused
<1>3. QED
  BY <1>2, ExecutionInvariant, PTL DEF AlarmHasACause
=============================================================================
