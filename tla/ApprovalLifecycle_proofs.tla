---------------------- MODULE ApprovalLifecycle_proofs ----------------------
(***************************************************************************)
(* Theorems about the approval boundary, for any number of approvals and   *)
(* clients, any time to live and any log limit.  The lemmas about one      *)
(* append are stated for any row, so that the execution boundary can use   *)
(* them too.                                                               *)
(***************************************************************************)
EXTENDS ApprovalLifecycle, TLAPS

-----------------------------------------------------------------------------
(* The policy engine.                                                      *)

\* evaluate answers with a known outcome and action, and ADD_CONTACT_TAG is the
\* action of no event but the contact-tag request.
LEMMA DecideType ==
  ASSUME NEW request \in Requests
  PROVE  /\ decide(request).decision \in DecisionOutcomes
         /\ decide(request).action \in RecommendedActions
         /\ decide(request).action = "ADD_CONTACT_TAG" =>
              request.event.event_type = "GHL_CONTACT_TAG_REQUEST"
<1> DEFINE i == request.intelligence
           e == request.event
<1>1. i.recommended_next_step \in NextSteps
  BY RequestsAssumption
<1>2. ActionFor(i.recommended_next_step) \in RecommendedActions \ {"ADD_CONTACT_TAG"}
  BY <1>1 DEF ActionFor, RecommendedActions, NextSteps
<1>3. /\ EvaluateAnalysis(i).decision \in DecisionOutcomes
      /\ EvaluateAnalysis(i).action \in RecommendedActions \ {"ADD_CONTACT_TAG"}
  BY <1>2 DEF EvaluateAnalysis, Evaluation, DecisionOutcomes, RecommendedActions
<1>4. ASSUME NEW code
      PROVE  Deny(code).decision \in DecisionOutcomes /\ Deny(code).action = "NONE"
  BY DEF Deny, Evaluation, DecisionOutcomes
<1>5. QED
  BY <1>3, <1>4 DEF decide, evaluate, Evaluation, DecisionOutcomes, RecommendedActions

\* What create binds is a well-formed provenance; its action is the policy's, and
\* an external action stems from a contact-tag request.
LEMMA ProvenanceType ==
  ASSUME NEW request \in Requests
  PROVE  /\ TrustedProvenance(request) \in Provenances
         /\ TrustedProvenance(request).action = "ADD_CONTACT_TAG" =>
              TrustedProvenance(request).event_type = "GHL_CONTACT_TAG_REQUEST"
BY DecideType, RequestsAssumption DEF TrustedProvenance, Provenances

-----------------------------------------------------------------------------
(* One append.                                                             *)

\* _append_audit turns a row of the table into an event and a row of the tables.
LEMMA AppendType ==
  ASSUME NEW row \in Rows, NEW type \in AuditEventTypes, NEW status \in AuditStatuses,
         NEW detail \in Details
  PROVE  /\ NextAuditRow(row, type, status, detail) \in AuditRows
         /\ Advanced(row, type, status, detail) \in Rows
<1> DEFINE p == Payload(row.audit_event_count + 1, type, status, detail)
<1>1. p \in Payloads
  BY DEF Payload, Payloads, Rows
<1>2. row.audit_head_hash \in Seq(Payloads)
  BY DEF Rows
<1>3. Append(row.audit_head_hash, p) \in Seq(Payloads)
  BY <1>1, <1>2
<1>4. NextAuditRow(row, type, status, detail) \in AuditRows
  BY <1>1, <1>2, <1>3 DEF NextAuditRow, AuditRow, AuditRows, chained_audit_hash
<1>5. NextAuditRow(row, type, status, detail).event_hash \in Seq(Payloads)
  BY <1>4 DEF AuditRows
<1>6. ASSUME NEW n \in Nat, NEW h \in Seq(Payloads)
      PROVE  [row EXCEPT !.audit_event_count = n, !.audit_head_hash = h] \in Rows
  BY DEF Rows
<1>7. row.audit_event_count + 1 \in Nat
  BY DEF Rows
<1>8. Advanced(row, type, status, detail) \in Rows
  BY <1>5, <1>6, <1>7 DEF Advanced
<1>9. QED
  BY <1>4, <1>8

-----------------------------------------------------------------------------
(* What holds of one approval: its row and its log.                        *)

\* The chain, without the limit on the numbers.
Linked(row, log) ==
  /\ Len(log) = row.audit_event_count
  /\ \A n \in 1..Len(log) :
       /\ log[n].payload.sequence_number = n
       /\ log[n].previous_event_hash =
            IF n = 1 THEN GENESIS_AUDIT_HASH ELSE log[n - 1].event_hash
       /\ log[n].event_hash =
            chained_audit_hash(log[n].payload, log[n].previous_event_hash)
  /\ row.audit_head_hash =
       IF log = <<>> THEN GENESIS_AUDIT_HASH ELSE log[Len(log)].event_hash

History(row, log) ==
  /\ row.status = "ABSENT" => log = <<>>
  /\ row.status = "PENDING" => Len(log) = 1
  /\ row.status \in TerminalStatuses =>
       Len(log) >= 2 /\ log[2].payload.event_type = EventOf(row.status)
  /\ \A n \in 1..Len(log) :
       /\ (log[n].payload.event_type = "APPROVAL_CREATED") <=> n = 1
       /\ (log[n].payload.event_type \in DecisionEvents) <=> n = 2

OnTime(row) ==
  /\ row.status # "ABSENT" => row.expires_at \in Nat
  /\ row.status \in {"APPROVED", "REJECTED"} => row.decided_at < row.expires_at
  /\ row.status = "EXPIRED" => row.decided_at >= row.expires_at

\* The binding to the policy decision: of a row, and of a call to create.
Bound(provenance) ==
  /\ provenance \in Provenances
  /\ provenance.decision = "REQUIRE_HUMAN_APPROVAL"
  /\ provenance.action = "ADD_CONTACT_TAG" =>
       provenance.event_type = "GHL_CONTACT_TAG_REQUEST"

RowBound(row) ==
  row.status # "ABSENT" => Bound(row.provenance) /\ row.action = row.provenance.action

RowInv(row, log) ==
  /\ row \in Rows
  /\ log \in Seq(AuditRows)
  /\ Linked(row, log)
  /\ History(row, log)
  /\ OnTime(row)
  /\ RowBound(row)

\* What one transaction may do to an approval.
RowStep(row, log, row2, log2) ==
  /\ Len(log2) >= Len(log)
  /\ \A n \in 1..Len(log) : log2[n] = log[n]
  /\ row.status \in TerminalStatuses => Fixed(row2) = Fixed(row)
  /\ row.status # "ABSENT" => /\ row2.provenance = row.provenance
                              /\ row2.action = row.action
                              /\ row2.expires_at = row.expires_at
                              /\ row2.status # "ABSENT"

\* An append by _append_audit to a log with a linked chain leaves one.
LEMMA AppendLinked ==
  ASSUME NEW row \in Rows, NEW log \in Seq(AuditRows), Linked(row, log),
         NEW type \in AuditEventTypes, NEW status \in AuditStatuses, NEW detail \in Details
  PROVE  Linked(Advanced(row, type, status, detail),
                Append(log, NextAuditRow(row, type, status, detail)))
<1> DEFINE event == NextAuditRow(row, type, status, detail)
           row2 == Advanced(row, type, status, detail)
           log2 == Append(log, event)
<1>1. event \in AuditRows
  BY AppendType
<1>2. /\ event.payload.sequence_number = row.audit_event_count + 1
      /\ event.previous_event_hash = row.audit_head_hash
      /\ event.event_hash = chained_audit_hash(event.payload, event.previous_event_hash)
  BY DEF NextAuditRow, AuditRow, Payload
<1>3. /\ row2.audit_event_count = row.audit_event_count + 1
      /\ row2.audit_head_hash = event.event_hash
  BY DEF Advanced, Rows
<1>4. /\ log2 \in Seq(AuditRows)
      /\ Len(log2) = Len(log) + 1
      /\ \A n \in 1..Len(log) : log2[n] = log[n]
      /\ log2[Len(log) + 1] = event
  BY <1>1
<1>5. Len(log) = row.audit_event_count /\ Len(log) \in Nat
  BY DEF Linked
<1>6. ASSUME NEW n \in 1..Len(log2)
      PROVE  /\ log2[n].payload.sequence_number = n
             /\ log2[n].previous_event_hash =
                  IF n = 1 THEN GENESIS_AUDIT_HASH ELSE log2[n - 1].event_hash
             /\ log2[n].event_hash =
                  chained_audit_hash(log2[n].payload, log2[n].previous_event_hash)
  <2>1. CASE n \in 1..Len(log)
    <3>1. n # 1 => n - 1 \in 1..Len(log)
      BY <2>1
    <3>2. QED
      BY <2>1, <3>1, <1>4 DEF Linked
  <2>2. CASE n = Len(log) + 1
    <3>1. CASE Len(log) = 0
      BY <3>1, <2>2, <1>2, <1>4, <1>5 DEF Linked
    <3>2. CASE Len(log) # 0
      <4>1. log # <<>> /\ n - 1 = Len(log) /\ n # 1 /\ Len(log) \in 1..Len(log)
        BY <3>2, <2>2, <1>5
      <4>2. log2[n - 1] = log[Len(log)]
        BY <4>1, <1>4
      <4>3. row.audit_head_hash = log[Len(log)].event_hash
        BY <4>1 DEF Linked
      <4>4. QED
        BY <4>1, <4>2, <4>3, <2>2, <1>2, <1>4, <1>5
    <3>3. QED
      BY <3>1, <3>2
  <2>3. QED
    BY <2>1, <2>2, <1>4, <1>5
<1>7. log2 # <<>>
  <2> HIDE DEF log2
  <2>1. Len(<<>>) = 0 /\ Len(log2) # 0
    BY <1>4, <1>5
  <2>2. QED
    BY <2>1
<1>8. log2[Len(log2)] = event
  BY <1>4, <1>5
<1>9. Len(log2) = row2.audit_event_count
  BY <1>3, <1>4, <1>5
<1> HIDE DEF row2, log2, event
<1>10. Linked(row2, log2)
  BY <1>3, <1>6, <1>7, <1>8, <1>9 DEF Linked
<1>11. QED
  BY <1>10 DEF row2, log2, event

\* Moving the count and the head leaves the rest of a row alone.
LEMMA AdvancedFields ==
  ASSUME NEW row \in Rows, NEW type, NEW status, NEW detail
  PROVE  LET row2 == Advanced(row, type, status, detail) IN
         /\ row2.status = row.status
         /\ row2.action = row.action
         /\ row2.expires_at = row.expires_at
         /\ row2.decided_at = row.decided_at
         /\ row2.provenance = row.provenance
BY DEF Advanced, Rows

\* The log after an append: the events it had, and one of the given type.
LEMMA AppendedLog ==
  ASSUME NEW row \in Rows, NEW log \in Seq(AuditRows),
         NEW type \in AuditEventTypes, NEW status \in AuditStatuses, NEW detail \in Details
  PROVE  LET log2 == Append(log, NextAuditRow(row, type, status, detail)) IN
         /\ log2 \in Seq(AuditRows)
         /\ Len(log2) = Len(log) + 1
         /\ \A n \in 1..Len(log) : log2[n] = log[n]
         /\ log2[Len(log) + 1].payload =
              Payload(row.audit_event_count + 1, type, status, detail)
         /\ log2[Len(log) + 1].payload.event_type = type
<1> DEFINE event == NextAuditRow(row, type, status, detail)
<1>1. event \in AuditRows
  BY AppendType
<1>2. event.payload = Payload(row.audit_event_count + 1, type, status, detail)
  BY DEF NextAuditRow, AuditRow
<1>3. event.payload.event_type = type
  BY <1>2 DEF Payload
<1>4. Append(log, event)[Len(log) + 1] = event
  BY <1>1
<1>5. /\ Append(log, event) \in Seq(AuditRows)
      /\ Len(Append(log, event)) = Len(log) + 1
      /\ \A n \in 1..Len(log) : Append(log, event)[n] = log[n]
  BY <1>1
<1> HIDE DEF event
<1>6. QED
  BY <1>2, <1>3, <1>4, <1>5 DEF event

NoteTypes == AuditEventTypes \ ({"APPROVAL_CREATED"} \cup DecisionEvents)

\* An event that decides nothing, on an approval that is decided.
LEMMA NoteRow ==
  ASSUME NEW row, NEW log, RowInv(row, log), row.status \in TerminalStatuses,
         NEW type \in NoteTypes, NEW status \in AuditStatuses, NEW detail \in Details
  PROVE  LET row2 == Advanced(row, type, status, detail)
             log2 == Append(log, NextAuditRow(row, type, status, detail)) IN
         RowInv(row2, log2) /\ RowStep(row, log, row2, log2)
<1> DEFINE row2 == Advanced(row, type, status, detail)
           log2 == Append(log, NextAuditRow(row, type, status, detail))
<1>1. row \in Rows /\ log \in Seq(AuditRows) /\ type \in AuditEventTypes
  BY DEF RowInv, NoteTypes
<1>2. Linked(row2, log2)
  BY <1>1, AppendLinked DEF RowInv
<1>3. row2 \in Rows
  BY <1>1, AppendType
<1>4. /\ row2.status = row.status
      /\ row2.action = row.action
      /\ row2.expires_at = row.expires_at
      /\ row2.decided_at = row.decided_at
      /\ row2.provenance = row.provenance
  BY <1>1, AdvancedFields
<1>5. /\ log2 \in Seq(AuditRows)
      /\ Len(log2) = Len(log) + 1
      /\ \A n \in 1..Len(log) : log2[n] = log[n]
      /\ log2[Len(log) + 1].payload.event_type = type
  BY <1>1, AppendedLog
<1>6. Len(log) \in Nat /\ Len(log) >= 2
  BY <1>1 DEF RowInv, History
<1> HIDE DEF row2, log2
<1>7. History(row2, log2)
  <2>1. row2.status \notin {"ABSENT", "PENDING"}
    BY <1>4 DEF TerminalStatuses
  <2>2. Len(log2) >= 2 /\ log2[2].payload.event_type = EventOf(row2.status)
    BY <1>4, <1>5, <1>6 DEF RowInv, History
  <2>3. ASSUME NEW n \in 1..Len(log2)
        PROVE  /\ (log2[n].payload.event_type = "APPROVAL_CREATED") <=> n = 1
               /\ (log2[n].payload.event_type \in DecisionEvents) <=> n = 2
    <3>1. CASE n \in 1..Len(log)
      BY <3>1, <1>5 DEF RowInv, History
    <3>2. CASE n = Len(log) + 1
      BY <3>2, <1>5, <1>6 DEF NoteTypes
    <3>3. QED
      BY <3>1, <3>2, <1>5, <1>6
  <2>4. QED
    BY <2>1, <2>2, <2>3 DEF History
<1>8. OnTime(row2) /\ RowBound(row2)
  BY <1>4 DEF RowInv, OnTime, RowBound
<1>9. RowInv(row2, log2)
  BY <1>2, <1>3, <1>5, <1>7, <1>8 DEF RowInv
<1>10. RowStep(row, log, row2, log2)
  BY <1>4, <1>5, <1>6 DEF RowStep, Fixed, TerminalStatuses
<1>11. QED
  BY <1>9, <1>10 DEF row2, log2

\* A row that is not there yet.
LEMMA AbsentRow == RowInv(NoRow, <<>>)
<1>1. NoRow \in Rows
  BY DEF NoRow, Rows, ApprovalStatuses, RecommendedActions, Times, NoTime, NoProvenance,
         Provenances, GENESIS_AUDIT_HASH
<1>2. Linked(NoRow, <<>>)
  BY DEF NoRow, Linked, GENESIS_AUDIT_HASH
<1>3. History(NoRow, <<>>)
  BY DEF NoRow, History, TerminalStatuses
<1>4. OnTime(NoRow) /\ RowBound(NoRow)
  BY DEF NoRow, OnTime, RowBound
<1>5. QED
  BY <1>1, <1>2, <1>3, <1>4 DEF RowInv

\* create: the first event, on the row ApprovalService.create hands over.
LEMMA CreateRow ==
  ASSUME NEW provenance, Bound(provenance), NEW now \in Nat, 
         NEW old, old.status = "ABSENT", NEW log \in Seq(AuditRows), Len(log) = 0
  PROVE  LET row == NewRow(provenance, now)
             row2 == Advanced(row, "APPROVAL_CREATED", "PENDING", NoDetail)
             log2 == Append(log, NextAuditRow(row, "APPROVAL_CREATED", "PENDING", NoDetail)) IN
         RowInv(row2, log2) /\ RowStep(old, log, row2, log2)
<1> DEFINE row == NewRow(provenance, now)
           type == "APPROVAL_CREATED"
           status == "PENDING"
           row2 == Advanced(row, type, status, NoDetail)
           log2 == Append(log, NextAuditRow(row, type, status, NoDetail))
<1>1. /\ type \in AuditEventTypes
      /\ status \in AuditStatuses
      /\ NoDetail \in Details
  BY DEF AuditEventTypes, AuditStatuses, Details
<1>2. NoRow \in Rows /\ now + TTL \in Nat
  BY AbsentRow, TTLAssumption DEF RowInv
<1>3. row = [NoRow EXCEPT !.status = "PENDING", !.action = provenance.action,
                          !.expires_at = now + TTL, !.provenance = provenance]
  BY DEF NewRow
<1>4. row \in Rows
  <2>1. provenance.action \in RecommendedActions
    BY DEF Bound, Provenances
  <2>2. now + TTL \in Times /\ "PENDING" \in ApprovalStatuses /\ provenance \in Provenances
    BY <1>2 DEF Times, ApprovalStatuses, Bound
  <2>3. QED
    BY <1>2, <2>1, <2>2 DEF Rows, NewRow
<1>5. /\ row.status = "PENDING"
      /\ row.action = provenance.action
      /\ row.expires_at = now + TTL
      /\ row.provenance = provenance
      /\ row.audit_event_count = 0
      /\ row.audit_head_hash = GENESIS_AUDIT_HASH
  BY <1>3 DEF NoRow
<1> HIDE DEF row, type, status
<1>6. log = <<>>
  OBVIOUS
<1>7. Linked(row, log)
  BY <1>5, <1>6 DEF Linked
<1>8. Linked(row2, log2) /\ row2 \in Rows
  BY <1>1, <1>4, <1>7, AppendLinked, AppendType
<1>9. /\ row2.status = "PENDING"
      /\ row2.action = provenance.action
      /\ row2.expires_at = now + TTL
      /\ row2.provenance = provenance
  BY <1>4, <1>5, AdvancedFields
<1>10. log2 \in Seq(AuditRows) /\ Len(log2) = 1 /\ log2[1].payload.event_type = type
  <2> DEFINE event == NextAuditRow(row, type, status, NoDetail)
  <2>1. event \in AuditRows
    BY <1>1, <1>4, AppendType
  <2>2. event.payload.event_type = type
    BY DEF NextAuditRow, AuditRow, Payload
  <2> HIDE DEF event
  <2>3. /\ Append(log, event) \in Seq(AuditRows)
        /\ Len(Append(log, event)) = 1
        /\ Append(log, event)[1] = event
    BY <2>1
  <2>4. QED
    BY <2>2, <2>3 DEF event
<1> HIDE DEF row2, log2
<1>11. History(row2, log2)
  BY <1>9, <1>10 DEF History, TerminalStatuses, DecisionEvents, type
<1>12. OnTime(row2) /\ RowBound(row2)
  BY <1>2, <1>9 DEF OnTime, RowBound
<1>13. RowInv(row2, log2)
  BY <1>8, <1>10, <1>11, <1>12 DEF RowInv
<1>14. RowStep(old, log, row2, log2)
  BY <1>9, <1>10 DEF RowStep, TerminalStatuses
<1>15. QED
  BY <1>13, <1>14 DEF row, row2, log2, type, status

\* The row with a decision on it, before its event is appended.
Settled(row, row1, outcome, now) ==
  /\ row1.status = outcome
  /\ row1.decided_at = now
  /\ row1.action = row.action
  /\ row1.expires_at = row.expires_at
  /\ row1.provenance = row.provenance
  /\ row1.audit_event_count = row.audit_event_count
  /\ row1.audit_head_hash = row.audit_head_hash

\* transition and _expire: the one decision on a PENDING row, which respects the
\* deadline when the time it is taken with does.
LEMMA SettleRow ==
  ASSUME NEW row, NEW log, RowInv(row, log), row.status = "PENDING",
         NEW now \in Nat, NEW outcome \in TerminalStatuses,
         outcome = "EXPIRED" <=> now >= row.expires_at,
         NEW row1 \in Rows, Settled(row, row1, outcome, now)
  PROVE  LET row2 == Advanced(row1, EventOf(outcome), outcome, NoDetail)
             log2 == Append(log, NextAuditRow(row1, EventOf(outcome), outcome, NoDetail)) IN
         /\ RowInv(row2, log2)
         /\ RowStep(row, log, row2, log2)
         /\ row2.status = outcome
<1> DEFINE row2 == Advanced(row1, EventOf(outcome), outcome, NoDetail)
           log2 == Append(log, NextAuditRow(row1, EventOf(outcome), outcome, NoDetail))
<1>1. /\ EventOf(outcome) \in AuditEventTypes /\ EventOf(outcome) \in DecisionEvents
      /\ EventOf(outcome) # "APPROVAL_CREATED"
      /\ outcome \in AuditStatuses
      /\ NoDetail \in Details
  BY DEF EventOf, DecisionEvent, DecisionEvents, TerminalStatuses, AuditEventTypes,
         AuditStatuses, Details
<1>2. row \in Rows /\ log \in Seq(AuditRows) /\ Linked(row, log) /\ History(row, log)
  BY DEF RowInv
<1>3. Linked(row1, log)
  BY <1>2 DEF Linked, Settled
<1>4. Linked(row2, log2) /\ row2 \in Rows
  BY <1>1, <1>2, <1>3, AppendLinked, AppendType
<1>5. /\ row2.status = outcome
      /\ row2.decided_at = now
      /\ row2.action = row.action
      /\ row2.expires_at = row.expires_at
      /\ row2.provenance = row.provenance
  BY AdvancedFields DEF Settled
<1>6. /\ log2 \in Seq(AuditRows)
      /\ Len(log2) = Len(log) + 1
      /\ \A n \in 1..Len(log) : log2[n] = log[n]
      /\ log2[Len(log) + 1].payload.event_type = EventOf(outcome)
  BY <1>1, <1>2, AppendedLog
<1>7. Len(log) = 1
  BY <1>2 DEF History
<1> HIDE DEF row2, log2
<1>8. Len(log2) = 2 /\ log2[1] = log[1] /\ log2[2].payload.event_type = EventOf(outcome)
  BY <1>6, <1>7
<1>9. /\ log[1].payload.event_type = "APPROVAL_CREATED"
       /\ log[1].payload.event_type \notin DecisionEvents
  BY <1>2, <1>7 DEF History
<1>10. History(row2, log2)
  BY <1>1, <1>5, <1>8, <1>9 DEF History, TerminalStatuses
<1>11. OnTime(row2) /\ RowBound(row2)
  BY <1>5 DEF RowInv, OnTime, RowBound, TerminalStatuses
<1>12. RowInv(row2, log2)
  BY <1>4, <1>6, <1>10, <1>11 DEF RowInv
<1>13. RowStep(row, log, row2, log2)
  BY <1>5, <1>6, <1>7 DEF RowStep, TerminalStatuses
<1>14. QED
  BY <1>5, <1>12, <1>13 DEF row2, log2

-----------------------------------------------------------------------------
(* The tables.                                                             *)

Tables ==
  /\ approvals \in [ApprovalIds -> Rows]
  /\ audit \in [ApprovalIds -> Seq(AuditRows)]
  /\ \A a \in ApprovalIds : RowInv(approvals[a], audit[a])

\* One transaction keeps the tables in order.
TableStep ==
  /\ Tables'
  /\ \A a \in ApprovalIds : RowStep(approvals[a], audit[a], approvals'[a], audit'[a])

\* Storing one row with its log, which AppendAudit does.
LEMMA StoreRow ==
  ASSUME Tables, NEW a \in ApprovalIds, NEW row2, NEW log2,
         RowInv(row2, log2), RowStep(approvals[a], audit[a], row2, log2),
         approvals' = [approvals EXCEPT ![a] = row2],
         audit' = [audit EXCEPT ![a] = log2]
  PROVE  TableStep
<1>1. row2 \in Rows /\ log2 \in Seq(AuditRows)
  BY DEF RowInv
<1>2. /\ approvals' \in [ApprovalIds -> Rows]
      /\ audit' \in [ApprovalIds -> Seq(AuditRows)]
  BY <1>1 DEF Tables
<1>3. ASSUME NEW b \in ApprovalIds
      PROVE  /\ RowInv(approvals'[b], audit'[b])
             /\ RowStep(approvals[b], audit[b], approvals'[b], audit'[b])
  <2>1. CASE b = a
    <3>1. approvals'[b] = row2 /\ audit'[b] = log2
      BY <2>1 DEF Tables
    <3>2. QED
      BY <2>1, <3>1
  <2>2. CASE b # a
    <3>1. approvals'[b] = approvals[b] /\ audit'[b] = audit[b]
      BY <2>2 DEF Tables
    <3>2. RowInv(approvals[b], audit[b])
      BY DEF Tables
    <3>3. RowStep(approvals[b], audit[b], approvals[b], audit[b])
      BY <3>2 DEF RowStep, RowInv
    <3>4. QED
      BY <3>1, <3>2, <3>3
  <2>3. QED
    BY <2>1, <2>2
<1>4. QED
  BY <1>2, <1>3 DEF TableStep, Tables

\* A step that reads only.
LEMMA SameTables ==
  ASSUME Tables, UNCHANGED <<approvals, audit>>
  PROVE  TableStep
<1>1. \A a \in ApprovalIds : RowStep(approvals[a], audit[a], approvals[a], audit[a])
  BY DEF Tables, RowInv, RowStep
<1>2. QED
  BY <1>1 DEF TableStep, Tables

-----------------------------------------------------------------------------
(* The calls.                                                              *)

\* What a call carries from its begin to its transaction.
CallOK(call) ==
  /\ call \in Calls
  /\ call.pc # "idle" => call.approval_id \in ApprovalIds
  /\ call.pc \in {"create", "get", "approve", "reject"} => call.now \in Nat
  /\ call.pc \in {"approve", "reject"} => call.op = call.pc
  /\ call.pc = "create" => Bound(call.provenance)

CallsOK ==
  /\ calls \in [Clients -> Calls]
  /\ \A c \in Clients : CallOK(calls[c])

\* Between two operations.
LEMMA IdleOK == CallOK(Idle)
<1>1. Idle \in Calls
  BY DEF Idle, Calls, Times, NoTime, NoProvenance, Provenances, RecommendedActions,
         NoCommitment, Commitments, GENESIS_AUDIT_HASH, CallReplies
<1>2. QED
  BY <1>1 DEF CallOK, Idle

\* Once the answer is there.
LEMMA DoneOK ==
  ASSUME NEW call, call.op \in {"none", "create", "get", "approve", "reject", "verify"},
         call.approval_id \in ApprovalIds, NEW reply \in CallReplies
  PROVE  CallOK(Done(call, reply)) /\ Done(call, reply).reply = reply
<1>1. /\ Done(call, reply) \in Calls
      /\ Done(call, reply).pc = "done"
      /\ Done(call, reply).approval_id = call.approval_id
      /\ Done(call, reply).reply = reply
  BY IdleOK DEF CallOK, Done, Calls
<1>2. QED
  BY <1>1 DEF CallOK

\* Replacing one call.
LEMMA StoreCall ==
  ASSUME CallsOK, NEW c \in Clients, NEW call, CallOK(call),
         calls' = [calls EXCEPT ![c] = call]
  PROVE  CallsOK'
<1>1. call \in Calls
  BY DEF CallOK
<1>2. calls' \in [Clients -> Calls]
  BY <1>1 DEF CallsOK
<1>3. ASSUME NEW d \in Clients
      PROVE  CallOK(calls'[d])
  BY DEF CallsOK
<1>4. QED
  BY <1>2, <1>3 DEF CallsOK, CallOK

\* Replying to a call in progress.
LEMMA ReplyOK ==
  ASSUME CallsOK, NEW c \in Clients, calls[c].pc # "idle", NEW reply \in CallReplies,
         Reply(c, reply)
  PROVE  CallsOK'
<1>1. /\ calls[c].op \in {"none", "create", "get", "approve", "reject", "verify"}
      /\ calls[c].approval_id \in ApprovalIds
  BY DEF CallsOK, CallOK, Calls
<1>2. CallOK(Done(calls[c], reply))
  BY <1>1, DoneOK
<1>3. calls' = [calls EXCEPT ![c] = Done(calls[c], reply)]
  BY DEF Reply
<1>4. QED
  BY <1>2, <1>3, StoreCall

-----------------------------------------------------------------------------
(* The transactions.                                                       *)

\* A refusal changes no table.
LEMMA RefuseOK ==
  ASSUME Tables, CallsOK, NEW c \in Clients, calls[c].pc # "idle",
         NEW reply \in CallReplies, Refuse(c, reply)
  PROVE  TableStep /\ CallsOK'
BY SameTables, ReplyOK DEF Refuse

\* create inserts a row with its first event, or refuses.
LEMMA CreateTxnOK ==
  ASSUME Tables, CallsOK, NEW c \in Clients, CreateTxn(c)
  PROVE  TableStep /\ CallsOK'
<1> DEFINE a == calls[c].approval_id
           row == NewRow(calls[c].provenance, calls[c].now)
           row2 == Advanced(row, "APPROVAL_CREATED", "PENDING", NoDetail)
           log2 == Append(audit[a], NextAuditRow(row, "APPROVAL_CREATED", "PENDING", NoDetail))
<1>1. /\ calls[c].pc = "create"
      /\ a \in ApprovalIds
      /\ calls[c].now \in Nat
      /\ Bound(calls[c].provenance)
  BY DEF CreateTxn, CallsOK, CallOK
<1>2. CASE Exists(a)
  <2>1. Refuse(c, "APPROVAL_CONFLICT")
    BY <1>2 DEF CreateTxn
  <2>2. "APPROVAL_CONFLICT" \in CallReplies
    BY DEF CallReplies
  <2>3. QED
    BY <1>1, <2>1, <2>2, RefuseOK
<1>3. CASE ~Exists(a)
  <2>1. /\ approvals' = [approvals EXCEPT ![a] = row2]
        /\ audit' = [audit EXCEPT ![a] = log2]
        /\ Reply(c, "PENDING")
    BY <1>3 DEF CreateTxn, AppendAudit
  <2>2. approvals[a].status = "ABSENT"
    BY <1>3 DEF Exists
  <2>3. audit[a] \in Seq(AuditRows) /\ Len(audit[a]) = 0
    BY <1>1, <2>2 DEF Tables, RowInv, History
  <2>4. RowInv(row2, log2) /\ RowStep(approvals[a], audit[a], row2, log2)
    BY <1>1, <2>2, <2>3, CreateRow
  <2>5. "PENDING" \in CallReplies
    BY DEF CallReplies, ApprovalStatuses
  <2> HIDE DEF row2, log2
  <2>6. TableStep
    BY <1>1, <2>1, <2>4, StoreRow
  <2>7. CallsOK'
    BY <1>1, <2>1, <2>5, ReplyOK
  <2>8. QED
    BY <2>6, <2>7
<1>4. QED
  BY <1>2, <1>3

\* The decision on a PENDING row, by a person before the deadline or by expiry
\* from the deadline on.
LEMMA SettleOK ==
  ASSUME Tables, NEW a \in ApprovalIds, NEW now \in Nat, NEW outcome \in TerminalStatuses,
         approvals[a].status = "PENDING",
         outcome = "EXPIRED" <=> Due(approvals[a], now),
         AppendAudit(a, [approvals[a] EXCEPT !.status = outcome, !.decided_at = now],
                     EventOf(outcome), outcome, NoDetail)
  PROVE  TableStep /\ approvals'[a].status = outcome
<1> DEFINE row1 == [approvals[a] EXCEPT !.status = outcome, !.decided_at = now]
           row2 == Advanced(row1, EventOf(outcome), outcome, NoDetail)
           log2 == Append(audit[a], NextAuditRow(row1, EventOf(outcome), outcome, NoDetail))
<1>1. /\ approvals' = [approvals EXCEPT ![a] = row2]
      /\ audit' = [audit EXCEPT ![a] = log2]
  BY DEF AppendAudit
<1>2. RowInv(approvals[a], audit[a])
  BY DEF Tables
<1>3. outcome = "EXPIRED" <=> now >= approvals[a].expires_at
  BY DEF Due
<1>4. /\ RowInv(row2, log2)
      /\ RowStep(approvals[a], audit[a], row2, log2)
      /\ row2.status = outcome
  <2>1. approvals[a] \in Rows
    BY DEF Tables
  <2>2. row1 \in Rows
    BY <2>1 DEF Rows, ApprovalStatuses, Times
  <2>3. Settled(approvals[a], row1, outcome, now)
    BY <2>1 DEF Settled, Rows
  <2> HIDE DEF row1
  <2>4. QED
    BY <1>2, <1>3, <2>2, <2>3, SettleRow
<1> HIDE DEF row2, log2
<1>5. TableStep
  BY <1>1, <1>4, StoreRow
<1>6. approvals'[a] = row2
  BY <1>1 DEF Tables
<1>7. QED
  BY <1>4, <1>5, <1>6

\* An event that decides nothing, on a decided approval.
LEMMA NoteOK ==
  ASSUME Tables, NEW a \in ApprovalIds, approvals[a].status \in TerminalStatuses,
         NEW type \in NoteTypes, NEW status \in AuditStatuses, NEW detail \in Details,
         AppendAudit(a, approvals[a], type, status, detail)
  PROVE  TableStep
<1> DEFINE row2 == Advanced(approvals[a], type, status, detail)
           log2 == Append(audit[a], NextAuditRow(approvals[a], type, status, detail))
<1>1. /\ approvals' = [approvals EXCEPT ![a] = row2]
      /\ audit' = [audit EXCEPT ![a] = log2]
  BY DEF AppendAudit
<1>2. RowInv(approvals[a], audit[a])
  BY DEF Tables
<1>3. RowInv(row2, log2) /\ RowStep(approvals[a], audit[a], row2, log2)
  BY <1>2, NoteRow
<1> HIDE DEF row2, log2
<1>4. QED
  BY <1>1, <1>3, StoreRow

\* _expire, which get and transition share.
LEMMA ExpireOK ==
  ASSUME Tables, NEW a \in ApprovalIds, NEW now \in Nat,
         approvals[a].status = "PENDING", Due(approvals[a], now), Expire(a, now)
  PROVE  TableStep /\ approvals'[a].status = "EXPIRED"
<1> DEFINE outcome == "EXPIRED"
<1>1. EventOf(outcome) = "APPROVAL_EXPIRED"
  BY DEF EventOf
<1>2. AppendAudit(a, [approvals[a] EXCEPT !.status = outcome, !.decided_at = now],
                  EventOf(outcome), outcome, NoDetail)
  BY <1>1 DEF Expire
<1>3. outcome \in TerminalStatuses /\ (outcome = "EXPIRED" <=> Due(approvals[a], now))
  BY DEF TerminalStatuses
<1> HIDE DEF outcome
<1>4. TableStep /\ approvals'[a].status = outcome
  BY <1>2, <1>3, SettleOK
<1>5. QED
  BY <1>4 DEF outcome

\* The refusals of a row that is missing or not intact.
LEMMA CannotOpenOK ==
  ASSUME Tables, CallsOK, NEW c \in Clients, calls[c].pc # "idle",
         CannotOpen(c, calls[c].approval_id)
  PROVE  TableStep /\ CallsOK'
<1>1. /\ "APPROVAL_NOT_FOUND" \in CallReplies
      /\ "PROVENANCE_INTEGRITY_FAILURE" \in CallReplies
  BY DEF CallReplies
<1>2. \/ Refuse(c, "APPROVAL_NOT_FOUND")
      \/ Refuse(c, "PROVENANCE_INTEGRITY_FAILURE")
  BY DEF CannotOpen
<1>3. QED
  BY <1>1, <1>2, RefuseOK

\* get expires a due PENDING row and reads any other.
LEMMA GetTxnOK ==
  ASSUME Tables, CallsOK, NEW c \in Clients, GetTxn(c)
  PROVE  TableStep /\ CallsOK'
<1> DEFINE a == calls[c].approval_id
<1>1. calls[c].pc = "get" /\ a \in ApprovalIds /\ calls[c].now \in Nat
  BY DEF GetTxn, CallsOK, CallOK
<1>2. CASE CannotOpen(c, a)
  BY <1>1, <1>2, CannotOpenOK
<1>3. CASE Refuse(c, approvals[a].status)
  <2>1. approvals[a].status \in CallReplies
    BY <1>1 DEF Tables, Rows, CallReplies
  <2>2. QED
    BY <1>1, <1>3, <2>1, RefuseOK
<1>4. CASE /\ approvals[a].status = "PENDING"
           /\ Due(approvals[a], calls[c].now)
           /\ Expire(a, calls[c].now)
           /\ Reply(c, "EXPIRED")
  <2>1. "EXPIRED" \in CallReplies
    BY DEF CallReplies, ApprovalStatuses, TerminalStatuses
  <2>2. QED
    BY <1>1, <1>4, <2>1, ExpireOK, ReplyOK
<1>5. QED
  BY <1>2, <1>3, <1>4 DEF GetTxn

\* transition decides a PENDING row in time, expires it from the deadline on, and
\* only logs the attempt on any other.
LEMMA TransitionTxnOK ==
  ASSUME Tables, CallsOK, NEW c \in Clients, TransitionTxn(c)
  PROVE  TableStep /\ CallsOK'
<1> DEFINE a == calls[c].approval_id
           target == Target(calls[c].op)
<1>1. /\ calls[c].pc \in {"approve", "reject"}
      /\ a \in ApprovalIds
      /\ calls[c].now \in Nat
  BY DEF TransitionTxn, CallsOK, CallOK
<1>2. CASE CannotOpen(c, a)
  BY <1>1, <1>2, CannotOpenOK
<1>3. CASE CanOpen(a) /\ ExpireInstead(c, a)
  <2>1. "APPROVAL_EXPIRED" \in CallReplies
    BY DEF CallReplies
  <2>2. QED
    BY <1>1, <1>3, <2>1, ExpireOK, ReplyOK DEF ExpireInstead
<1>4. CASE CanOpen(a) /\ LogRejectedTransition(c, a)
  <2>1. approvals[a].status \in TerminalStatuses
    BY <1>1, <1>4 DEF CanOpen, Exists, LogRejectedTransition, Tables, Rows, ApprovalStatuses
  <2>2. /\ "APPROVAL_TRANSITION_REJECTED" \in NoteTypes
        /\ NoDetail \in Details
        /\ "APPROVAL_INVALID_STATE" \in CallReplies
    BY DEF NoteTypes, AuditEventTypes, DecisionEvents, Details, CallReplies
  <2>3. approvals[a].status \in AuditStatuses
    BY <2>1 DEF TerminalStatuses, AuditStatuses
  <2>4. TableStep
    BY <1>1, <1>4, <2>1, <2>2, <2>3, NoteOK DEF LogRejectedTransition
  <2>5. CallsOK'
    BY <1>1, <1>4, <2>2, ReplyOK DEF LogRejectedTransition
  <2>6. QED
    BY <2>4, <2>5
<1>5. CASE CanOpen(a) /\ Decide(c, a)
  <2>1. target \in {"APPROVED", "REJECTED"}
    BY DEF Target
  <2>2. target \in TerminalStatuses /\ target \in CallReplies
    BY <2>1 DEF TerminalStatuses, CallReplies, ApprovalStatuses
  <2>3. EventOf(target) = DecisionEvent(target)
    BY <2>1 DEF EventOf
  <2>4. target = "EXPIRED" <=> Due(approvals[a], calls[c].now)
    BY <1>5, <2>1 DEF Decide
  <2>5. AppendAudit(a, [approvals[a] EXCEPT !.status = target, !.decided_at = calls[c].now],
                    EventOf(target), target, NoDetail)
    BY <1>5, <2>3 DEF Decide
  <2>6. approvals[a].status = "PENDING" /\ Committed(c, target)
    BY <1>5 DEF Decide
  <2> HIDE DEF target
  <2>7. TableStep
    BY <1>1, <2>2, <2>4, <2>5, <2>6, SettleOK
  <2>8. PICK heard \in {target, "APPROVAL_UNAVAILABLE"} : Reply(c, heard)
    BY <2>6 DEF Committed
  <2>9. heard \in CallReplies
    BY <2>2 DEF CallReplies
  <2>10. CallsOK'
    BY <1>1, <2>8, <2>9, ReplyOK
  <2>11. QED
    BY <2>7, <2>10
<1>6. QED
  BY <1>2, <1>3, <1>4, <1>5 DEF TransitionTxn

-----------------------------------------------------------------------------
(* The steps that touch no table.                                          *)

\* create binds what the policy says, or is refused before it gets anywhere.
LEMMA BeginCreateOK ==
  ASSUME CallsOK, clock \in Nat, NEW c \in Clients, NEW a \in ApprovalIds,
         NEW request \in Requests, BeginCreate(c, a, request)
  PROVE  CallsOK'
<1> DEFINE provenance == TrustedProvenance(request)
           call == [Idle EXCEPT !.pc = "create", !.op = "create", !.approval_id = a,
                                !.now = clock, !.provenance = provenance]
           refused == Done([op |-> "create", approval_id |-> a], "POLICY_VALIDATION_FAILED")
<1>1. ASSUME provenance.decision = "REQUIRE_HUMAN_APPROVAL"
      PROVE  CallOK(call)
  <2>1. Bound(provenance)
    BY <1>1, ProvenanceType DEF Bound
  <2>2. call \in Calls
    BY <1>1, <2>1, IdleOK DEF CallOK, Calls, Times, Bound
  <2>3. QED
    BY <1>1, <2>1, <2>2, IdleOK DEF CallOK, Idle
<1>2. CallOK(refused)
  <2>1. "POLICY_VALIDATION_FAILED" \in CallReplies
    BY DEF CallReplies
  <2>2. QED
    BY <2>1, DoneOK
<1>3. \/ /\ provenance.decision = "REQUIRE_HUMAN_APPROVAL"
         /\ calls' = [calls EXCEPT ![c] = call]
      \/ calls' = [calls EXCEPT ![c] = refused]
  BY DEF BeginCreate
<1> HIDE DEF call, refused
<1>4. QED
  BY <1>1, <1>2, <1>3, StoreCall

\* get, approve, reject and verify begin with an approval and, but for the last, a time.
LEMMA BeginOK ==
  ASSUME CallsOK, clock \in Nat, NEW c \in Clients, NEW a \in ApprovalIds,
         NEW op \in ClientOps, Begin(c, op, a)
  PROVE  CallsOK'
<1> DEFINE call == [Idle EXCEPT !.pc = op, !.op = op, !.approval_id = a,
                                !.now = IF op = "verify" THEN NoTime ELSE clock]
<1>1. op \in {"get", "approve", "reject", "verify"}
  BY ClientOpsAssumption
<1>2. call \in Calls
  BY <1>1, IdleOK DEF CallOK, Calls, Times
<1>3. CallOK(call)
  BY <1>1, <1>2 DEF CallOK, Idle
<1>4. calls' = [calls EXCEPT ![c] = call]
  BY DEF Begin
<1> HIDE DEF call
<1>5. QED
  BY <1>3, <1>4, StoreCall

\* The verifier's first read.
LEMMA VerifyReadRowOK ==
  ASSUME Tables, CallsOK, NEW c \in Clients, VerifyReadRow(c)
  PROVE  CallsOK'
<1> DEFINE a == calls[c].approval_id
           call == [calls[c] EXCEPT !.pc = "verify_rows", !.seen = Commitment(approvals[a])]
<1>1. calls[c].pc = "verify" /\ a \in ApprovalIds /\ calls[c] \in Calls
  BY DEF VerifyReadRow, CallsOK, CallOK
<1>2. CASE Reply(c, "APPROVAL_NOT_FOUND")
  <2>1. "APPROVAL_NOT_FOUND" \in CallReplies
    BY DEF CallReplies
  <2>2. QED
    BY <1>1, <1>2, <2>1, ReplyOK
<1>3. CASE calls' = [calls EXCEPT ![c].pc = "verify_rows", ![c].seen = Commitment(approvals[a])]
  <2>1. Commitment(approvals[a]) \in Commitments
    BY <1>1 DEF Commitment, Commitments, Tables, Rows
  <2>2. CallOK(call)
    BY <1>1, <2>1 DEF CallOK, Calls
  <2>3. calls' = [calls EXCEPT ![c] = call]
    BY <1>3
  <2> HIDE DEF call
  <2>4. QED
    BY <2>2, <2>3, StoreCall
<1>4. QED
  BY <1>2, <1>3 DEF VerifyReadRow

\* The verifier's second read answers.
LEMMA VerifyReadLogOK ==
  ASSUME CallsOK, NEW c \in Clients, VerifyReadLog(c)
  PROVE  CallsOK'
<1>1. calls[c].pc # "idle"
  BY DEF VerifyReadLog
<1>2. PICK reply \in {"VALID", "INVALID"} : Reply(c, reply)
  BY DEF VerifyReadLog
<1>3. reply \in CallReplies
  BY DEF CallReplies
<1>4. QED
  BY <1>1, <1>2, <1>3, ReplyOK

\* A storage failure answers with an error.
LEMMA StorageFailsOK ==
  ASSUME CallsOK, NEW c \in Clients, StorageFails(c)
  PROVE  CallsOK'
<1>1. calls[c].pc # "idle"
  BY DEF StorageFails
<1>2. PICK reply \in {"APPROVAL_UNAVAILABLE", "INVALID"} : Reply(c, reply)
  BY DEF StorageFails
<1>3. reply \in CallReplies
  BY DEF CallReplies
<1>4. QED
  BY <1>1, <1>2, <1>3, ReplyOK

-----------------------------------------------------------------------------
(* The inductive invariant and the theorems.                               *)

ApprovalInv ==
  /\ clock \in Nat
  /\ Tables
  /\ CallsOK

\* Empty tables and idle callers.
LEMMA ApprovalInvInit == ApprovalInit => ApprovalInv
<1> SUFFICES ASSUME ApprovalInit PROVE ApprovalInv
  OBVIOUS
<1>1. Tables
  <2>1. NoRow \in Rows /\ <<>> \in Seq(AuditRows)
    BY AbsentRow DEF RowInv
  <2>2. QED
    BY <2>1, AbsentRow DEF ApprovalInit, Tables
<1>2. CallsOK
  BY IdleOK DEF ApprovalInit, CallsOK, CallOK
<1>3. QED
  BY <1>1, <1>2 DEF ApprovalInit, ApprovalInv

\* Every step of every client keeps the invariant and moves each approval only as
\* RowStep allows.
LEMMA ApprovalInvStep ==
  ASSUME ApprovalInv, [ApprovalNext]_approvalVars
  PROVE  ApprovalInv' /\ TableStep
<1> USE DEF ApprovalInv
<1>1. CASE Tick
  BY <1>1, SameTables DEF Tick, TableStep, CallsOK
<1>2. CASE UNCHANGED approvalVars
  BY <1>2, SameTables DEF approvalVars, TableStep, CallsOK
<1>3. ASSUME NEW c \in Clients, NEW a \in ApprovalIds, NEW request \in Requests,
             BeginCreate(c, a, request)
      PROVE  ApprovalInv' /\ TableStep
  BY <1>3, BeginCreateOK, SameTables DEF BeginCreate, TableStep
<1>4. ASSUME NEW c \in Clients, NEW a \in ApprovalIds, NEW op \in ClientOps, Begin(c, op, a)
      PROVE  ApprovalInv' /\ TableStep
  BY <1>4, BeginOK, SameTables DEF Begin, TableStep
<1>5. ASSUME NEW c \in Clients, CallStep(c)
      PROVE  ApprovalInv' /\ TableStep
  <2>1. CASE CreateTxn(c)
    BY <2>1, CreateTxnOK DEF CreateTxn, TableStep
  <2>2. CASE GetTxn(c)
    BY <2>2, GetTxnOK DEF GetTxn, TableStep
  <2>3. CASE TransitionTxn(c)
    BY <2>3, TransitionTxnOK DEF TransitionTxn, TableStep
  <2>4. CASE VerifyReadRow(c)
    BY <2>4, VerifyReadRowOK, SameTables DEF VerifyReadRow, TableStep
  <2>5. CASE VerifyReadLog(c)
    BY <2>5, VerifyReadLogOK, SameTables DEF VerifyReadLog, TableStep
  <2>6. QED
    BY <1>5, <2>1, <2>2, <2>3, <2>4, <2>5 DEF CallStep
<1>6. ASSUME NEW c \in Clients, Return(c) \/ Crash(c)
      PROVE  ApprovalInv' /\ TableStep
  BY <1>6, IdleOK, StoreCall, SameTables DEF Return, Crash, TableStep
<1>7. ASSUME NEW c \in Clients, StorageFails(c)
      PROVE  ApprovalInv' /\ TableStep
  BY <1>7, StorageFailsOK, SameTables DEF StorageFails, TableStep
<1>8. QED
  BY <1>1, <1>2, <1>3, <1>4, <1>5, <1>6, <1>7 DEF ApprovalNext

\* The invariant holds of every behaviour.
THEOREM ApprovalInvariant == ApprovalSpec => []ApprovalInv
<1>1. ApprovalInv /\ [ApprovalNext]_approvalVars => ApprovalInv'
  BY ApprovalInvStep
<1>2. QED
  BY <1>1, ApprovalInvInit, PTL DEF ApprovalSpec

\* The verifier accepts a linked chain exactly as long as its numbers are within
\* the limit of AuditEvent.
LEMMA LinkedVerifies ==
  ASSUME NEW row \in Rows, NEW log \in Seq(AuditRows), Linked(row, log)
  PROVE  VerifyAuditChain(log, row) <=> Len(log) <= MaxSequence
<1>1. Len(log) \in Nat /\ MaxSequence \in Nat
  BY MaxSequenceAssumption
<1>2. ASSUME Len(log) <= MaxSequence
      PROVE  VerifyAuditChain(log, row)
  BY <1>1, <1>2 DEF VerifyAuditChain, RowVerifies, Linked
<1>3. ASSUME VerifyAuditChain(log, row)
      PROVE  Len(log) <= MaxSequence
  <2>1. CASE Len(log) = 0
    BY <1>1, <2>1
  <2>2. CASE Len(log) # 0
    <3>1. Len(log) \in 1..Len(log)
      BY <1>1, <2>2
    <3>2. RowVerifies(log, Len(log))
      BY <1>3, <3>1 DEF VerifyAuditChain
    <3>3. QED
      BY <3>2 DEF RowVerifies
  <2>3. QED
    BY <2>1, <2>2
<1>4. QED
  BY <1>2, <1>3

\* The safety properties of the runs are parts of the invariant.
LEMMA ApprovalInvImplies ==
  ApprovalInv => /\ ApprovalTypeOK
                 /\ AuditTellsTheHistory
                 /\ ChainIntact
<1> SUFFICES ASSUME ApprovalInv
             PROVE  /\ ApprovalTypeOK
                    /\ AuditTellsTheHistory
                    /\ ChainIntact
  OBVIOUS
<1>1. ApprovalTypeOK
  BY DEF ApprovalInv, Tables, CallsOK, CallOK, ApprovalTypeOK
<1>2. AuditTellsTheHistory
  BY DEF ApprovalInv, Tables, RowInv, History, AuditTellsTheHistory
<1>3. ChainIntact
  BY LinkedVerifies DEF ApprovalInv, Tables, RowInv, ChainIntact
<1>4. QED
  BY <1>1, <1>2, <1>3

\* The tables and the calls of ApprovalService always have their shape.
THEOREM ApprovalTypeCorrect == ApprovalSpec => []ApprovalTypeOK
BY ApprovalInvariant, ApprovalInvImplies, PTL

\* The audit log of an approval and its row tell one story: created first, decided
\* once and second, attempts after that.
THEOREM HistoryTold == ApprovalSpec => []AuditTellsTheHistory
BY ApprovalInvariant, ApprovalInvImplies, PTL

\* _verify_audit_chain accepts what _append_audit wrote, exactly up to the limit on
\* sequence numbers.
THEOREM ChainStaysIntact == ApprovalSpec => []ChainIntact
BY ApprovalInvariant, ApprovalInvImplies, PTL

\* A decided approval is never decided again, and what an approval binds of the
\* policy decision never changes.
THEOREM DecisionsAreFinal == ApprovalSpec => DecisionIsFinal
<1> DEFINE Final == \A a \in ApprovalIds :
       /\ approvals[a].status \in TerminalStatuses => Fixed(approvals'[a]) = Fixed(approvals[a])
       /\ Exists(a) => /\ approvals'[a].provenance = approvals[a].provenance
                       /\ approvals'[a].action = approvals[a].action
                       /\ approvals'[a].expires_at = approvals[a].expires_at
                       /\ approvals'[a].status # "ABSENT"
<1>1. ApprovalInv /\ [ApprovalNext]_approvalVars => Final
  BY ApprovalInvStep DEF TableStep, RowStep, Exists
<1>2. QED
  BY <1>1, ApprovalInvariant, PTL DEF ApprovalSpec, DecisionIsFinal

-----------------------------------------------------------------------------
(* The clock.                                                              *)

\* No call and no row holds a time that is still to come.
Timed == {"create", "get", "approve", "reject"}

ClockInv ==
  /\ \A c \in Clients : calls[c].pc \in Timed => calls[c].now <= clock
  /\ \A a \in ApprovalIds :
       approvals[a].status \in TerminalStatuses => approvals[a].decided_at <= clock

\* A call that has its answer, or has not begun, holds no time.
LEMMA UntimedCalls ==
  /\ Idle.pc = "idle"
  /\ \A call, reply : Done(call, reply).pc = "done"
BY DEF Idle, Done

\* Storing one call, with a time that has been read or none.
LEMMA StoreTime ==
  ASSUME ApprovalInv, ClockInv, NEW c \in Clients, NEW call,
         call.pc \in Timed => call.now <= clock,
         calls' = [calls EXCEPT ![c] = call], UNCHANGED clock
  PROVE  \A d \in Clients : calls'[d].pc \in Timed => calls'[d].now <= clock'
<1> SUFFICES ASSUME NEW d \in Clients
             PROVE  calls'[d].pc \in Timed => calls'[d].now <= clock'
  OBVIOUS
<1>1. CASE d = c
  <2>1. calls'[d] = call
    BY <1>1 DEF ApprovalInv, CallsOK
  <2>2. QED
    BY <2>1
<1>2. CASE d # c
  <2>1. calls'[d] = calls[d]
    BY <1>2 DEF ApprovalInv, CallsOK
  <2>2. QED
    BY <2>1 DEF ClockInv
<1>3. QED
  BY <1>1, <1>2

\* Storing one row, whose decision is dated with a time that has been read.
LEMMA StoreDate ==
  ASSUME ApprovalInv, ClockInv, NEW a \in ApprovalIds, NEW row \in Rows,
         NEW type, NEW status, NEW detail, AppendAudit(a, row, type, status, detail),
         row.status \in TerminalStatuses => row.decided_at <= clock, UNCHANGED clock
  PROVE  \A b \in ApprovalIds :
           approvals'[b].status \in TerminalStatuses => approvals'[b].decided_at <= clock'
<1> SUFFICES ASSUME NEW b \in ApprovalIds
             PROVE  approvals'[b].status \in TerminalStatuses => approvals'[b].decided_at <= clock'
  OBVIOUS
<1> DEFINE row2 == Advanced(row, type, status, detail)
<1>1. approvals' = [approvals EXCEPT ![a] = row2]
  BY DEF AppendAudit
<1>2. row2.status = row.status /\ row2.decided_at = row.decided_at
  BY AdvancedFields
<1> HIDE DEF row2
<1>3. CASE b = a
  <2>1. approvals'[b] = row2
    BY <1>1, <1>3 DEF ApprovalInv, Tables
  <2>2. QED
    BY <1>2, <2>1
<1>4. CASE b # a
  <2>1. approvals'[b] = approvals[b]
    BY <1>1, <1>4 DEF ApprovalInv, Tables
  <2>2. QED
    BY <2>1 DEF ClockInv
<1>5. QED
  BY <1>3, <1>4

\* An answer ends the use of the time a call has read.
LEMMA ReplyTime ==
  ASSUME ApprovalInv, ClockInv, NEW c \in Clients, NEW reply, Reply(c, reply), UNCHANGED clock
  PROVE  \A d \in Clients : calls'[d].pc \in Timed => calls'[d].now <= clock'
<1>1. calls' = [calls EXCEPT ![c] = Done(calls[c], reply)]
  BY DEF Reply
<1>2. Done(calls[c], reply).pc \notin Timed
  BY UntimedCalls DEF Timed
<1>3. QED
  BY <1>1, <1>2, StoreTime

\* A transaction dates a decision or an expiry with the time its caller read.
LEMMA TransactionTime ==
  ASSUME ApprovalInv, ClockInv, NEW c \in Clients, CreateTxn(c) \/ GetTxn(c) \/ TransitionTxn(c)
  PROVE  ClockInv'
<1> DEFINE a == calls[c].approval_id
           row == approvals[a]
           now == calls[c].now
<1>1. /\ calls[c].pc \in Timed /\ a \in ApprovalIds /\ now \in Nat /\ now <= clock
      /\ row \in Rows /\ UNCHANGED clock
  <2>1. calls[c].pc \in Timed /\ UNCHANGED clock
    BY DEF CreateTxn, GetTxn, TransitionTxn, Timed
  <2>2. QED
    BY <2>1 DEF Timed, ApprovalInv, ClockInv, CallsOK, CallOK, Tables
<1>2. ASSUME NEW reply, Refuse(c, reply)
      PROVE  ClockInv'
  BY <1>1, <1>2, ReplyTime DEF Refuse, ClockInv
<1>3. ASSUME NEW reply, Reply(c, reply), NEW new \in Rows, NEW type, NEW status,
             AppendAudit(a, new, type, status, NoDetail),
             new.status \in TerminalStatuses => new.decided_at <= clock
      PROVE  ClockInv'
  BY <1>1, <1>3, ReplyTime, StoreDate DEF ClockInv
<1>4. ASSUME NEW status \in TerminalStatuses
      PROVE  LET new == [row EXCEPT !.status = status, !.decided_at = now] IN
             new \in Rows /\ new.decided_at = now
  BY <1>1 DEF Rows, Times, ApprovalStatuses
<1>5. ASSUME NEW reply, Reply(c, reply), Expire(a, now)
      PROVE  ClockInv'
  BY <1>1, <1>3, <1>4, <1>5 DEF Expire, TerminalStatuses
<1>6. CASE CreateTxn(c)
  <2>1. CASE Refuse(c, "APPROVAL_CONFLICT")
    BY <1>2, <2>1
  <2>2. CASE /\ AppendAudit(a, NewRow(calls[c].provenance, now), "APPROVAL_CREATED", "PENDING",
                            NoDetail)
             /\ Reply(c, "PENDING")
    <3>1. calls[c].provenance \in Provenances /\ calls[c].provenance.action \in RecommendedActions
      BY DEF ApprovalInv, CallsOK, Calls, Provenances
    <3>2. NoRow \in Rows /\ now + TTL \in Nat
      BY <1>1, AbsentRow, TTLAssumption DEF RowInv
    <3>3. NewRow(calls[c].provenance, now) \in Rows
          /\ NewRow(calls[c].provenance, now).status = "PENDING"
      BY <3>1, <3>2 DEF NewRow, Rows, Times, ApprovalStatuses
    <3>4. QED
      BY <1>3, <2>2, <3>3 DEF TerminalStatuses
  <2>3. QED
    BY <1>6, <2>1, <2>2 DEF CreateTxn
<1>7. CASE GetTxn(c)
  BY <1>2, <1>5, <1>7 DEF GetTxn, CannotOpen
<1>8. CASE TransitionTxn(c)
  <2>1. CASE CannotOpen(c, a)
    BY <1>2, <2>1 DEF CannotOpen
  <2>2. CASE ExpireInstead(c, a)
    BY <1>5, <2>2 DEF ExpireInstead
  <2>3. CASE LogRejectedTransition(c, a)
    <3>1. row.status \in TerminalStatuses => row.decided_at <= clock
      BY <1>1 DEF ClockInv
    <3>2. QED
      BY <1>1, <1>3, <2>3, <3>1 DEF LogRejectedTransition
  <2>4. CASE Decide(c, a)
    <3>1. PICK target \in {"APPROVED", "REJECTED"} :
               AppendAudit(a, [row EXCEPT !.status = target, !.decided_at = now],
                           DecisionEvent(target), target, NoDetail)
      BY <2>4 DEF Decide, Target
    <3>2. PICK heard : Reply(c, heard)
      BY <2>4 DEF Decide, Committed
    <3>3. QED
      BY <1>1, <1>3, <1>4, <3>1, <3>2 DEF TerminalStatuses
  <2>5. QED
    BY <1>8, <2>1, <2>2, <2>3, <2>4 DEF TransitionTxn
<1>9. QED
  BY <1>6, <1>7, <1>8

\* Time only passes, and a call reads it as it begins.
LEMMA ClockInvStep ==
  ASSUME ApprovalInv, ClockInv, [ApprovalNext]_approvalVars
  PROVE  ClockInv'
<1>1. CASE Tick
  <2>1. clock \in Nat /\ clock' = clock + 1 /\ UNCHANGED <<approvals, calls>>
    BY <1>1 DEF Tick, ApprovalInv
  <2>2. ASSUME NEW c \in Clients, calls[c].pc \in Timed
        PROVE  calls[c].now <= clock'
    <3>1. calls[c].now \in Nat /\ calls[c].now <= clock
      BY <2>2 DEF Timed, ApprovalInv, CallsOK, CallOK, ClockInv
    <3>2. QED
      BY <2>1, <3>1
  <2>3. ASSUME NEW a \in ApprovalIds, approvals[a].status \in TerminalStatuses
        PROVE  approvals[a].decided_at <= clock'
    <3>1. approvals[a].decided_at \in Int /\ approvals[a].decided_at <= clock
      BY <2>3 DEF ApprovalInv, Tables, Rows, Times, NoTime, ClockInv
    <3>2. QED
      BY <2>1, <3>1
  <2>4. QED
    BY <2>1, <2>2, <2>3 DEF ClockInv
<1>2. CASE UNCHANGED approvalVars
  BY <1>2 DEF approvalVars, ClockInv
<1>3. ASSUME NEW c \in Clients, NEW call, call.pc \in Timed => call.now <= clock,
             calls' = [calls EXCEPT ![c] = call], UNCHANGED <<clock, approvals>>
      PROVE  ClockInv'
  BY <1>3, StoreTime DEF ClockInv
<1>4. ASSUME NEW c \in Clients, NEW a, NEW request, BeginCreate(c, a, request)
      PROVE  ClockInv'
  <2> DEFINE provenance == TrustedProvenance(request)
             begun == [Idle EXCEPT !.pc = "create", !.op = "create", !.approval_id = a,
                                   !.now = clock, !.provenance = provenance]
             told == Done([op |-> "create", approval_id |-> a], "POLICY_VALIDATION_FAILED")
  <2>1. \/ calls' = [calls EXCEPT ![c] = begun]
        \/ calls' = [calls EXCEPT ![c] = told]
    BY <1>4 DEF BeginCreate
  <2>2. begun.now = clock /\ told.pc \notin Timed
    BY UntimedCalls DEF Idle, Timed
  <2>3. clock \in Nat /\ UNCHANGED <<clock, approvals>>
    BY <1>4 DEF BeginCreate, ApprovalInv
  <2> HIDE DEF begun, told
  <2>4. begun.now <= clock
    BY <2>2, <2>3
  <2>5. QED
    BY <1>3, <2>1, <2>2, <2>3, <2>4
<1>5. ASSUME NEW c \in Clients, NEW a, NEW op, Begin(c, op, a)
      PROVE  ClockInv'
  <2> DEFINE begun == [Idle EXCEPT !.pc = op, !.op = op, !.approval_id = a,
                                   !.now = IF op = "verify" THEN NoTime ELSE clock]
  <2>1. calls' = [calls EXCEPT ![c] = begun]
    BY <1>5 DEF Begin
  <2>2. begun.pc = op /\ begun.now = IF op = "verify" THEN NoTime ELSE clock
    BY DEF Idle
  <2>3. clock \in Nat /\ UNCHANGED <<clock, approvals>>
    BY <1>5 DEF Begin, ApprovalInv
  <2> HIDE DEF begun
  <2>4. begun.pc \in Timed => begun.now <= clock
    BY <2>2, <2>3 DEF Timed
  <2>5. QED
    BY <1>3, <2>1, <2>3, <2>4
<1>6. ASSUME NEW c \in Clients, NEW reply, Reply(c, reply), UNCHANGED <<clock, approvals>>
      PROVE  ClockInv'
  BY <1>6, ReplyTime DEF ClockInv
<1>7. ASSUME NEW c \in Clients, VerifyReadRow(c) \/ VerifyReadLog(c)
      PROVE  ClockInv'
  <2>1. CASE calls' = [calls EXCEPT ![c].pc = "verify_rows",
                                    ![c].seen = Commitment(approvals[calls[c].approval_id])]
    <3> DEFINE call == [calls[c] EXCEPT !.pc = "verify_rows",
                                        !.seen = Commitment(approvals[calls[c].approval_id])]
    <3>1. calls' = [calls EXCEPT ![c] = call]
      BY <2>1 DEF ApprovalInv, CallsOK, Calls
    <3>2. call.pc = "verify_rows"
      BY DEF ApprovalInv, CallsOK, Calls
    <3>3. UNCHANGED <<clock, approvals>>
      BY <1>7 DEF VerifyReadRow, VerifyReadLog
    <3> HIDE DEF call
    <3>4. QED
      BY <1>3, <3>1, <3>2, <3>3 DEF Timed
  <2>2. QED
    BY <1>6, <1>7, <2>1 DEF VerifyReadRow, VerifyReadLog
<1>8. ASSUME NEW c \in Clients, Return(c) \/ Crash(c)
      PROVE  ClockInv'
  BY <1>3, <1>8, UntimedCalls DEF Return, Crash, Timed
<1>9. ASSUME NEW c \in Clients, StorageFails(c)
      PROVE  ClockInv'
  BY <1>6, <1>9 DEF StorageFails
<1>10. QED
  BY <1>1, <1>2, <1>4, <1>5, <1>7, <1>8, <1>9, TransactionTime DEF ApprovalNext, CallStep

\* Nobody has called.
LEMMA ClockInvInit == ApprovalInit => ClockInv
BY DEF ApprovalInit, ClockInv, Idle, NoRow, Timed, TerminalStatuses

\* The deadline, against the time that was recorded and the time it is.
LEMMA OnTimeByTheClock == ApprovalInv /\ ClockInv => DecisionRespectsDeadline
BY DEF ApprovalInv, ClockInv, Tables, RowInv, OnTime, DecisionRespectsDeadline

\* However long approve, reject or get wait for the write lock, the time they read
\* before decides and is recorded: no decision of a person was asked for at or after the
\* deadline, and no expiry is stored before it.
THEOREM DeadlineRespected == ApprovalSpec => []DecisionRespectsDeadline
<1>1. ApprovalInv /\ ClockInv /\ [ApprovalNext]_approvalVars => ClockInv'
  BY ClockInvStep
<1>2. QED
  BY <1>1, ClockInvInit, OnTimeByTheClock, ApprovalInvariant, PTL DEF ApprovalSpec

-----------------------------------------------------------------------------
(* The answers.                                                            *)

\* What a call was told, against the row and the log of its approval.
AnswerTrue(call, row, log) ==
  /\ call.reply \in TerminalStatuses => row.status = call.reply
  /\ call.reply = "APPROVAL_EXPIRED" => row.status = "EXPIRED"
  /\ call.reply = "APPROVAL_INVALID_STATE" => Logged(log, "APPROVAL_TRANSITION_REJECTED")

\* A call that was told that its own approve or reject was carried out.
ToldItDecided(call) ==
  call.op \in {"approve", "reject"} /\ call.reply \in {"APPROVED", "REJECTED"}

\* Only a finished call has a reply, and only get runs under the name of get.
CallHistory(call) ==
  /\ call.pc # "done" => call.reply = "none"
  /\ call.pc = "get" => call.op = "get"

AnswersInv ==
  /\ \A c \in Clients :
       LET a == calls[c].approval_id IN
       /\ CallHistory(calls[c])
       /\ calls[c].pc = "done" => AnswerTrue(calls[c], approvals[a], audit[a])
  /\ \A c, d \in Clients :
       /\ ToldItDecided(calls[c]) /\ ToldItDecided(calls[d])
       /\ calls[c].approval_id = calls[d].approval_id
       => c = d

\* An event once logged stays logged.
LEMMA LoggedStays ==
  ASSUME NEW log, NEW log2, NEW type, Len(log) \in Nat, Len(log2) \in Nat,
         Len(log2) >= Len(log), \A n \in 1..Len(log) : log2[n] = log[n], Logged(log, type)
  PROVE  Logged(log2, type)
<1>1. PICK n \in 1..Len(log) : log[n].payload.event_type = type
  BY DEF Logged, Positions
<1>2. n \in 1..Len(log2) /\ log2[n].payload.event_type = type
  BY <1>1
<1>3. QED
  BY <1>2 DEF Logged, Positions

\* A true answer stays true: a decided row is final and a log only grows.
LEMMA AnswerStays ==
  ASSUME NEW call, NEW row, NEW log \in Seq(AuditRows), NEW row2, NEW log2 \in Seq(AuditRows),
         RowStep(row, log, row2, log2), AnswerTrue(call, row, log)
  PROVE  AnswerTrue(call, row2, log2)
<1>1. Len(log) \in Nat /\ Len(log2) \in Nat
  OBVIOUS
<1>2. row.status \in TerminalStatuses => row2.status = row.status
  BY DEF RowStep, Fixed
<1>3. Logged(log, "APPROVAL_TRANSITION_REJECTED") => Logged(log2, "APPROVAL_TRANSITION_REJECTED")
  BY <1>1, LoggedStays DEF RowStep
<1>4. QED
  BY <1>2, <1>3 DEF AnswerTrue, TerminalStatuses

\* A transaction, and the calls as they are: every answer given still holds.
LEMMA AnswersStay ==
  ASSUME Tables, CallsOK, AnswersInv, TableStep, NEW c \in Clients, calls[c].pc = "done"
  PROVE  AnswerTrue(calls[c], approvals'[calls[c].approval_id], audit'[calls[c].approval_id])
<1> DEFINE a == calls[c].approval_id
<1>1. a \in ApprovalIds
  BY DEF CallsOK, CallOK
<1>2. /\ audit[a] \in Seq(AuditRows) /\ audit'[a] \in Seq(AuditRows)
      /\ RowStep(approvals[a], audit[a], approvals'[a], audit'[a])
  BY <1>1 DEF Tables, TableStep
<1>3. AnswerTrue(calls[c], approvals[a], audit[a])
  BY DEF AnswersInv
<1>4. QED
  BY <1>2, <1>3, AnswerStays

\* One call is replaced in a step that moves the tables: if it is told that it
\* decided, the approval was PENDING until then.
LEMMA StoreAnswer ==
  ASSUME Tables, CallsOK, AnswersInv, TableStep, NEW c \in Clients, NEW call,
         calls' = [calls EXCEPT ![c] = call], CallHistory(call),
         call.pc = "done" => AnswerTrue(call, approvals'[call.approval_id],
                                        audit'[call.approval_id]),
         ToldItDecided(call) => approvals[call.approval_id].status = "PENDING"
  PROVE  AnswersInv'
<1>1. \A d \in Clients : calls'[d] = IF d = c THEN call ELSE calls[d]
  BY DEF CallsOK
<1>2. ASSUME NEW d \in Clients
      PROVE  /\ CallHistory(calls'[d])
             /\ calls'[d].pc = "done" =>
                  AnswerTrue(calls'[d], approvals'[calls'[d].approval_id],
                             audit'[calls'[d].approval_id])
  <2>1. CASE d = c
    BY <1>1, <2>1
  <2>2. CASE d # c
    <3>1. calls'[d] = calls[d] /\ CallHistory(calls[d])
      BY <1>1, <2>2 DEF AnswersInv
    <3>2. QED
      BY <3>1, AnswersStay
  <2>3. QED
    BY <2>1, <2>2
<1>3. ASSUME NEW d \in Clients, ToldItDecided(calls[d])
      PROVE  approvals[calls[d].approval_id].status # "PENDING"
  BY <1>3 DEF AnswersInv, CallHistory, AnswerTrue, ToldItDecided, TerminalStatuses
<1>4. ASSUME NEW d \in Clients, NEW e \in Clients, ToldItDecided(calls'[d]),
             ToldItDecided(calls'[e]), calls'[d].approval_id = calls'[e].approval_id
      PROVE  d = e
  <2>1. CASE d # c /\ e # c
    BY <1>1, <1>4, <2>1 DEF AnswersInv
  <2>2. CASE d = c /\ e # c
    BY <1>1, <1>3, <1>4, <2>2
  <2>3. CASE d # c /\ e = c
    BY <1>1, <1>3, <1>4, <2>3
  <2>4. QED
    BY <2>1, <2>2, <2>3
<1>5. QED
  BY <1>2, <1>4 DEF AnswersInv, AnswerTrue, CallHistory, ToldItDecided

\* A reply that is true of the tables after the step.
LEMMA ReplyAnswers ==
  ASSUME Tables, CallsOK, AnswersInv, TableStep, NEW c \in Clients, NEW reply, Reply(c, reply),
         LET a == calls[c].approval_id IN
         /\ reply \in TerminalStatuses => approvals'[a].status = reply
         /\ reply = "APPROVAL_EXPIRED" => approvals'[a].status = "EXPIRED"
         /\ reply = "APPROVAL_INVALID_STATE" => Logged(audit'[a], "APPROVAL_TRANSITION_REJECTED")
         /\ calls[c].op \in {"approve", "reject"} /\ reply \in {"APPROVED", "REJECTED"} =>
              approvals[a].status = "PENDING"
  PROVE  AnswersInv'
<1> DEFINE call == Done(calls[c], reply)
<1>1. /\ call.pc = "done" /\ call.op = calls[c].op
      /\ call.approval_id = calls[c].approval_id /\ call.reply = reply
  BY DEF Done, Idle
<1>2. calls' = [calls EXCEPT ![c] = call]
  BY DEF Reply
<1> HIDE DEF call
<1>3. CallHistory(call)
  BY <1>1 DEF CallHistory
<1>4. AnswerTrue(call, approvals'[call.approval_id], audit'[call.approval_id])
  BY <1>1 DEF AnswerTrue
<1>5. ToldItDecided(call) => approvals[call.approval_id].status = "PENDING"
  BY <1>1 DEF ToldItDecided
<1>6. QED
  BY <1>2, <1>3, <1>4, <1>5, StoreAnswer

\* The replies that say nothing about the approval.
Silent == {"none", "PENDING", "VALID", "INVALID", "POLICY_VALIDATION_FAILED", "APPROVAL_CONFLICT",
           "APPROVAL_NOT_FOUND", "PROVENANCE_INTEGRITY_FAILURE", "APPROVAL_UNAVAILABLE"}

\* An answer that says nothing about the approval, whatever happened to it.
LEMMA SilentAnswers ==
  ASSUME Tables, CallsOK, AnswersInv, TableStep, NEW c \in Clients, NEW reply \in Silent,
         Reply(c, reply)
  PROVE  AnswersInv'
<1>1. reply \notin TerminalStatuses \cup {"APPROVAL_EXPIRED", "APPROVAL_INVALID_STATE"}
  BY DEF Silent, TerminalStatuses
<1>2. QED
  BY <1>1, ReplyAnswers DEF TerminalStatuses

\* A call that goes on, or begins, without a reply.
LEMMA NoAnswerYet ==
  ASSUME Tables, CallsOK, AnswersInv, TableStep, NEW c \in Clients, NEW call,
         calls' = [calls EXCEPT ![c] = call], call.pc # "done", call.reply = "none",
         call.pc = "get" => call.op = "get"
  PROVE  AnswersInv'
<1>1. CallHistory(call) /\ ~ToldItDecided(call)
  BY DEF CallHistory, ToldItDecided
<1>2. QED
  BY <1>1, StoreAnswer

\* get tells the status it found, or the expiry it stored.
LEMMA GetAnswers ==
  ASSUME Tables, CallsOK, AnswersInv, TableStep, NEW c \in Clients, GetTxn(c)
  PROVE  AnswersInv'
<1> DEFINE a == calls[c].approval_id
<1>1. /\ calls[c].pc = "get" /\ a \in ApprovalIds /\ calls[c].now \in Nat
      /\ calls[c].op = "get"
  BY DEF GetTxn, CallsOK, CallOK, AnswersInv, CallHistory
<1>2. CASE CannotOpen(c, a)
  <2>1. PICK reply \in Silent : Reply(c, reply)
    BY <1>2 DEF CannotOpen, Refuse, Silent
  <2>2. QED
    BY <2>1, SilentAnswers
<1>3. CASE Refuse(c, approvals[a].status)
  <2>1. approvals' = approvals /\ Reply(c, approvals[a].status)
    BY <1>3 DEF Refuse
  <2>2. approvals[a].status \in ApprovalStatuses
    BY <1>1 DEF Tables, Rows
  <2>3. approvals[a].status \notin {"APPROVAL_EXPIRED", "APPROVAL_INVALID_STATE"}
    BY <2>2 DEF ApprovalStatuses, TerminalStatuses
  <2>4. QED
    BY <1>1, <2>1, <2>3, ReplyAnswers
<1>4. CASE /\ approvals[a].status = "PENDING"
           /\ Due(approvals[a], calls[c].now)
           /\ Expire(a, calls[c].now)
           /\ Reply(c, "EXPIRED")
  <2>1. approvals'[a].status = "EXPIRED"
    BY <1>1, <1>4, ExpireOK
  <2>2. QED
    BY <1>1, <1>4, <2>1, ReplyAnswers
<1>5. QED
  BY <1>2, <1>3, <1>4 DEF GetTxn

\* The attempt on a decided approval is in its log when the caller hears of it.
LEMMA RejectionIsLogged ==
  ASSUME Tables, NEW a \in ApprovalIds, approvals[a].status \in TerminalStatuses,
         AppendAudit(a, approvals[a], "APPROVAL_TRANSITION_REJECTED", approvals[a].status,
                     NoDetail)
  PROVE  Logged(audit'[a], "APPROVAL_TRANSITION_REJECTED")
<1> DEFINE type == "APPROVAL_TRANSITION_REJECTED"
           log == audit[a]
           log2 == Append(log, NextAuditRow(approvals[a], type, approvals[a].status, NoDetail))
<1>1. /\ approvals[a] \in Rows /\ log \in Seq(AuditRows)
      /\ type \in AuditEventTypes /\ approvals[a].status \in AuditStatuses
      /\ NoDetail \in Details
  BY DEF Tables, AuditEventTypes, TerminalStatuses, AuditStatuses, Details
<1>2. audit'[a] = log2
  BY DEF AppendAudit, Tables
<1> HIDE DEF type
<1>3. Len(log2) = Len(log) + 1 /\ log2[Len(log) + 1].payload.event_type = type
  BY <1>1, AppendedLog
<1> HIDE DEF log2
<1>4. Len(log) + 1 \in 1..Len(log2)
  BY <1>1, <1>3
<1>5. Logged(log2, type)
  BY <1>3, <1>4 DEF Logged, Positions
<1>6. QED
  BY <1>2, <1>5 DEF type

\* transition tells the caller what its own transaction did.
LEMMA TransitionAnswers ==
  ASSUME Tables, CallsOK, AnswersInv, TableStep, NEW c \in Clients, TransitionTxn(c)
  PROVE  AnswersInv'
<1> DEFINE a == calls[c].approval_id
           target == Target(calls[c].op)
<1>1. /\ calls[c].pc \in {"approve", "reject"} /\ a \in ApprovalIds /\ calls[c].now \in Nat
  BY DEF TransitionTxn, CallsOK, CallOK
<1>2. CASE CannotOpen(c, a)
  <2>1. PICK reply \in Silent : Reply(c, reply)
    BY <1>2 DEF CannotOpen, Refuse, Silent
  <2>2. QED
    BY <2>1, SilentAnswers
<1>3. CASE CanOpen(a) /\ ExpireInstead(c, a)
  <2>1. approvals'[a].status = "EXPIRED" /\ Reply(c, "APPROVAL_EXPIRED")
    BY <1>1, <1>3, ExpireOK DEF ExpireInstead
  <2>2. QED
    BY <2>1, ReplyAnswers DEF TerminalStatuses
<1>4. CASE CanOpen(a) /\ LogRejectedTransition(c, a)
  <2>1. approvals[a].status \in TerminalStatuses
    BY <1>1, <1>4 DEF CanOpen, Exists, LogRejectedTransition, Tables, Rows, ApprovalStatuses
  <2>2. Logged(audit'[a], "APPROVAL_TRANSITION_REJECTED") /\ Reply(c, "APPROVAL_INVALID_STATE")
    BY <1>1, <1>4, <2>1, RejectionIsLogged DEF LogRejectedTransition
  <2>3. QED
    BY <2>2, ReplyAnswers DEF TerminalStatuses
<1>5. CASE CanOpen(a) /\ Decide(c, a)
  <2>1. target \in {"APPROVED", "REJECTED"} /\ target \in TerminalStatuses
    BY DEF Target, TerminalStatuses
  <2>2. EventOf(target) = DecisionEvent(target)
    BY <2>1 DEF EventOf
  <2>3. target = "EXPIRED" <=> Due(approvals[a], calls[c].now)
    BY <1>5, <2>1 DEF Decide
  <2>4. AppendAudit(a, [approvals[a] EXCEPT !.status = target, !.decided_at = calls[c].now],
                    EventOf(target), target, NoDetail)
    BY <1>5, <2>2 DEF Decide
  <2>5. approvals[a].status = "PENDING" /\ Committed(c, target)
    BY <1>5 DEF Decide
  <2> HIDE DEF target
  <2>6. approvals'[a].status = target
    BY <1>1, <2>1, <2>3, <2>4, <2>5, SettleOK
  <2>7. CASE Reply(c, target)
    BY <2>1, <2>5, <2>6, <2>7, ReplyAnswers
  <2>8. CASE Reply(c, "APPROVAL_UNAVAILABLE")
    BY <2>8, SilentAnswers DEF Silent
  <2>9. QED
    BY <2>5, <2>7, <2>8 DEF Committed
<1>6. QED
  BY <1>2, <1>3, <1>4, <1>5 DEF TransitionTxn

\* Every step of every client keeps the answers true.
LEMMA AnswersInvStep ==
  ASSUME ApprovalInv, AnswersInv, [ApprovalNext]_approvalVars
  PROVE  AnswersInv'
<1>1. Tables /\ CallsOK /\ TableStep
  BY ApprovalInvStep DEF ApprovalInv
<1>2. CASE UNCHANGED calls
  <2>1. \A c \in Clients : calls[c].pc = "done" =>
          AnswerTrue(calls[c], approvals'[calls[c].approval_id], audit'[calls[c].approval_id])
    BY <1>1, AnswersStay
  <2>2. QED
    BY <1>2, <2>1 DEF AnswersInv, AnswerTrue, CallHistory, ToldItDecided
<1>3. ASSUME NEW c \in Clients, NEW a \in ApprovalIds, NEW request \in Requests,
             BeginCreate(c, a, request)
      PROVE  AnswersInv'
  <2> DEFINE call == [Idle EXCEPT !.pc = "create", !.op = "create", !.approval_id = a,
                                  !.now = clock, !.provenance = TrustedProvenance(request)]
             refused == Done([op |-> "create", approval_id |-> a], "POLICY_VALIDATION_FAILED")
  <2>1. calls' = [calls EXCEPT ![c] = call] \/ calls' = [calls EXCEPT ![c] = refused]
    BY <1>3 DEF BeginCreate
  <2>2. call.pc = "create" /\ call.reply = "none"
    BY DEF Idle
  <2>3. refused.pc = "done" /\ refused.op = "create" /\ refused.reply = "POLICY_VALIDATION_FAILED"
    BY DEF Done, Idle
  <2> HIDE DEF call, refused
  <2>4. /\ CallHistory(refused) /\ ~ToldItDecided(refused)
        /\ AnswerTrue(refused, approvals'[refused.approval_id], audit'[refused.approval_id])
    BY <2>3 DEF CallHistory, ToldItDecided, AnswerTrue, TerminalStatuses
  <2>5. CASE calls' = [calls EXCEPT ![c] = call]
    BY <1>1, <2>2, <2>5, NoAnswerYet
  <2>6. CASE calls' = [calls EXCEPT ![c] = refused]
    BY <1>1, <2>4, <2>6, StoreAnswer
  <2>7. QED
    BY <2>1, <2>5, <2>6
<1>4. ASSUME NEW c \in Clients, NEW a \in ApprovalIds, NEW op \in ClientOps, Begin(c, op, a)
      PROVE  AnswersInv'
  <2> DEFINE call == [Idle EXCEPT !.pc = op, !.op = op, !.approval_id = a,
                                  !.now = IF op = "verify" THEN NoTime ELSE clock]
  <2>1. calls' = [calls EXCEPT ![c] = call]
    BY <1>4 DEF Begin
  <2>2. call.pc = op /\ call.op = op /\ call.reply = "none" /\ op # "done"
    BY ClientOpsAssumption DEF Idle
  <2> HIDE DEF call
  <2>3. QED
    BY <1>1, <2>1, <2>2, NoAnswerYet
<1>5. ASSUME NEW c \in Clients, CreateTxn(c)
      PROVE  AnswersInv'
  <2>1. PICK reply \in Silent : Reply(c, reply)
    BY <1>5 DEF CreateTxn, Refuse, Silent
  <2>2. QED
    BY <1>1, <2>1, SilentAnswers
<1>6. ASSUME NEW c \in Clients, VerifyReadRow(c)
      PROVE  AnswersInv'
  <2> DEFINE call == [calls[c] EXCEPT !.pc = "verify_rows",
                                      !.seen = Commitment(approvals[calls[c].approval_id])]
  <2>1. CASE Reply(c, "APPROVAL_NOT_FOUND")
    BY <1>1, <2>1, SilentAnswers DEF Silent
  <2>2. CASE calls' = [calls EXCEPT ![c].pc = "verify_rows",
                                    ![c].seen = Commitment(approvals[calls[c].approval_id])]
    <3>1. calls' = [calls EXCEPT ![c] = call]
      BY <2>2
    <3>2. calls[c] \in Calls /\ calls[c].reply = "none"
      BY <1>1, <1>6 DEF CallsOK, VerifyReadRow, AnswersInv, CallHistory
    <3>3. call.pc = "verify_rows" /\ call.reply = "none"
      BY <3>2 DEF Calls
    <3> HIDE DEF call
    <3>4. QED
      BY <1>1, <3>1, <3>3, NoAnswerYet
  <2>3. QED
    BY <1>6, <2>1, <2>2 DEF VerifyReadRow
<1>7. ASSUME NEW c \in Clients, VerifyReadLog(c) \/ StorageFails(c)
      PROVE  AnswersInv'
  <2>1. PICK reply \in Silent : Reply(c, reply)
    BY <1>7 DEF VerifyReadLog, StorageFails, Silent
  <2>2. QED
    BY <1>1, <2>1, SilentAnswers
<1>8. ASSUME NEW c \in Clients, Return(c) \/ Crash(c)
      PROVE  AnswersInv'
  <2>1. Idle.pc = "idle" /\ Idle.reply = "none" /\ calls' = [calls EXCEPT ![c] = Idle]
    BY <1>8 DEF Idle, Return, Crash
  <2>2. QED
    BY <1>1, <2>1, NoAnswerYet
<1>9. ASSUME NEW c \in Clients, GetTxn(c) \/ TransitionTxn(c)
      PROVE  AnswersInv'
  BY <1>1, <1>9, GetAnswers, TransitionAnswers
<1>10. CASE Tick \/ UNCHANGED approvalVars
  BY <1>2, <1>10 DEF Tick, approvalVars
<1>11. QED
  BY <1>3, <1>4, <1>5, <1>6, <1>7, <1>8, <1>9, <1>10 DEF ApprovalNext, CallStep

\* Idle callers were told nothing.
LEMMA AnswersInvInit == ApprovalInit => AnswersInv
BY DEF ApprovalInit, AnswersInv, CallHistory, ToldItDecided, Idle

\* The property is what the invariant says of the calls that are done.
LEMMA AnswersInvImplies == AnswersInv => AnswersHold
<1> SUFFICES ASSUME AnswersInv, NEW c \in Clients
             PROVE  LET row == approvals[calls[c].approval_id]
                        log == audit[calls[c].approval_id] IN
                    /\ AnswerTrue(calls[c], row, log)
                    /\ Decided(c) =>
                         \A d \in Clients \ {c} :
                           calls[d].approval_id = calls[c].approval_id => ~Decided(d)
  BY DEF AnswersHold, AnswerTrue
<1>1. calls[c].pc # "done" => calls[c].reply = "none"
  BY DEF AnswersInv, CallHistory
<1>2. AnswerTrue(calls[c], approvals[calls[c].approval_id], audit[calls[c].approval_id])
  BY <1>1 DEF AnswersInv, AnswerTrue, TerminalStatuses
<1>3. QED
  BY <1>2 DEF AnswersInv, Decided, ToldItDecided

\* A decision, an expiry or a logged refusal that approve, reject or get told a caller
\* of still holds while the answer travels (nothing is said of PENDING, which may be
\* over by then), and of the callers racing to decide one approval at most one is told
\* it did.
THEOREM AnswersStayTrue == ApprovalSpec => []AnswersHold
<1>1. ApprovalInv /\ AnswersInv /\ [ApprovalNext]_approvalVars => AnswersInv'
  BY AnswersInvStep
<1>2. QED
  BY <1>1, AnswersInvInit, AnswersInvImplies, ApprovalInvariant, PTL DEF ApprovalSpec

-----------------------------------------------------------------------------
(* The verifier's alarm.                                                   *)

\* A commitment that is still the row's is judged as the row is.
LEMMA CommitmentVerifies ==
  ASSUME NEW row, NEW log, NEW seen, RowInv(row, log), Commitment(row) = seen
  PROVE  VerifyAuditChain(log, seen) <=> Len(log) <= MaxSequence
<1>1. /\ seen.audit_event_count = row.audit_event_count
      /\ seen.audit_head_hash = row.audit_head_hash
  BY DEF Commitment
<1>2. VerifyAuditChain(log, seen) <=> VerifyAuditChain(log, row)
  BY <1>1 DEF VerifyAuditChain
<1>3. QED
  BY <1>2, LinkedVerifies DEF RowInv

\* The second read of verify_audit_chain raises an alarm with a cause.
LEMMA AlarmCaused ==
  ASSUME ApprovalInv, NEW c \in Clients, VerifyReadLog(c), calls'[c].reply = "INVALID"
  PROVE  LET a == calls[c].approval_id IN
         Commitment(approvals[a]) # calls[c].seen \/ Len(audit[a]) > MaxSequence
<1> DEFINE a == calls[c].approval_id
           valid == VerifyAuditChain(audit[a], calls[c].seen)
<1>1. calls[c].pc = "verify_rows" /\ Reply(c, IF valid THEN "VALID" ELSE "INVALID")
  BY DEF VerifyReadLog
<1>2. a \in ApprovalIds /\ RowInv(approvals[a], audit[a]) /\ audit[a] \in Seq(AuditRows)
  BY <1>1 DEF ApprovalInv, Tables, CallsOK, CallOK
<1>3. calls'[c].reply = IF valid THEN "VALID" ELSE "INVALID"
  BY <1>1 DEF Reply, Done, Idle, ApprovalInv, CallsOK
<1>4. ~valid
  BY <1>3
<1>5. Commitment(approvals[a]) = calls[c].seen => ~(Len(audit[a]) <= MaxSequence)
  BY <1>2, <1>4, CommitmentVerifies
<1>6. Len(audit[a]) \in Nat /\ MaxSequence \in Nat
  BY <1>2, MaxSequenceAssumption
<1>7. QED
  BY <1>5, <1>6

\* verify_audit_chain reads row and log separately; when neither read fails, it says
\* "not valid" only of a log that moved between the two or outgrew its numbering.
THEOREM AlarmsHaveACause == ApprovalSpec => AlarmHasACause
<1> DEFINE Caused == \A c \in Clients :
       LET a == calls[c].approval_id IN
       VerifyReadLog(c) /\ calls'[c].reply = "INVALID" =>
         \/ Commitment(approvals[a]) # calls[c].seen
         \/ Len(audit[a]) > MaxSequence
<1>1. ApprovalInv => Caused
  BY AlarmCaused
<1>2. QED
  BY <1>1, ApprovalInvariant, PTL DEF ApprovalSpec, AlarmHasACause
=============================================================================
