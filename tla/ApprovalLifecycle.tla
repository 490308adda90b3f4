------------------------- MODULE ApprovalLifecycle -------------------------
(***************************************************************************)
(* The human-approval boundary: ApprovalService and the SQLite repository  *)
(* below it (services/approvals.py, repositories/approvals.py).            *)
(*                                                                         *)
(* Every operation reads the clock first and then opens a transaction with *)
(* BEGIN IMMEDIATE, so the time it decides with may be old when it gets    *)
(* the write lock; the transaction itself is one atomic step.  The audit   *)
(* verifier is the exception: it runs two SELECTs outside a transaction.   *)
(* Callers are independent and repeat for ever.  Storage can fail before   *)
(* the commit (everything is rolled back) or while the committed row is    *)
(* read back, and a caller's process can die at any point.                 *)
(***************************************************************************)
EXTENDS Policy, AuditLog

CONSTANTS
  ApprovalIds,   \* identities the service may draw
  Clients,       \* concurrent callers of the approval operations
  Requests,      \* [event, intelligence] pairs callers submit
  ClientOps,     \* the operations on an approval that clients call
  TTL,           \* approval_ttl_seconds, in ticks
  MaxTime,       \* bound on the clock
  Faults         \* which failures happen: "storage", "readback", "crash"

ASSUME RequestsAssumption ==
  \A request \in Requests :
    /\ request.event.event_type \in EventTypes
    /\ request.intelligence.recommended_next_step \in NextSteps
ASSUME TTLAssumption == TTL \in Nat \ {0}
ASSUME MaxTimeAssumption == MaxTime \in Nat
ASSUME ClientOpsAssumption == ClientOps \subseteq {"get", "approve", "reject", "verify"}
ASSUME FaultsAssumption == Faults \subseteq {"storage", "readback", "crash"}

VARIABLES
  clock,       \* the server's UTC clock
  approvals,   \* table approvals: one row for each identity
  audit,       \* table approval_audit_events: the rows of each approval
  calls        \* what each client is doing

approvalVars == <<clock, approvals, audit, calls>>

-----------------------------------------------------------------------------
(* Rows and calls.                                                         *)

NoTime == -1
Times == Nat \cup {NoTime}
TerminalStatuses == {"APPROVED", "REJECTED", "EXPIRED"}

\* build_trusted_provenance: what the approval binds of the policy decision.
TrustedProvenance(request) ==
  [event_type |-> request.event.event_type,
   decision |-> decide(request).decision,
   action |-> decide(request).action]

NoProvenance == [event_type |-> "NONE", decision |-> "NONE", action |-> "NONE"]

\* A table has no row for an identity until it is created.
NoRow ==
  [status |-> "ABSENT", action |-> "NONE", expires_at |-> NoTime, decided_at |-> NoTime,
   provenance |-> NoProvenance, audit_event_count |-> 0,
   audit_head_hash |-> GENESIS_AUDIT_HASH]

\* The row ApprovalService.create hands to the repository.
NewRow(provenance, now) ==
  [NoRow EXCEPT
     !.status = "PENDING", !.action = provenance.action, !.expires_at = now + TTL,
     !.provenance = provenance]

NoCommitment == [audit_event_count |-> 0, audit_head_hash |-> GENESIS_AUDIT_HASH]
Commitment(row) == [audit_event_count |-> row.audit_event_count,
                    audit_head_hash |-> row.audit_head_hash]

NoApproval == "none"

Idle == [pc |-> "idle", op |-> "none", approval_id |-> NoApproval, now |-> NoTime,
         provenance |-> NoProvenance, seen |-> NoCommitment, reply |-> "none"]

ApprovalInit ==
  /\ clock = 0
  /\ approvals = [a \in ApprovalIds |-> NoRow]
  /\ audit = [a \in ApprovalIds |-> <<>>]
  /\ calls = [c \in Clients |-> Idle]

-----------------------------------------------------------------------------
(* Helpers of the transactions.                                            *)

Exists(a) == approvals[a].status # "ABSENT"

\* _verify_integrity: the chain, then the row against its provenance.
ProvenanceMatches(row) ==
  /\ row.provenance.action = row.action
  /\ row.provenance.decision = "REQUIRE_HUMAN_APPROVAL"

VerifyIntegrity(a) ==
  /\ VerifyAuditChain(audit[a], approvals[a])
  /\ ProvenanceMatches(approvals[a])

\* Mutant: an approval is not due at its deadline, only after it.
DueAfterDeadline(row, now) == now > row.expires_at

Due(row, now) == now >= row.expires_at

\* One event is appended and `row` is stored with its count and head moved.
AppendAudit(a, row, type, status, detail) ==
  /\ approvals' = [approvals EXCEPT ![a] = Advanced(row, type, status, detail)]
  /\ audit' = [audit EXCEPT ![a] = Append(@, NextAuditRow(row, type, status, detail))]

\* Mutant: the expiry is logged and the status is forgotten.
ExpireOnlyLogs(a, now) ==
  AppendAudit(a, [approvals[a] EXCEPT !.decided_at = now], "APPROVAL_EXPIRED", "EXPIRED", NoDetail)

\* _expire: the row becomes EXPIRED with no approver.
Expire(a, now) ==
  AppendAudit(a, [approvals[a] EXCEPT !.status = "EXPIRED", !.decided_at = now],
              "APPROVAL_EXPIRED", "EXPIRED", NoDetail)

\* The answer is on its way to the caller; nothing else of the call is kept.
Done(call, reply) ==
  [Idle EXCEPT !.pc = "done", !.op = call.op, !.approval_id = call.approval_id,
               !.reply = reply]

Reply(c, reply) == calls' = [calls EXCEPT ![c] = Done(@, reply)]

Refuse(c, reply) == Reply(c, reply) /\ UNCHANGED <<approvals, audit>>

\* What a caller hears once its change is committed: the row read back, or an
\* error when that last read fails.
Committed(c, reply) ==
  \E heard \in {reply} \cup (IF "readback" \in Faults THEN {"APPROVAL_UNAVAILABLE"} ELSE {}) :
    Reply(c, heard)

-----------------------------------------------------------------------------
(* The operations of ApprovalService.                                      *)

\* create: the policy is recomputed; only REQUIRE_HUMAN_APPROVAL goes on.  The
\* identity is random: a caller draws one that is not stored yet, and collides
\* only with another caller that draws it at the same time.
BeginCreate(c, a, request) ==
  LET provenance == TrustedProvenance(request)
      accepted == provenance.decision = "REQUIRE_HUMAN_APPROVAL" IN
  /\ calls[c] = Idle
  /\ ~Exists(a)
  /\ calls' = [calls EXCEPT ![c] =
       IF accepted
       THEN [Idle EXCEPT !.pc = "create", !.op = "create", !.approval_id = a,
                         !.now = clock, !.provenance = provenance]
       ELSE Done([op |-> "create", approval_id |-> a], "POLICY_VALIDATION_FAILED")]
  /\ UNCHANGED <<clock, approvals, audit>>

\* Mutant: get does not read the clock.
BeginWithoutClock(c, op, a) ==
  /\ calls[c] = Idle
  /\ calls' = [calls EXCEPT ![c] =
       [Idle EXCEPT !.pc = op, !.op = op, !.approval_id = a,
                    !.now = IF op \in {"verify", "get"} THEN NoTime ELSE clock]]
  /\ UNCHANGED <<clock, approvals, audit>>

\* get, approve and reject read the clock; the audit verifier does not.
Begin(c, op, a) ==
  /\ calls[c] = Idle
  /\ calls' = [calls EXCEPT ![c] =
       [Idle EXCEPT !.pc = op, !.op = op, !.approval_id = a,
                    !.now = IF op = "verify" THEN NoTime ELSE clock]]
  /\ UNCHANGED <<clock, approvals, audit>>

CreateTxn(c) ==
  LET a == calls[c].approval_id IN
  /\ calls[c].pc = "create"
  /\ IF Exists(a)
     THEN Refuse(c, "APPROVAL_CONFLICT")
     ELSE /\ AppendAudit(a, NewRow(calls[c].provenance, calls[c].now),
                         "APPROVAL_CREATED", "PENDING", NoDetail)
          /\ Reply(c, "PENDING")
  /\ UNCHANGED clock

\* The two checks every locked operation on a row starts with.
CannotOpen(c, a) ==
  \/ ~Exists(a) /\ Refuse(c, "APPROVAL_NOT_FOUND")
  \/ Exists(a) /\ ~VerifyIntegrity(a) /\ Refuse(c, "PROVENANCE_INTEGRITY_FAILURE")

CanOpen(a) == Exists(a) /\ VerifyIntegrity(a)

\* Mutant: any approval past its deadline expires, decided or not.
GetTxnExpiresAll(c) ==
  LET a == calls[c].approval_id
      due == Exists(a) /\ Due(approvals[a], calls[c].now) IN
  /\ calls[c].pc = "get"
  /\ \/ CannotOpen(c, a)
     \/ CanOpen(a) /\ ~due /\ Refuse(c, approvals[a].status)
     \/ CanOpen(a) /\ due /\ Expire(a, calls[c].now) /\ Reply(c, "EXPIRED")
  /\ UNCHANGED clock

\* get: a read persists an expiry that is due.
GetTxn(c) ==
  LET a == calls[c].approval_id
      due == approvals[a].status = "PENDING" /\ Due(approvals[a], calls[c].now) IN
  /\ calls[c].pc = "get"
  /\ \/ CannotOpen(c, a)
     \/ CanOpen(a) /\ ~due /\ Refuse(c, approvals[a].status)
     \/ CanOpen(a) /\ due /\ Expire(a, calls[c].now) /\ Reply(c, "EXPIRED")
  /\ UNCHANGED clock

Target(op) == IF op = "approve" THEN "APPROVED" ELSE "REJECTED"
DecisionEvent(status) ==
  IF status = "APPROVED" THEN "APPROVAL_APPROVED" ELSE "APPROVAL_REJECTED"

\* A due PENDING row expires instead of being decided.
ExpireInstead(c, a) ==
  /\ approvals[a].status = "PENDING"
  /\ Due(approvals[a], calls[c].now)
  /\ Expire(a, calls[c].now)
  /\ Reply(c, "APPROVAL_EXPIRED")

\* Mutant: the event is inserted and the row's count and head stay behind.
LogRejectedTransitionOnly(c, a) ==
  /\ approvals[a].status # "PENDING"
  /\ audit' = [audit EXCEPT ![a] = Append(@,
       NextAuditRow(approvals[a], "APPROVAL_TRANSITION_REJECTED", approvals[a].status, NoDetail))]
  /\ UNCHANGED approvals
  /\ Reply(c, "APPROVAL_INVALID_STATE")

\* A row that is not PENDING is left alone; the attempt itself is logged.
LogRejectedTransition(c, a) ==
  /\ approvals[a].status # "PENDING"
  /\ AppendAudit(a, approvals[a], "APPROVAL_TRANSITION_REJECTED", approvals[a].status, NoDetail)
  /\ Reply(c, "APPROVAL_INVALID_STATE")

\* Mutant: the row is updated whatever its status.
DecideAgain(c, a) ==
  LET target == Target(calls[c].op) IN
  /\ ~Due(approvals[a], calls[c].now)
  /\ AppendAudit(a, [approvals[a] EXCEPT !.status = target, !.decided_at = calls[c].now],
                 DecisionEvent(target), target, NoDetail)
  /\ Committed(c, target)

Decide(c, a) ==
  LET target == Target(calls[c].op) IN
  /\ approvals[a].status = "PENDING"
  /\ ~Due(approvals[a], calls[c].now)
  /\ AppendAudit(a, [approvals[a] EXCEPT !.status = target, !.decided_at = calls[c].now],
                 DecisionEvent(target), target, NoDetail)
  /\ Committed(c, target)

\* transition, under approve or reject.
TransitionTxn(c) ==
  LET a == calls[c].approval_id IN
  /\ calls[c].pc \in {"approve", "reject"}
  /\ \/ CannotOpen(c, a)
     \/ CanOpen(a) /\ (ExpireInstead(c, a) \/ LogRejectedTransition(c, a) \/ Decide(c, a))
  /\ UNCHANGED clock

\* verify_audit_chain: first the approval row, then, separately, the log.
VerifyReadRow(c) ==
  LET a == calls[c].approval_id IN
  /\ calls[c].pc = "verify"
  /\ \/ ~Exists(a) /\ Reply(c, "APPROVAL_NOT_FOUND")
     \/ Exists(a) /\ calls' = [calls EXCEPT ![c].pc = "verify_rows",
                                            ![c].seen = Commitment(approvals[a])]
  /\ UNCHANGED <<clock, approvals, audit>>

VerifyReadLog(c) ==
  /\ calls[c].pc = "verify_rows"
  /\ Reply(c, IF VerifyAuditChain(audit[calls[c].approval_id], calls[c].seen)
              THEN "VALID" ELSE "INVALID")
  /\ UNCHANGED <<clock, approvals, audit>>

Return(c) ==
  /\ calls[c].pc = "done"
  /\ calls' = [calls EXCEPT ![c] = Idle]
  /\ UNCHANGED <<clock, approvals, audit>>

\* The lock is not granted in time, or SQLite fails: all is rolled back.  The
\* verifier answers "not valid" when one of its reads fails, and like the others
\* when it cannot even open the database.
StorageFails(c) ==
  /\ "storage" \in Faults
  /\ calls[c].pc \notin {"idle", "done"}
  /\ \/ calls[c].pc # "verify_rows" /\ Reply(c, "APPROVAL_UNAVAILABLE")
     \/ calls[c].op = "verify" /\ Reply(c, "INVALID")
  /\ UNCHANGED <<clock, approvals, audit>>

Crash(c) ==
  /\ "crash" \in Faults
  /\ calls[c].pc \notin {"idle", "done"}
  /\ calls' = [calls EXCEPT ![c] = Idle]
  /\ UNCHANGED <<clock, approvals, audit>>

Tick ==
  /\ clock < MaxTime
  /\ clock' = clock + 1
  /\ UNCHANGED <<approvals, audit, calls>>

-----------------------------------------------------------------------------

\* What the client does once it has called, until it has its answer.
CallStep(c) ==
  CreateTxn(c) \/ GetTxn(c) \/ TransitionTxn(c) \/ VerifyReadRow(c) \/ VerifyReadLog(c)

ApprovalNext ==
  \/ Tick
  \/ \E c \in Clients :
       \/ \E a \in ApprovalIds :
            \/ \E request \in Requests : BeginCreate(c, a, request)
            \/ \E op \in ClientOps : Begin(c, op, a)
       \/ CallStep(c)
       \/ Return(c)
       \/ StorageFails(c)
       \/ Crash(c)

ApprovalSpec == ApprovalInit /\ [][ApprovalNext]_approvalVars

-----------------------------------------------------------------------------
(* Properties.                                                             *)

ApprovalStatuses == {"ABSENT", "PENDING"} \cup TerminalStatuses

Provenances == [event_type : EventTypes \cup {"NONE"},
                decision : DecisionOutcomes \cup {"NONE"},
                action : RecommendedActions]

Rows == [status : ApprovalStatuses, action : RecommendedActions, expires_at : Times,
         decided_at : Times, provenance : Provenances, audit_event_count : Nat,
         audit_head_hash : Seq(Payloads)]

Commitments == [audit_event_count : Nat, audit_head_hash : Seq(Payloads)]

CallReplies ==
  ApprovalStatuses \cup
  {"none", "VALID", "INVALID", "POLICY_VALIDATION_FAILED", "APPROVAL_CONFLICT",
   "APPROVAL_NOT_FOUND", "PROVENANCE_INTEGRITY_FAILURE", "APPROVAL_EXPIRED",
   "APPROVAL_INVALID_STATE", "APPROVAL_UNAVAILABLE"}

Calls ==
  [pc : {"idle", "create", "get", "approve", "reject", "verify", "verify_rows", "done"},
   op : {"none", "create", "get", "approve", "reject", "verify"},
   approval_id : ApprovalIds \cup {NoApproval}, now : Times, provenance : Provenances,
   seen : Commitments, reply : CallReplies]

\* The tables and the calls have the shape the schema and the services give them,
\* and a call in progress names an approval and the time it read (not the verifier).
ApprovalTypeOK ==
  /\ clock \in Nat
  /\ approvals \in [ApprovalIds -> Rows]
  /\ audit \in [ApprovalIds -> Seq(AuditRows)]
  /\ calls \in [Clients -> Calls]
  /\ \A c \in Clients :
       /\ calls[c].pc # "idle" => calls[c].approval_id \in ApprovalIds
       /\ calls[c].pc \in {"create", "get", "approve", "reject"} => calls[c].now \in Nat
       /\ calls[c].pc \in {"approve", "reject"} => calls[c].op = calls[c].pc

\* transition and _expire judge the deadline by a time the caller read before it waited
\* for the lock, and that time is what the row records.  So a person's decision may be
\* committed after the deadline, but it was asked for before it; and an expiry is never
\* early, since the time it was judged by has passed when it is stored.
DecisionRespectsDeadline ==
  \A a \in ApprovalIds :
    LET row == approvals[a] IN
    /\ row.status \in {"APPROVED", "REJECTED"} => row.decided_at < row.expires_at
    /\ row.status = "EXPIRED" => row.decided_at >= row.expires_at
    /\ row.status \in TerminalStatuses => row.decided_at <= clock

\* The whole of a row but its place in the audit chain.
Fixed(row) == <<row.status, row.decided_at, row.action, row.expires_at, row.provenance>>

\* Whatever clients, expiries, executions and failures interleave, a decided row is
\* never decided again, and what an approval binds never changes once it is stored.
DecisionIsFinal ==
  [][\A a \in ApprovalIds :
       /\ approvals[a].status \in TerminalStatuses => Fixed(approvals'[a]) = Fixed(approvals[a])
       /\ Exists(a) => /\ approvals'[a].provenance = approvals[a].provenance
                       /\ approvals'[a].action = approvals[a].action
                       /\ approvals'[a].expires_at = approvals[a].expires_at
                       /\ approvals'[a].status # "ABSENT"]_approvalVars

DecisionEvents == {"APPROVAL_APPROVED", "APPROVAL_REJECTED", "APPROVAL_EXPIRED"}
EventOf(status) == IF status = "EXPIRED" THEN "APPROVAL_EXPIRED" ELSE DecisionEvent(status)

\* The log and the row tell one story: creation is the first event and only that,
\* the one decision is the second and names the row's status, and attempts on a
\* decided approval are logged only after the decision.
AuditTellsTheHistory ==
  \A a \in ApprovalIds :
    LET row == approvals[a]
        log == audit[a] IN
    /\ row.status = "ABSENT" => log = <<>>
    /\ row.status = "PENDING" => Len(log) = 1
    /\ row.status \in TerminalStatuses =>
         Len(log) >= 2 /\ log[2].payload.event_type = EventOf(row.status)
    /\ \A n \in 1..Len(log) :
         /\ (log[n].payload.event_type = "APPROVAL_CREATED") <=> n = 1
         /\ (log[n].payload.event_type \in DecisionEvents) <=> n = 2

\* Every append leaves a chain its own verifier accepts, until the log outgrows the
\* numbers an AuditEvent can carry; from then on the approval is locked for good.
ChainIntact ==
  \A a \in ApprovalIds :
    VerifyAuditChain(audit[a], approvals[a]) <=> Len(audit[a]) <= MaxSequence

\* The reply says the caller's own approve or reject was carried out.
Decided(c) == calls[c].op \in {"approve", "reject"} /\ calls[c].reply \in {"APPROVED", "REJECTED"}

\* A decision, an expiry or a logged refusal that a caller was told of still holds while
\* the answer travels (that an approval is PENDING may be over by then), and of the
\* callers racing to decide one approval at most one is told that it did.
AnswersHold ==
  \A c \in Clients :
    LET row == approvals[calls[c].approval_id]
        log == audit[calls[c].approval_id] IN
    /\ calls[c].reply \in TerminalStatuses => row.status = calls[c].reply
    /\ calls[c].reply = "APPROVAL_EXPIRED" => row.status = "EXPIRED"
    /\ calls[c].reply = "APPROVAL_INVALID_STATE" => Logged(log, "APPROVAL_TRANSITION_REJECTED")
    /\ Decided(c) =>
         \A d \in Clients \ {c} : calls[d].approval_id = calls[c].approval_id => ~Decided(d)

\* The verifier reads the row and the log separately.  When neither read fails, its
\* alarm means that the log moved between the two or outgrew the numbering.
AlarmHasACause ==
  [][\A c \in Clients :
       LET a == calls[c].approval_id IN
       VerifyReadLog(c) /\ calls'[c].reply = "INVALID" =>
         \/ Commitment(approvals[a]) # calls[c].seen
         \/ Len(audit[a]) > MaxSequence]_approvalVars
=============================================================================
