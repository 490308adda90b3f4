------------------------------ MODULE AuditLog ------------------------------
(***************************************************************************)
(* The hash-chained audit log of one approval (repositories/approvals.py,  *)
(* services/provenance.py, the AuditEvent model).  A SHA-256 digest is     *)
(* abstracted by what it commits to: the digest of an event is the         *)
(* sequence of the payloads from the first event up to that one, so two    *)
(* digests are equal exactly when the events behind them are.  Identities, *)
(* actors and timestamps of events are left out: no branch of the code     *)
(* depends on them.                                                        *)
(***************************************************************************)
EXTENDS Integers, Sequences

CONSTANT MaxSequence   \* AuditEvent.sequence_number, le=1_000_000

ASSUME MaxSequenceAssumption == MaxSequence \in Nat \ {0}

GENESIS_AUDIT_HASH == <<>>

AuditEventTypes ==
  {"APPROVAL_CREATED", "APPROVAL_APPROVED", "APPROVAL_REJECTED",
   "APPROVAL_EXPIRED", "APPROVAL_TRANSITION_REJECTED",
   "EXECUTION_AUTHORIZED", "EXECUTION_CLAIMED", "EXECUTION_SUCCEEDED",
   "EXECUTION_FAILED", "EXECUTION_UNKNOWN", "RECONCILIATION_RECORDED"}

AuditStatuses == {"PENDING", "APPROVED", "REJECTED", "EXPIRED",
                  "CLAIMED", "SUCCEEDED", "FAILED", "UNKNOWN"}

ExecutionStatuses == {"CLAIMED", "SUCCEEDED", "FAILED", "UNKNOWN"}

\* ExecutionFailureCategory, without the members the code never stores, and "NONE"
\* where the column is NULL.
FailureCategories ==
  {"PROVIDER_AUTHENTICATION", "PROVIDER_RATE_LIMIT", "PROVIDER_BAD_REQUEST",
   "PROVIDER_UNAVAILABLE", "PROVIDER_TIMEOUT", "PROVIDER_ERROR", "UNKNOWN_OUTCOME", "NONE"}

ReconciliationOutcomes == {"SUCCEEDED", "FAILED"}

\* _execution_hash, as what it commits to of the fields that change.  The time of
\* completion is left out: it is set exactly when the status is.
ExecutionHash(status, claimed_at, category) == <<status, claimed_at, category>>
ExecutionHashes == ExecutionStatuses \X Nat \X FailureCategories

\* The hash of an operator's assessment, as what it commits to.
AssessmentHash(outcome, original_hash) == <<outcome, original_hash>>

\* What an event carries beside its type and status: nothing, the failure
\* category of an execution, or the hash of a recorded assessment.
NoDetail == <<>>
CategoryDetail(category) == <<category>>
Details == {NoDetail} \cup {CategoryDetail(c) : c \in FailureCategories}
             \cup (ReconciliationOutcomes \X ExecutionHashes)

\* What an event says.
Payload(n, type, status, detail) ==
  [sequence_number |-> n, event_type |-> type, status |-> status, detail |-> detail]

Payloads == [sequence_number : Nat, event_type : AuditEventTypes,
             status : AuditStatuses, detail : Details]

chained_audit_hash(payload, previous_event_hash) == Append(previous_event_hash, payload)

\* A stored row of approval_audit_events.
AuditRow(payload, previous_event_hash) ==
  [payload |-> payload,
   previous_event_hash |-> previous_event_hash,
   event_hash |-> chained_audit_hash(payload, previous_event_hash)]

AuditRows == [payload : Payloads, previous_event_hash : Seq(Payloads),
              event_hash : Seq(Payloads)]

-----------------------------------------------------------------------------
(* _append_audit takes the position and the previous hash from the approval *)
(* row its caller read, inserts one event, and moves the row's count and    *)
(* head to it.                                                              *)

NextAuditRow(row, type, status, detail) ==
  AuditRow(Payload(row.audit_event_count + 1, type, status, detail), row.audit_head_hash)

\* The approval row after the event was appended.
Advanced(row, type, status, detail) ==
  [row EXCEPT
     !.audit_event_count = row.audit_event_count + 1,
     !.audit_head_hash = NextAuditRow(row, type, status, detail).event_hash]

-----------------------------------------------------------------------------
(* _verify_audit_chain: the rows, in order of their number, against the     *)
(* count and the head the approval row commits to.  A row whose number is   *)
(* over the model's limit cannot be parsed and fails the verification.      *)

\* Mutant: the last number an event may have is refused.
RowVerifiesBelowLimit(rows, n) ==
  /\ rows[n].payload.sequence_number = n
  /\ n < MaxSequence

RowVerifies(rows, n) ==
  /\ rows[n].payload.sequence_number = n
  /\ n <= MaxSequence
  /\ rows[n].previous_event_hash =
       IF n = 1 THEN GENESIS_AUDIT_HASH ELSE rows[n - 1].event_hash
  /\ rows[n].event_hash =
       chained_audit_hash(rows[n].payload, rows[n].previous_event_hash)

VerifyAuditChain(rows, row) ==
  /\ Len(rows) = row.audit_event_count
  /\ \A n \in 1..Len(rows) : RowVerifies(rows, n)
  /\ row.audit_head_hash =
       IF rows = <<>> THEN GENESIS_AUDIT_HASH ELSE rows[Len(rows)].event_hash

\* Positions of the events of one type, and whether there is one.
Positions(rows, type) == {n \in 1..Len(rows) : rows[n].payload.event_type = type}
Logged(rows, type) == Positions(rows, type) # {}
=============================================================================
