# A verification of the business automation platform

This directory holds TLA+ models of the platform (the request pipeline with its
middlewares, security gate, event ingestion and advisory analysis, the policy engine,
the approval boundary, controlled execution, reconciliation and the migration of the
database), the TLC configurations that check them, and TLAPS proofs of their safety.
Paths of source files are relative to `src/src/ai_business_automation/`, documents to
`src/`.

## 1. Inventory

The platform takes business events in over HTTP, has a language model analyse
them, lets a deterministic policy decide, waits for a person where the policy says
so, and then performs one kind of external action: adding a tag to a GoHighLevel
contact. All durable state is in one SQLite file.

| Component | Source | State | Operations |
|---|---|---|---|
| Event ingestion | `services/events.py`, `normalization.py`, `canonicalization.py` | none | validate, normalise and classify one event |
| Intelligence | `services/intelligence.py`, `providers/openai.py` | none | one call of a language model, its answer validated |
| Policy engine | `services/policy.py`, `classification.py` | none | `evaluate`, `decide` |
| Approval boundary | `services/approvals.py`, `repositories/approvals.py` | table `approvals` | `create`, `get`, `approve`, `reject`, `verify_audit_integrity` |
| Audit log | `repositories/approvals.py`, `services/provenance.py` | table `approval_audit_events`; count and head hash in the approval row | append, verify |
| Controlled execution | `services/executions.py`, `repositories/executions.py` | table `executions` | `execute` (claim, call, complete), `get` |
| Reconciliation | `services/reconciliation.py` | table `execution_reconciliation_assessments` | `reconcile`, `get_reconciliation` |
| GoHighLevel client | `providers/ghl.py` | none here; the tag is at the provider | `add_contact_tag` |
| Security gate | `security/auth.py`, `repositories/security_audit.py` | two rate buckets in memory; a hash chain of its own | authenticate, authorise, `consume`, `append`, `verify` |
| Schema migration | `repositories/migrations.py` | the database file and its backups | `ensure_active_schema` |
| HTTP middleware | `security/middleware.py` | the body received so far | limit the body, stamp the request |
| Assembly, logging, release scripts | `main.py`, `config/`, `logging/`, `src/scripts/` | none of its own | build, print, scan |

How they interact. Routes call services, services call repositories; `create`
recomputes the policy's decision on the submitted event and analysis instead of
trusting the caller. Approvals, executions and reconciliations append to the *same*
per-approval log, whose position and head are columns of the approval row: every
writer of one boundary therefore affects every verifier of the other. There are no
messages and no callbacks; components share the database.

Who runs concurrently. The services are synchronous and the documented deployment is
one Uvicorn worker (`docs/architecture.md:231`), whose handlers call them on the event
loop; there the calls of one process follow each other. The repositories promise more:
they take `BEGIN IMMEDIATE` and a busy timeout for callers in other threads and
processes (a restarted container beside a draining one, a script, a second worker), and
the tests race them from thread pools (`tests/test_phase5.py:521`,
`tests/test_phase6.py:347`, `tests/test_phase8.py:152`). That promise, to any number of
concurrent callers, is what is modelled; the sequential deployment is a special case.

What is hard here:

* **Stale clocks.** Every operation of the two boundaries reads the clock *before* it
  waits for the write lock; deadlines are judged with a time that may be old, and a
  decision or a claim may be committed after the deadline it was asked for before.
* **A gap without a lock.** `execute` commits a claim, calls the provider with no
  lock held, and commits the outcome afterwards. A second runner, a crash, a lost
  answer or a late effect can fall into the gap.
* **Read after commit.** `transition`, `claim` and `complete` read the row back after
  the commit; when that fails the caller is told of an error that did not undo
  anything, and may try again.
* **Torn reads.** `verify_audit_chain` and `get_execution` read the row and the log in
  separate statements outside a transaction.
* **A limit nobody guards.** Events are numbered without a check, but no reader
  parses a number over 1,000,000.
* **Many steps before one lock.** `ensure_active_schema` detects, commits to, verifies and
  backs up a database statement by statement, and only then locks it; every start and
  every readiness probe runs it, beside whoever still writes.
* **A limiter with fixed windows.** `consume` counts what it refuses too, never moves the
  start of a window, and forgets everything at a restart.
* **Layers that learn of each other through a status.** Three middlewares surround the
  application; clients vanish and servers cancel while it waits for a body, for the thread
  that builds a service, for the model or for a send. The status is noted before the send,
  and an exception, that of a failing send included, is answered by a new response.
* **Counters across a recursion.** A payload is within its limits as a whole, not branch
  by branch, and it is validated twice.
* **Precedence.** The order of the policy's checks decides which event may carry the
  external action.

The full list, each at its line and with the properties that cover it, is under
`hazards` in `PROJECT.json`.

What makes each component correct:

* *policy*: the external action only for its event type and only through a person;
  `ALLOW` exactly for what is quiet; alarm never relaxes a decision;
* *approval*: at most one decision, on time, final, and told truthfully to the callers
  and to the log;
* *audit log*: the chain verifies whatever interleaves, up to the limit of the numbering;
* *execution*: the provider is asked at most once and only on a valid permit; what is
  recorded is true and final; every claim is resolved when nothing fails;
* *reconciliation*: an operator's word is added beside the record and never replaces it;
* *security gate*: no more than twice the limit in any span of a window, every answer
  audited exactly, no role beyond its permissions, a chain that verifies;
* *migration*: concurrent starts, old writers and deaths leave either the old or the new
  schema with nothing lost and a true history, and end in the new one;
* *middleware*: a whole answer where nothing goes wrong, one completion record that is true
  of what was sent, a whole body within its limit;
* *ingestion*: exactly the acceptable events are accepted, with a refusal that names a
  reason;
* *intelligence*: the model sees accepted events only, and only what validates of its
  output becomes a decision.

## 2. The modules

| Module | What it is |
|---|---|
| `Policy` | the policy engine as pure operators over the closed enumerations |
| `AuditLog` | the hash chain: what an event commits to, append, verification |
| `ApprovalLifecycle` | the approval boundary; extends both |
| `ControlledExecution` | execution, reconciliation and the provider on top of it |
| `PlatformContract` | what both boundaries promise together, in seven actions, and what follows from it |
| `ContractRefinement` | the mapping from `ControlledExecution` to `PlatformContract` |
| `DocumentedClaims` | three sentences of the documents, as formulas |
| `SecurityGate` | authentication, rate limiter, role matrix and security audit chain |
| `Migration` | `ensure_active_schema` by concurrent callers beside old and new programs |
| `Ingestion` | validation and normalisation of one event; extends `Policy` and `Payload` |
| `Payload` | the nested payload of an event, the walk that validates it as a recursive function, and what the walk should find, said of the whole payload |
| `RequestPipeline` | one request through middlewares, gate, ingestion, model and policy; extends `Ingestion` |
| `ApprovalLifecycle_proofs`, `ControlledExecution_proofs`, `ExecutionAudit_proofs`, `ContractRefinement_proofs` | theorems and proofs about the two boundaries, each on top of the one before it |
| `SecurityGate_proofs`, `Migration_proofs`, `MCPolicy_proofs`, `RequestPipeline_proofs` | theorems and proofs about the other components |
| `MCPolicy`, `MCApprovals`, `MCControlledExecution`, `MCSecurityGate`, `MCMigration`, `MCRequestPipeline` | instances for TLC |

### How state corresponds

`approvals[a]` is the row of an identity (`NoRow` while there is none) with the
columns that some branch reads: status, action, deadline, time of decision, the
provenance it binds, and count and head of its log. `audit[a]` holds its events.
`executions[a]` and `assessments[a]` are the other two tables, indexed by the
approval because it is unique in both. `clock` is the server's time in ticks. A
process serving a request is `calls[c]` or `runs[r]`: a program counter, what it read
from its arguments and the database, and the answer on its way to the caller.

`requests[a]` is *external*: the requests that reached the provider for an approval and
what became of each. A request that was sent is applied or refused at any later
moment (`ProviderSettles`), whether or not anyone still waits. The model assumes of
the provider only that an accepted 201 answer means applied and a 4xx answer means
refused; a 5xx, or another status, says nothing, since a gateway may have sent it.

A SHA-256 digest is modelled by what it commits to: the digest of an event is the
sequence of payloads up to it, the digest of an execution the triple of its changing
fields. Two digests are then equal exactly when their contents are, which is the
assumption the code makes of SHA-256. Texts, actors, event identities and the time
stamps no branch compares are left out.

In `SecurityGate`, `limiter` is `ProcessRateLimiter._state`, `events` and `state` are the two
tables of the security audit, and a request carries, besides its program counter, what
only the properties look at: when it read the clock and got the lock, the window it fell
into, and which incarnation of the process served it. `requests` there are the
platform's own requests, not the provider's. `require_permission` calls `consume` on the
event loop with no await between the clock and the lock, so that the two are one step of
the deployed program; the model makes them two, an over-approximation that costs nothing
and covers a caller in a thread.

In `Migration`, `db` is the database file: its family, the number of transactions
committed in its tables, the archive and the history. Every old transaction writes to
two tables, which is enough to tell a commitment taken across a write from one that was
not. Whether the old records verify is one Boolean, `intact`: `RecordsVerify` stands for
`_verify_source_integrity` as a whole, and `VerifyApprovals` and `VerifyEvents` for the two
reads of `_verify_approval_integrity` between which a writer can fall. The chains and digests
of executions, reconciliations and security events that it recomputes besides
(`repositories/migrations.py:555-744`) are not modelled.

In `Payload`, a payload is the sequence of its values in the order of the document, each with
its kind, its class, its field name, the position of what it is in, and its depth. That is
the order in which the recursive `visit` reaches them, so that its state, two counters and
the first error, is a function of how many items it has come past: `Visited` is one call of
`visit`, `visit(payload)[n]` the state after `n` of them. `IsPayload` says which sequences are
payloads. Scalars and field names are classes: harmless, over a limit, unsafe, not
serialisable. The regular expressions are exactly the classification and are left out.
Sizes are in units.

In `RequestPipeline`, `responses` are the responses somebody began to send, and `connection` is
*external*: what the server took of them. Assumed of the server is that it takes the start
of one response only and raises at a second, that a send may raise at any time (a closed
connection, a server that shuts down), and that it cancels a request only at an await. A
cancellation is no `Exception`, so no layer answers it. The steps are those between two
awaits that can suspend: of a part of the body, of the thread in which FastAPI calls the
plain functions `get_ingestion_service`, `get_intelligence_service` and `get_policy_service`,
of the provider, and of the start and the body of a response. Where a failing send
leaves `SafeExceptionMiddleware` too, Starlette's outermost handler is silent, since a
response was started, and the request ends with its completion record.

### How actions correspond

A transaction under `BEGIN IMMEDIATE` is one action, with all of its updates and
appends; everything the code does outside one is an action of its own.

| Code | Actions |
|---|---|
| `ApprovalService.create` and the insert | `BeginCreate`, `CreateTxn` |
| `get`, `approve`, `reject` | `Begin`, then `GetTxn` or `TransitionTxn` (`ExpireInstead`, `LogRejectedTransition`, `Decide`) |
| `verify_audit_integrity` | `Begin`, `VerifyReadRow`, `VerifyReadLog` |
| `ExecutionService.execute` | `BeginRun`, `ClaimTxn`, then `CallNotSent`, or `SendRequest` and `CallReturns`, then `CompleteTxn` |
| `ExecutionService.get` | `BeginRun`, `GetReadExecution`, `GetReadRow`, `GetReadLog`, `GetReadLogAgain` |
| `ReconciliationService.reconcile` | `BeginRun`, `ReconcileTxn`, `ReconcileRead` (its two SELECTs in one step: neither row can change any more) |
| a lock not granted, a failing SQLite | `StorageFails`, `RunStorageFails` (all is rolled back) |
| a failing read after the commit | in `Committed` and `ReadBackFails` (nothing is) |
| death of the process | `Crash`, `RunCrashes` |
| `require_permission` | `Authenticate`, `AuthenticationNotLogged`, `FailToAuthenticate` or `AuthenticateRaises`; `Authorize`, `LogFailure`, `AppendFails` |
| `ProcessRateLimiter.consume` | `FailToAuthenticate` or `ReadClock` (the clock), `Consume` (under the lock) |
| `SecurityAuditRepository.append`, `verify` | `append` within the actions above; `VerifyReadEvents`, `VerifyReadState` |
| `_detect_family`, `_validate_source_shape` | `ReadTables`, `ReadVersion`, `ValidateShape` |
| `_database_commitment`, `_verify_source_integrity`, `_create_backup` | `ReadSourceTables`, `CommitEvents`, `CommitApprovals`, `VerifyApprovals`, `VerifyEvents`, `CreateBackup` |
| the exclusive transaction of `ensure_active_schema` | `Migrate` |
| `RequestBodyLimitMiddleware` | `CheckDeclaration`, `Receive`, `Disconnect` |
| FastAPI: body, dependencies, validation | `Parse` (external), `Gate`, `Dependencies`, `Validate` |
| the routes | `HandleStatus`, `HandleCreate`, `HandleAnalysis` |
| `BusinessIntelligenceService.analyze` and the provider | `HandleAnalysis`, `ProviderFails`, `ProviderReturns` |
| `SafeExceptionMiddleware` | `ApplicationFails`, `SendFails` (`Guarded`: is it around who sends?) |
| `RequestContextMiddleware` | `Respond` (`secure_send` notes the status, before the send), `Complete` |
| the sends of a response, the server's cancellation | `SendStart`, `SendBody`, `SendFails`; `Cancelled` (external) |

How the modules meet: `RequestPipeline` uses the answers of `SecurityGate` as the outcomes
of its `Gate` step and `Policy` for its decision, and the analyses it can produce are
inputs of `ApprovalLifecycle`, which re-decides them. What `Migration` promises (the
active schema stays) is what the repositories' actions take for granted.

In `ControlledExecution` the constant `Faults` selects which kinds of failures happen, and in
`SecurityGate` whether appends fail.

## 3. What TLC checks

| Run | Instance | Question |
|---|---|---|
| `approvals` | 1 approval, 2 clients, lifetime 2, clock to 3, log limit 5, storage failures, failed read-backs and crashes | Are decisions single, final, on time, truthfully answered and logged? |
| `execution` | 1 approval, 1 client, 2 runners, lifetime 1, clock to 1, log limit 6, read-back failures and crashes | Is the provider asked at most once and with a permit, is what is recorded true, audited and final, and do both boundaries implement the contract? |
| `readers` | as above with `get` and storage failures, log limit 5 | What are the answers and alarms of a reader worth whose four reads are not synchronised? |
| `liveness` | 1 client, 1 runner, no failures, fair | Is every claim resolved and every call answered though the provider may stay silent? |
| `policy` | 887,040 requests: every member of the enumerations, matching and foreign identities, confidences around the threshold, with and without reasons; each re-decided with a worse analysis | Do the precedence rules leave a way around a check? |
| `gate` | 2 requests, all roles, all protected permissions but `read`, limit 1, window 1, 1 restart, failing appends | Is every answer audited exactly, does no role cross over, does the chain hold under concurrent appends, and what is `verify` worth? |
| `rate_limit` | 4 failing authentications, limit 1, window 2, clock to 3, 1 restart | What does a fixed-window limiter bound over two windows and a restart, and does a refusal prolong itself? |
| `migration` | 2 callers, each kind of database, 2 old and 2 new transactions, 2 failures or deaths, fair | Is anything lost, is the history true, and does the database become and stay active? |
| `pipeline` | 1 request to each of 6 routes; bodies in parts of 0 to 2 units around a limit of 2; 2,196 events around every limit; 11 outputs of the model; failing sends, and cancellation at every await | Is every request recorded once and truthfully, and answered whole when nothing fails, are exactly the acceptable events accepted, and is a decision grounded in what came in? |
| `doc_failed_definitive`, `doc_ambiguous_unknown`, `doc_refusal_logged` | small | Do three documented sentences hold of the code? (They do not: section 5.) |

What the properties say:

* `DecisionRespectsDeadline`: by the recorded time, which was read before the lock was
  granted, a person decides strictly before the deadline and an expiry is at or after it,
  and the clock has reached that time. So an expiry is never early, while a person's
  decision may be *committed* after the deadline (the wait for the lock is at most the busy
  timeout of 5 s); it was asked for before.
* `AuditTellsTheHistory`: the log starts with the creation and holds exactly the
  decision the row holds.
* `ChainIntact`: the chain of an existing approval verifies if and only if its log is
  within the limit. The second half is a fact about the code, too: one event too many
  and the approval can never be read again.
* `AnswersHold`: a decision, an expiry or a logged refusal that a caller is told of is true
  while the answer travels (that an approval is `PENDING` may be over by then); of racing
  deciders at most one is told that it decided.
* `DecisionIsFinal`, `OutcomeIsFinal`: what no step may do to a decided row, a completed
  execution, a claim's time, an assessment or a request.
* `AlarmHasACause`, `GetAlarmHasACause`: without tampering, an integrity alarm means that
  the log moved between two reads, or outgrew its numbering.
* `AtMostOneRequest`, `RequestOnlyIfApproved`, `ClaimIsExclusive`,
  `RecordedOutcomeIsTrue`: the safety of the external action. That a request was approved
  and claimed in time is again said of the recorded times.
* `ExecutionIsAudited`, `AssessmentKeepsOriginal`: tables and log agree at every commit.
* `RunAnswersHold`: `execute` and `get` report a completed status only if it is recorded;
  nothing is said of `reconcile`.
* `ImplementsContract`: refinement of `PlatformContract`. Claim is `Spend`, the POST is
  `Ask`, completion is `Conclude`; all else stutters or moves the decision.
* `ClaimIsResolved`, `EveryCallIsAnswered`: liveness.
* `ExternalActionNeedsAPerson`, `AllowOnlyWhatIsQuiet`, `AlarmNeverRelaxes`: the policy.

* `AnswersAreAudited`: the events of a request in the log are exactly those its answer
  stands on. Excepted are 500s and requests whose process died, which may leave a part
  of them; a failed authentication over the limit leaves none.
* `NoPrivilegeCrossover`: neither an answer nor an event grants a role what
  `docs/architecture.md` does not.
* `SecurityChainIntact`, `VerifyAlarmHasACause`: as for approvals.
* `LimitHolds`: the limiter is a fixed-window one, so twice its limit can pass in one
  window's length; no more can.
* `RefusalIsJustified`: a refusal rests on enough *granted* calls of the last window's
  length; refused calls, which are counted too, keep nobody out.
* `NothingIsLost`, `HistoryIsTrue`, `CorruptIsLeftAlone`, `ActiveIsForever`, `EventuallyActive`: the
  migration. The history is worth a property since the commitment, the verification and
  the backup it names are taken at three different moments.
* `AnsweredAndRecorded`, `BodyIsWhole`: the middlewares. There is one completion record,
  wherever a request is cancelled or a send fails. It says success exactly when a handler
  returned and no send raised; of a response the server took whole it is true. What the code
  does not give, and the property therefore does not say: a response cancelled while it was
  being sent still counts as a success, and after a send that raised
  `SafeExceptionMiddleware` starts a second response, an `INTERNAL_ERROR`, even if the
  first was started. Where nothing goes wrong, the response is sent whole.
* `IngestionIsExact`: `visit`, with its counters, its order and its first error, accepts
  exactly what satisfies the limits taken over the whole tree, and its error is a true one
  (`PayloadIsExact`); `create_event` accepts exactly the acceptable events; every refusal
  names a reason the event gives (`Reason`; those that come from the transport, the gate or
  the model have none in the event); the second validation never refuses.
* `ProviderSeesOnlyAccepted`, `DecisionIsGrounded`: one call at most, for a permitted caller
  and an accepted event; no failed or malformed output becomes a decision.

**Bounds.** In the approval and execution models `MaxTime` bounds the clock and is the only bound
in a guard; `MaxSequence` is
the code's own limit, 1,000,000, made small enough to be crossed. One approval is
enough for what is checked: no transaction reads or writes the rows of two, and the
theorems below hold for any number of them. Two callers or runners suffice for every
race that is between two parties; the theorems, again, hold for any number. The
lifetime and the clock allow an operation to begin before, at and after the deadline
and to commit a tick later. A log has 2 events when it is decided, 4 when claimed, 5
when completed and 6 when assessed, so limits of 5 and 6 let every path finish
and let repeated decisions cross the limit at each stage. Logs do not grow without end:
past the limit nobody can append. Clients and runners are symmetric, and symmetry is
used where no liveness is checked. In the gate, `MaxTime` and `MaxRestarts` are bounds; two
requests reach every interleaving of two appends, and four reach a window filled, a
refusal, a next window and a burst over both, with limits of one. `MaxRows` and `MaxFaults`
bound the migration: two old transactions are enough to fall before, into and after a
commitment. The pipeline has no bound but `PartSizes` and the limits themselves; limits
of 2 to 7 units let trees of three levels cross each of them alone and together.

**Deadlock** is not checked where the system may stop: a request is served once, and the
clock of an instance ends.

**Fairness.** `FairSpec` asks that a call once begun goes on: the code is straight-line,
SQLite grants the lock or fails within `busy_timeout`, and httpx ends the wait for the
provider by its own timeout. Nothing is assumed of callers, of the passing of time or
of the provider, which may never settle a request. `MigrationFairSpec` asks that each caller
goes on and begins again: `ensure_active_schema` is straight-line code, and the readiness
probe, every start and whoever restarts a failed process call it. The number of
failures and of the old program's writes is finite, as `EventuallyActive` needs: a writer
that never pauses can make every commitment stale.

## 4. What is proved

TLAPS proves, for every number of approvals, clients, runners, requests and callers, every
lifetime, window, limit, clock bound, log limit and set of faults, from assumptions that
only give the ranges of the constants (`RequestsAssumption` of the approval boundary:
event types and recommended steps are members of their enumerations, which pydantic
enforces; of the gate: the set of requests is finite, which `Cardinality` needs; of the
policy, `InputsAssumption`: the inputs are of the closed enumerations and a confidence is
between 0 and 100 hundredths, as pydantic enforces; of the pipeline: sizes are numbers, the
payloads of events are payloads (`IsPayload`, what `json.loads` makes: nested, with distinct
names in an object), and a payload within its limit fits into a canonical event, as 4,096
bytes and the bounded other fields do into 8,192):

| Theorem | Property |
|---|---|
| `ApprovalTypeCorrect`, `TypeCorrect` | `ApprovalTypeOK`, `TypeOK` |
| `DeadlineRespected` | `DecisionRespectsDeadline` |
| `HistoryTold` | `AuditTellsTheHistory` |
| `ChainStaysIntact`, `ChainStaysIntactWithExecutions` | `ChainIntact` |
| `DecisionsAreFinal`, `OutcomesAreFinal` | `DecisionIsFinal`, `OutcomeIsFinal` |
| `AskedAtMostOnce`, `AskedOnlyIfApproved` | `AtMostOneRequest`, `RequestOnlyIfApproved` |
| `ClaimsAreExclusive`, `OutcomesAreTrue` | `ClaimIsExclusive`, `RecordedOutcomeIsTrue` |
| `GateTypes`, `GateChainIntact`, `GateAlarmHasACause` | `GateTypeOK`, `SecurityChainIntact`, `VerifyAlarmHasACause` |
| `GateAnswersAreAudited`, `GateNoCrossover` | `AnswersAreAudited`, `NoPrivilegeCrossover` |
| `GateLimitHolds`, `GateRefusalIsJustified` | `LimitHolds`, `RefusalIsJustified` |
| `MigrationTypes`, `MigrationLosesNothing`, `MigrationHistoryIsTrue` | `MigrationTypeOK`, `NothingIsLost`, `HistoryIsTrue` |
| `MigrationLeavesCorrupt`, `MigrationReady`, `MigrationIsForever` | `CorruptIsLeftAlone`, `ReadyMeansActive`, `ActiveIsForever` |
| `AnswersStayTrue`, `AlarmsHaveACause` | `AnswersHold`, `AlarmHasACause` |
| `ExecutionsAreAudited`, `AssessmentsKeepTheOriginal` | `ExecutionIsAudited`, `AssessmentKeepsOriginal` |
| `RunAnswersAreTrue`, `GetAlarmsHaveACause` | `RunAnswersHold`, `GetAlarmHasACause` |
| `BoundariesImplementContract` | `ImplementsContract` |
| `EffectsHaveTheirHistory`, `SettledStaysSettled` | `EffectsAreGranted`, `NothingIsTakenBack` of the contract, inherited by both boundaries |
| `ApprovalsHoldWithExecutions`, `DecisionsAreFinalWithExecutions`, `AlarmsHaveACauseWithExecutions` | the approval boundary's properties, of both boundaries together |
| `ExternalActionsNeedAPerson`, `OnlyTheQuietIsAllowed`, `AlarmsNeverRelax` | `ExternalActionNeedsAPerson`, `AllowOnlyWhatIsQuiet`, `AlarmNeverRelaxes` |
| `EveryRequestIsRecorded`, `BodiesAreWhole` | `AnsweredAndRecorded`, `BodyIsWhole` |
| `ProviderSeesTheAccepted`, `DecisionsAreGrounded`, `IngestionStaysExact` | `ProviderSeesOnlyAccepted`, `DecisionIsGrounded`, `IngestionIsExact` |
| `PayloadWalkIsExact` | `PayloadIsExact`, of every payload; the part of `IngestionIsExact` about nested payloads |

**The approval boundary.** None of the properties is inductive by itself: that an append
keeps the chain verifying needs that the row's count and head are those of the log's
last event. `ApprovalInv` states, of each approval separately, `RowInv`: the log is
linked event to event up to the row's head (`Linked`), the history of events agrees
with the status (`History`), the recorded time of the decision is on time (`OnTime`) and the row is what
the policy bound (`RowBound`); and of each call that its provenance was accepted by the
policy. `ChainIntact` follows since a linked log verifies exactly within the
limit. Each operation is shown to do to one row one of four things (create, settle,
note, nothing), summed up in `RowStep`, which also says what can never change;
`DecisionsAreFinal` is read off from it. `ClockInv` adds for the deadline that no call and no
row carries a time the clock has not reached. For the answers, `AnswersInv` adds that a caller
which was told that it decided agrees with the row, that a logged refusal stays logged, and
that no two callers were told so of one approval: the second would have found the row
decided. An alarm of the verifier is traced to its two reads: what it read first was linked
to the head of that moment, so that a log which does not verify against it has moved.

**The execution boundary.** `ExecutionInv` adds to `ApprovalInv` what holds of each
execution (`ExecutionOK`, `Permitted`) and of each run (`RunShape`, `RunTables`). Its heart is
the claim: a run between claim and complete finds the execution `CLAIMED`, no other run
does (`RunsOK`), nothing was sent while its counter says "calling" and one
request afterwards. `ClaimTxn` creates a holder only where there is no execution, and
hence no holder; `CompleteTxn` removes the holder with the status. That what the client
learned agrees with what the provider did (`FailureTrue`) is preserved since the
provider never changes a verdict. The steps of the approval boundary enter through
`RowStep` alone: they keep decided rows and only extend logs.

**Tables and log.** `ExecutionIsAudited` speaks of the same log that decisions, refusals and
expiries are appended to. `Stories` says of each approval where in its log the claim, the
completion and the assessment stand, as a function of the two rows, and what the events
commit to. An append of the approval boundary is of none of these types and leaves the
positions where they are (`StoryQuiet`); a claim, completion or assessment adds exactly
its own. `RunsTold` says what a reader between its four reads still knows: an
execution seen completed has that status for ever, while one seen claimed may have moved.

**The refinement.** Each of the contract's five variables is a function of one column of
the tables. Every action is shown to move at most one of them at one approval: a decision
or an expiry is a contract step since `RowStep` lets a status leave `PENDING` only;
`ClaimTxn` is `Spend`, for which `ExecutionInv` supplies the approved row and that nothing was
spent; `SendRequest` is `Ask`, since between claim and complete nothing was sent before;
`ProviderSettles` is the contract's own late effect; `CompleteTxn` is `Conclude`, whose verdict
needs `FailureTrue`; `ReconcileTxn` records an opinion once. Every read, failure and crash
stutters. The approval properties carry over to both boundaries together
since an execution step only extends logs with events that decide nothing
(`StepTables`). What the contract implies (`EffectsAreGranted`, `NothingIsTakenBack`) is proved
of the contract alone, from its own seven actions (`ContractStepKeeps`), and then inherited
through the refinement; it says more than any table does by itself, for instance that
once an outcome is recorded a request that was not sent by then never is.

**The policy.** `DecidedInv` says that the decision is `decide`'s on a valid request; the
content is in lemmas about the operators. `DecideCases` separates the malformed, the tag
request and the rest; `AnalysisCases` shows that the rest is denied for a contradiction,
reviewed for a signal and allowed when quiet (`QuietMeansNoEvidence`). For
`AlarmsNeverRelax` a change for the worse in one field is generalised to `Worse`, which says that no
field is better; along it a signal stays on, a contradiction stays one and the risk of a review
does not fall. The theorems hold for every threshold and all confidences.

**The pipeline.** `PipelineInv` says of a request where it is and what follows: while it
waits nothing was begun, afterwards one response was, or two if a send raised, and the
status is that of the last (`AnswerOK`); what the server took is what was begun last, and all
of it unless something went wrong (`ConnectionOK`); what is buffered is what was sent, and was given
whole or not at all (`BodyOK`); how far it has come tells what it passed, so that at the
provider the gate permitted it, both validations accepted it and it fits
(`AdmissionOK`); and a result was made of a valid output (`GroundOK`). Each handler does to
the answer one of a few things (`StepKinds`), and `SendFails` adds at most one response to
one (`SendFailsAdds`). `ReasonsOK` adds that every response is
justified by the event. They hold for every set of events, limits and outputs of the model.

**The walk of a payload.** `PayloadWalkIsExact` is an induction over the items of a payload of
any length. `SetInduction` gets it from the well-foundedness of `<` on the naturals: a set of
positions that were not handled has a least one. What is carried along is `WalkOK`: as long as
there is no error, the number of nodes is the number of items past, the number of fields
is that of all the children of the objects among them (`FieldsUpTo`), and each item past was
within its limits and harmless; once there is an error, it is true of the whole payload. That
the counter of fields, which is advanced by `len(item)` before any child is visited, ends as
the number of fields of the whole (`FieldsAddUp`) is since every field lies in exactly one
object: the sets of children of two objects are disjoint, and their cardinalities add.

**The gate.** Four invariants, each on top of the first. `GateBase` has the types and, for
each value of a request's counter, what it has and has not yet (`ShapeOf`). `ChainInv` adds
that the log is linked up to the stored head and that what a verifier read is a prefix
of the log; the alarm follows since two prefixes of a linked log have different heads
exactly when their lengths differ. `TrailInv` says of each counter which events the
request has left so far, which is what no answer shows by itself. `LimiterInv` is the
hard one: windows of one process start at least a window's length apart (`WindowsApart`),
the count of the present window is the number of calls that fell into it (`Counted`), and
every past window granted at most its limit (`WindowsBounded`). With the clock and the lock as
two steps a window can be opened with a time already past, yet never with one
less than a window after the last, so that calls which
read the clock and got the lock within one window's length lie in at most two windows
(`TwoWindows`), and `LimitHolds` follows.

**The migration.** `MigrationInv` says of each caller what it knows at each step: the numbers
it read so far are at most the present one, in the order of the reads, and as long as the
tables are those it saw, its backup lies between its commitment and the present content.
If then, under the exclusive lock, the commitment to both tables equals the present
content, everything read in between equals it too. That makes the history true.

**Only model-checked.** The liveness properties `ClaimIsResolved`, `EveryCallIsAnswered` and
`EventuallyActive`, which are out of the prover's reach. Every other property of the passing
runs is a theorem.

## 5. Where documents and code disagree

1. `docs/architecture.md:136` says that `FAILED` is definitive non-completion. The client
   raises every status other than 201 as definitive, 5xx included
   (`providers/ghl.py:113`), though the tag may have been or may yet be applied
   (`doc_failed_definitive`). For every other category the sentence is true, and
   that is a theorem (`OutcomesAreTrue`).
2. `README.md:382` says that ambiguous external outcomes become `UNKNOWN`. When the
   process dies between the POST and `complete`, the execution stays `CLAIMED`: `execute`
   refuses it as claimed, `reconcile` as not reconciliable (`doc_ambiguous_unknown`).
3. `docs/security.md:200` says that a refused execution appends `EXECUTION_REJECTED`. There
   is no such event and a refusal leaves the log as it was (`doc_refusal_logged`).
4. `README.md:357` describes a reconciliation that updates the execution and appends two
   events. The code stores an assessment beside the execution, which stays `UNKNOWN`, and
   appends one event; `AssessmentKeepsOriginal` states what the code does.
5. `docs/security.md:257` and `docs/deployment.md:41` say that unversioned databases are not
   migrated. `_detect_family` knows a family of them, and `ensure_active_schema` migrates
   it (`EventuallyActive` includes it; its mutant is the documented behaviour).
6. `docs/security.md:38` says that no more than the configured ceiling of a body is
   buffered. A part is appended before it is measured: at most the ceiling and one part
   (`BodyIsWhole`).

Three things the documents are silent on: a bearer token that is not ASCII makes
`hmac.compare_digest` raise, so that the request is answered with an unaudited and
uncounted 500 instead of a 401 (`AuthenticateRaises`); the payload of a tag request with a
field named like a field of events, `payload` included, is refused under that field's code
(`MisnamedIn`; the proof of `IngestionStaysExact` needed the case of `payload`, which the instance
now has as well);
and a fixed window admits twice its limit around its end (`LimitHolds`).

## 6. Not modelled

Assembly and settings, logging and release scripts, which keep no state and take no part
in a running request: `create_app` is the initial state of the pipeline, the limits in
`Settings` are constants. Within the modelled parts: wording, headers, identities of
actors, events and requests, the sanitising of an operator's reason, the regular
expressions and column lists as such, what exactly makes a record of an old family
verify (`_verify_main_execution_integrity` and its like), the comparison of
tokens, 404s, and direct tampering with the database file,
against which the chains are a defence the models do not attack.

The requests of `RequestPipeline` are served one at a time: they share no state but the
limiter and the security log, whose concurrency is in `SecurityGate`, and the database,
whose concurrency is in the other modules.

## 7. Plan

1. *(done)* `Policy`, `AuditLog`, `ApprovalLifecycle`, `ControlledExecution`,
   `PlatformContract` with its refinement, and the inductive invariants of both boundaries.
2. *(done)* `SecurityGate` and `Migration` with proofs; `Ingestion` and `RequestPipeline`.
3. *(done)* Proofs: the answers and alarms of both boundaries, tables against log, the
   refinement of `PlatformContract` step by step and what it implies, the policy for every
   input, the pipeline, and the walk of a payload of any size.
4. What is left for proofs: the preconditions each module takes from another (the active
   schema of `Migration`, the answers of `SecurityGate`) stated as theorems of a composition.
