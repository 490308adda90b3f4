---------------------------- MODULE SecurityGate ----------------------------
(***************************************************************************)
(* What a protected request passes before its handler runs: bearer         *)
(* authentication, the process-local rate limiter, the role matrix         *)
(* (security/auth.py), and the security audit chain these write to         *)
(* (repositories/security_audit.py).                                       *)
(*                                                                         *)
(* ProcessRateLimiter.consume reads the monotonic clock and then takes its *)
(* lock.  require_permission calls it on the event loop with no await in   *)
(* between, so that the two are one step of the deployed program; here     *)
(* they are two, which allows more: what holds of them holds of the code.  *)
(* An append is one BEGIN IMMEDIATE transaction; verify is two SELECTs     *)
(* outside of one.  Storage can fail, and the process can die and restart, *)
(* which empties the limiter and keeps the log.                            *)
(***************************************************************************)
EXTENDS Integers, Sequences, FiniteSets

CONSTANTS
  Requests,      \* the requests that may arrive, each once
  Permissions,   \* the permissions they ask for
  Credentials,   \* the roles of the configured slots their credentials match
  Window,        \* the 60 seconds of a window, in ticks
  Limit,         \* auth_failure_limit and protected_mutation_limit, by bucket
  MaxTime,       \* bound on the clock
  MaxRestarts,   \* bound on the restarts of the process
  Faults         \* which failures happen: "storage"

Buckets == {"authentication", "mutation"}
AllPermissions == {"read", "analysis", "approval", "execution", "reconciliation", "admin"}
Roles == {"READ_ONLY", "APPROVER", "EXECUTOR", "ADMIN"}

ASSUME PermissionsAssumption == Permissions \subseteq AllPermissions
ASSUME CredentialsAssumption == Credentials \subseteq Roles
ASSUME WindowAssumption == Window \in Nat \ {0}
ASSUME LimitAssumption == Limit \in [Buckets -> Nat \ {0}]
ASSUME GateBoundsAssumption == MaxTime \in Nat /\ MaxRestarts \in Nat
ASSUME FaultsAssumption == Faults \subseteq {"storage"}
ASSUME RequestsAssumption == IsFiniteSet(Requests)

VARIABLES
  clock,      \* time.monotonic
  limiter,    \* ProcessRateLimiter._state
  restarts,   \* how often the process has been restarted
  requests,   \* what each request is doing and what the limiter told it
  events,     \* table security_audit_events
  state,      \* table security_audit_state: one row
  verifier    \* an operator's call of verify

gateVars == <<clock, limiter, restarts, requests, events, state, verifier>>

-----------------------------------------------------------------------------
(* Roles and permissions.                                                  *)

NoRole == "NONE"   \* the credentials are missing, malformed or match no single slot

\* Mutant: an approver may execute what was approved.
RolePermissionsTooWide(role) ==
  IF role = "READ_ONLY" THEN {"read", "analysis"} ELSE AllPermissions

ROLE_PERMISSIONS(role) ==
  CASE role = "READ_ONLY" -> {"read", "analysis"}
    [] role = "APPROVER" -> {"read", "analysis", "approval"}
    [] role = "EXECUTOR" -> {"read", "analysis", "execution", "reconciliation"}
    [] role = "ADMIN" -> AllPermissions

\* The permissions of the routes that are POST.
Mutating == {"analysis", "approval", "execution", "reconciliation"}

\* The permissions whose authorization is audited, and the event of each verdict.
Audited == {"approval", "execution", "reconciliation"}

Verdict(permission, allowed) ==
  CASE permission = "approval" ->
         IF allowed THEN "APPROVAL_AUTHORIZED" ELSE "APPROVAL_REJECTED_BY_AUTHZ"
    [] permission = "execution" ->
         IF allowed THEN "ACTION_EXECUTION_AUTHORIZED"
                    ELSE "ACTION_EXECUTION_REJECTED_BY_AUTHZ"
    [] permission = "reconciliation" ->
         IF allowed THEN "EXECUTION_RECONCILIATION_AUTHORIZED"
                    ELSE "EXECUTION_RECONCILIATION_REJECTED_BY_AUTHZ"

SecurityAuditEventTypes ==
  {"AUTHENTICATION_SUCCEEDED", "AUTHENTICATION_FAILED"}
    \cup {Verdict(p, allowed) : p \in Audited, allowed \in BOOLEAN}

-----------------------------------------------------------------------------
(* The security audit chain.  A digest is what it commits to, as in        *)
(* AuditLog: the payloads up to its event.                                 *)

GENESIS == <<>>

\* A row of security_audit_events; time and operation are left out.
Event(n, type, r, role, previous) ==
  LET payload == [sequence_number |-> n, event_type |-> type, request_id |-> r,
                  role |-> role] IN
  [payload |-> payload, previous_event_hash |-> previous,
   event_hash |-> Append(previous, payload)]

\* Mutant: the head of the chain is not moved.
AppendForgetsHead(type, r, role) ==
  /\ events' = Append(events, Event(state.event_count + 1, type, r, role, state.head_hash))
  /\ state' = [state EXCEPT !.event_count = @ + 1]

append(type, r, role) ==
  LET event == Event(state.event_count + 1, type, r, role, state.head_hash) IN
  /\ events' = Append(events, event)
  /\ state' = [event_count |-> state.event_count + 1, head_hash |-> event.event_hash]

Verifies(rows, row) ==
  /\ \A n \in 1..Len(rows) :
       LET previous == IF n = 1 THEN GENESIS ELSE rows[n - 1].event_hash IN
       /\ rows[n].payload.sequence_number = n
       /\ rows[n].previous_event_hash = previous
       /\ rows[n].event_hash = Append(previous, rows[n].payload)
  /\ row.event_count = Len(rows)
  /\ row.head_hash = IF rows = <<>> THEN GENESIS ELSE rows[Len(rows)].event_hash

-----------------------------------------------------------------------------
(* The limiter.                                                            *)

NewWindow(now) == [started |-> now, count |-> 0]

\* Mutant: a refused call holds the window open.
WindowOfExtended(window, now) ==
  IF now - window.started >= Window THEN NewWindow(now)
  ELSE [window EXCEPT !.started = now]

\* The window a call at `now` falls into.
WindowOf(window, now) ==
  IF now - window.started >= Window THEN NewWindow(now) ELSE window

\* Mutant: refused calls are not counted and one more is let through.
GrantsOneMore(bucket, count) == count <= Limit[bucket] + 1

Grants(bucket, count) == count <= Limit[bucket]

-----------------------------------------------------------------------------
(* The states of a request.                                                *)

NoTime == -1

Fresh == [pc |-> "new", role |-> NoRole, permission |-> "none", now |-> NoTime,
          locked |-> NoTime, window |-> NoTime, incarnation |-> 0, granted |-> FALSE,
          answer |-> "none"]

\* The bucket a request is counted in, if it is.
Bucket(request) == IF request.role = NoRole THEN "authentication" ELSE "mutation"

GateInit ==
  /\ clock = 0
  /\ limiter = [b \in Buckets |-> NewWindow(0)]
  /\ restarts = 0
  /\ requests = [r \in Requests |-> Fresh]
  /\ events = <<>>
  /\ state = [event_count |-> 0, head_hash |-> GENESIS]
  /\ verifier = [pc |-> "idle", rows |-> <<>>, moved |-> FALSE, intact |-> TRUE]

InFlight(r) == requests[r].pc \notin {"new", "done"}

Answer(r, answer) ==
  requests' = [requests EXCEPT ![r].pc = "done", ![r].answer = answer]

-----------------------------------------------------------------------------
(* require_permission, step by step.                                       *)

\* authenticate finds the one slot the credentials match, and the success is audited.
Authenticate(r, role, permission) ==
  /\ requests[r].pc = "new"
  /\ append("AUTHENTICATION_SUCCEEDED", r, role)
  /\ requests' = [requests EXCEPT
       ![r].pc = IF permission \in Mutating THEN "clock" ELSE "authorize",
       ![r].role = role, ![r].permission = permission, ![r].incarnation = restarts]
  /\ UNCHANGED <<clock, limiter, restarts, verifier>>

\* The same, when the event cannot be stored: the request fails closed.
AuthenticationNotLogged(r, role, permission) ==
  /\ "storage" \in Faults
  /\ requests[r].pc = "new"
  /\ requests' = [requests EXCEPT
       ![r].pc = "done", ![r].role = role, ![r].permission = permission,
       ![r].incarnation = restarts, ![r].answer = "INTERNAL_ERROR"]
  /\ UNCHANGED <<clock, limiter, restarts, events, state, verifier>>

\* authenticate fails, and consume reads the clock; what the request is after is
\* never looked at.
FailToAuthenticate(r) ==
  /\ requests[r].pc = "new"
  /\ requests' = [requests EXCEPT
       ![r].pc = "consume", ![r].now = clock, ![r].incarnation = restarts]
  /\ UNCHANGED <<clock, limiter, restarts, events, state, verifier>>

\* compare_digest raises on a token that is not ASCII: nothing is counted or audited.
AuthenticateRaises(r) ==
  /\ requests[r].pc = "new"
  /\ Answer(r, "INTERNAL_ERROR")
  /\ UNCHANGED <<clock, limiter, restarts, events, state, verifier>>

\* consume, before the lock.
ReadClock(r) ==
  /\ requests[r].pc = "clock"
  /\ requests' = [requests EXCEPT ![r].pc = "consume", ![r].now = clock]
  /\ UNCHANGED <<clock, limiter, restarts, events, state, verifier>>

\* consume, under the lock: every call is counted, the refused ones too.
Consume(r) ==
  LET request == requests[r]
      bucket == Bucket(request)
      window == WindowOf(limiter[bucket], request.now)
      count == window.count + 1
      granted == Grants(bucket, count) IN
  /\ request.pc = "consume"
  /\ limiter' = [limiter EXCEPT ![bucket] = [window EXCEPT !.count = count]]
  /\ requests' = [requests EXCEPT ![r] =
       [request EXCEPT
          !.pc = IF ~granted THEN "done"
                 ELSE IF bucket = "authentication" THEN "log_failure" ELSE "authorize",
          !.answer = IF granted THEN "none" ELSE "RATE_LIMITED",
          !.locked = clock, !.window = window.started, !.granted = granted]]
  /\ UNCHANGED <<clock, restarts, events, state, verifier>>

LogFailure(r) ==
  /\ requests[r].pc = "log_failure"
  /\ append("AUTHENTICATION_FAILED", r, NoRole)
  /\ Answer(r, "AUTHENTICATION_FAILED")
  /\ UNCHANGED <<clock, limiter, restarts, verifier>>

\* Mutant: only what is refused is audited.
AuthorizeLogsRefusals(r) ==
  LET request == requests[r]
      allowed == request.permission \in ROLE_PERMISSIONS(request.role) IN
  /\ request.pc = "authorize"
  /\ IF request.permission \in Audited /\ ~allowed
     THEN append(Verdict(request.permission, allowed), r, request.role)
     ELSE UNCHANGED <<events, state>>
  /\ Answer(r, IF allowed THEN "HANDLED" ELSE "AUTHORIZATION_DENIED")
  /\ UNCHANGED <<clock, limiter, restarts, verifier>>

\* The role matrix; the verdict is audited, and only then is the handler entered.
Authorize(r) ==
  LET request == requests[r]
      allowed == request.permission \in ROLE_PERMISSIONS(request.role) IN
  /\ request.pc = "authorize"
  /\ IF request.permission \in Audited
     THEN append(Verdict(request.permission, allowed), r, request.role)
     ELSE UNCHANGED <<events, state>>
  /\ Answer(r, IF allowed THEN "HANDLED" ELSE "AUTHORIZATION_DENIED")
  /\ UNCHANGED <<clock, limiter, restarts, verifier>>

\* An append that fails is rolled back, and the request ends there.
AppendFails(r) ==
  /\ "storage" \in Faults
  /\ \/ requests[r].pc = "log_failure"
     \/ requests[r].pc = "authorize" /\ requests[r].permission \in Audited
  /\ Answer(r, "INTERNAL_ERROR")
  /\ UNCHANGED <<clock, limiter, restarts, events, state, verifier>>

-----------------------------------------------------------------------------
(* The verifier, the process and the clock.                                *)

VerifyReadEvents ==
  /\ verifier.pc = "idle"
  /\ verifier' = [verifier EXCEPT !.pc = "state", !.rows = events]
  /\ UNCHANGED <<clock, limiter, restarts, requests, events, state>>

\* Mutant: the rows are checked among themselves and not against the stored head.
VerifyRowsOnly ==
  /\ verifier.pc = "state"
  /\ verifier' = [pc |-> "done", rows |-> <<>>, moved |-> Len(events) # Len(verifier.rows),
                   intact |-> \A n \in 1..Len(verifier.rows) :
                                verifier.rows[n].payload.sequence_number = n]
  /\ UNCHANGED <<clock, limiter, restarts, requests, events, state>>

VerifyReadState ==
  /\ verifier.pc = "state"
  /\ verifier' = [pc |-> "done", rows |-> <<>>, moved |-> Len(events) # Len(verifier.rows),
                   intact |-> Verifies(verifier.rows, state)]
  /\ UNCHANGED <<clock, limiter, restarts, requests, events, state>>

\* The process dies with its requests; a new one starts with an empty limiter.
Restart ==
  /\ restarts < MaxRestarts
  /\ restarts' = restarts + 1
  /\ limiter' = [b \in Buckets |-> NewWindow(clock)]
  /\ requests' = [r \in Requests |->
       IF InFlight(r) THEN [requests[r] EXCEPT !.pc = "done", !.answer = "DEAD"]
       ELSE requests[r]]
  /\ UNCHANGED <<clock, events, state, verifier>>

Tick ==
  /\ clock < MaxTime
  /\ clock' = clock + 1
  /\ UNCHANGED <<limiter, restarts, requests, events, state, verifier>>

Serve(r) ==
  \/ ReadClock(r)
  \/ Consume(r)
  \/ LogFailure(r)
  \/ Authorize(r)
  \/ AppendFails(r)

GateNext ==
  \/ \E r \in Requests :
       \/ \E role \in Credentials, permission \in Permissions :
            \/ Authenticate(r, role, permission)
            \/ AuthenticationNotLogged(r, role, permission)
       \/ FailToAuthenticate(r)
       \/ AuthenticateRaises(r)
       \/ Serve(r)
  \/ VerifyReadEvents
  \/ VerifyReadState
  \/ Restart
  \/ Tick

GateSpec == GateInit /\ [][GateNext]_gateVars

-----------------------------------------------------------------------------
(* Properties.                                                             *)

Answers == {"none", "HANDLED", "AUTHENTICATION_FAILED", "AUTHORIZATION_DENIED",
            "RATE_LIMITED", "INTERNAL_ERROR", "DEAD"}

RequestStates ==
  [pc : {"new", "clock", "consume", "log_failure", "authorize", "done"},
   role : Roles \cup {NoRole}, permission : AllPermissions \cup {"none"},
   now : Nat \cup {NoTime}, locked : Nat \cup {NoTime}, window : Nat \cup {NoTime},
   incarnation : Nat, granted : BOOLEAN, answer : Answers]

EventPayloads == [sequence_number : Nat, event_type : SecurityAuditEventTypes,
                  request_id : Requests, role : Roles \cup {NoRole}]

EventRows == [payload : EventPayloads, previous_event_hash : Seq(EventPayloads),
              event_hash : Seq(EventPayloads)]

\* Every variable has its type.
GateTypeOK ==
  /\ clock \in Nat
  /\ limiter \in [Buckets -> [started : Nat, count : Nat]]
  /\ restarts \in Nat
  /\ requests \in [Requests -> RequestStates]
  /\ events \in Seq(EventRows)
  /\ state \in [event_count : Nat, head_hash : Seq(EventPayloads)]
  /\ verifier \in [pc : {"idle", "state", "done"}, rows : Seq(EventRows), moved : BOOLEAN,
                    intact : BOOLEAN]

\* The types of the events a request left in the log.
Trail(r) == {events[n].payload.event_type :
               n \in {i \in 1..Len(events) : events[i].payload.request_id = r}}

\* What the log must hold of a request that got an answer.
ExpectedTrail(request) ==
  CASE request.answer = "HANDLED" ->
         {"AUTHENTICATION_SUCCEEDED"} \cup
         (IF request.permission \in Audited THEN {Verdict(request.permission, TRUE)} ELSE {})
    [] request.answer = "AUTHORIZATION_DENIED" ->
         {"AUTHENTICATION_SUCCEEDED"} \cup
         (IF request.permission \in Audited THEN {Verdict(request.permission, FALSE)} ELSE {})
    [] request.answer = "AUTHENTICATION_FAILED" -> {"AUTHENTICATION_FAILED"}
    [] request.answer = "RATE_LIMITED" ->
         IF request.role = NoRole THEN {} ELSE {"AUTHENTICATION_SUCCEEDED"}

\* Every answer of require_permission stands on exactly the durable events that
\* tell of it, whatever interleaves, fails or restarts; of a failed authentication
\* over the limit there are none.  Nothing is said of a 500, which may be unaudited or
\* audited in part, nor of a request whose process died.
AnswersAreAudited ==
  \A r \in Requests :
    requests[r].answer \notin {"none", "INTERNAL_ERROR", "DEAD"} =>
      Trail(r) = ExpectedTrail(requests[r])

\* The roles the documents give each mutation to (docs/architecture.md:206).
DocumentedRoles(permission) ==
  CASE permission = "approval" -> {"APPROVER", "ADMIN"}
    [] permission \in {"execution", "reconciliation"} -> {"EXECUTOR", "ADMIN"}
    [] permission = "admin" -> {"ADMIN"}
    [] OTHER -> Roles

\* No handler runs for a role the documents do not give it to, and no event says
\* that such a role was authorized, also when the process died before it answered.
NoPrivilegeCrossover ==
  /\ \A r \in Requests :
       requests[r].answer = "HANDLED" =>
         requests[r].role \in DocumentedRoles(requests[r].permission)
  /\ \A n \in 1..Len(events), p \in Audited :
       events[n].payload.event_type = Verdict(p, TRUE) =>
         events[n].payload.role \in DocumentedRoles(p)

\* The security chain verifies at every commit, whoever appends in what order.
SecurityChainIntact == Verifies(events, state)

\* verify answers False without tampering exactly when an event was committed
\* between its two reads.
VerifyAlarmHasACause ==
  verifier.pc = "done" => (verifier.intact <=> ~verifier.moved)

\* The calls of consume that lie, from the reading of the clock to the lock, within
\* one window's length and were granted by the same process.
GrantedWithin(bucket, incarnation, t) ==
  {r \in Requests :
     /\ requests[r].granted
     /\ Bucket(requests[r]) = bucket
     /\ requests[r].incarnation = incarnation
     /\ requests[r].now >= t
     /\ requests[r].locked < t + Window}

\* ProcessRateLimiter grants no more than twice its limit in any span of one window's
\* length (a burst at the end of a window and one at the beginning of the next),
\* whatever comes between a caller's reading of the clock and its taking of the lock.
LimitHolds ==
  \A b \in Buckets, i \in 0..MaxRestarts, t \in 0..MaxTime :
    Cardinality(GrantedWithin(b, i, t)) <= 2 * Limit[b]

\* A call is refused only when the limit was used up by calls granted less than a
\* window before it read the clock: refused calls, which are counted too, never
\* prolong the refusal.
RefusalIsJustified ==
  \A r \in Requests :
    requests[r].answer = "RATE_LIMITED" =>
      Cardinality({q \in Requests :
        /\ requests[q].granted
        /\ Bucket(requests[q]) = Bucket(requests[r])
        /\ requests[q].incarnation = requests[r].incarnation
        /\ requests[q].locked > requests[r].now - Window
        /\ requests[q].locked <= requests[r].locked}) >= Limit[Bucket(requests[r])]
=============================================================================
