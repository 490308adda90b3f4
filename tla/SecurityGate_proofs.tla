------------------------ MODULE SecurityGate_proofs ------------------------
(***************************************************************************)
(* Proofs about SecurityGate, for any finite set of requests, any limits,  *)
(* any length of the window, any clock and any number of restarts.         *)
(***************************************************************************)
EXTENDS SecurityGate, FiniteSetTheorems, TLAPS

-----------------------------------------------------------------------------
(* What one step does, field by field.                                     *)

\* No request but r changes.
Only(r) ==
  /\ requests' \in [Requests -> RequestStates]
  /\ \A q \in Requests \ {r} : requests'[q] = requests[q]

\* The limiter's fields of r are as they were.
SameLimits(r) ==
  /\ requests'[r].locked = requests[r].locked
  /\ requests'[r].window = requests[r].window
  /\ requests'[r].granted = requests[r].granted

\* r is still who it was and asks for the same.
SameIdentity(r) ==
  /\ requests'[r].role = requests[r].role
  /\ requests'[r].permission = requests[r].permission
  /\ requests'[r].incarnation = requests[r].incarnation

\* The log of security_audit_events grows by one event.
Appended(type, r, role) ==
  /\ events' \in Seq(EventRows)
  /\ state' \in [event_count : Nat, head_hash : Seq(EventPayloads)]
  /\ append(type, r, role)

\* append keeps the log and the stored head typed.
LEMMA AppendTypes ==
  ASSUME GateTypeOK, NEW type \in SecurityAuditEventTypes, NEW r \in Requests,
         NEW role \in Roles \cup {NoRole}, append(type, r, role)
  PROVE  Appended(type, r, role)
<1> DEFINE payload == [sequence_number |-> state.event_count + 1, event_type |-> type,
                       request_id |-> r, role |-> role]
           event == [payload |-> payload, previous_event_hash |-> state.head_hash,
                     event_hash |-> Append(state.head_hash, payload)]
<1>1. state.event_count \in Nat /\ state.head_hash \in Seq(EventPayloads)
  BY DEF GateTypeOK
<1>2. payload \in EventPayloads
  BY <1>1 DEF EventPayloads
<1>3. /\ events' = Append(events, event)
      /\ state' = [event_count |-> state.event_count + 1, head_hash |-> event.event_hash]
  BY DEF append, Event
<1> HIDE DEF payload
<1>4. Append(state.head_hash, payload) \in Seq(EventPayloads)
  BY <1>1, <1>2
<1>5. event \in EventRows /\ event.event_hash = Append(state.head_hash, payload)
  BY <1>1, <1>2, <1>4 DEF EventRows
<1> HIDE DEF event
<1>6. events' \in Seq(EventRows)
  BY <1>3, <1>5 DEF GateTypeOK
<1>7. state' \in [event_count : Nat, head_hash : Seq(EventPayloads)]
  BY <1>1, <1>3, <1>4, <1>5
<1> QED
  BY <1>6, <1>7 DEF Appended

\* What is known of a request and of the constants in a typed state.
LEMMA TypedRequest ==
  ASSUME GateTypeOK, NEW r \in Requests
  PROVE  /\ requests \in [Requests -> RequestStates] /\ requests[r] \in RequestStates
         /\ clock \in Nat /\ restarts \in Nat
         /\ Credentials \subseteq Roles /\ Permissions \subseteq AllPermissions
BY CredentialsAssumption, PermissionsAssumption DEF GateTypeOK

\* What authenticate does to the request it knows.
LEMMA AuthenticateFields ==
  ASSUME GateTypeOK, NEW r \in Requests, NEW role \in Credentials,
         NEW permission \in Permissions, Authenticate(r, role, permission)
  PROVE  /\ Only(r) /\ SameLimits(r)
         /\ requests'[r].pc = IF permission \in Mutating THEN "clock" ELSE "authorize"
         /\ requests'[r].role = role /\ requests'[r].permission = permission
         /\ requests'[r].incarnation = restarts
         /\ requests'[r].answer = requests[r].answer
<1> DEFINE pc == IF permission \in Mutating THEN "clock" ELSE "authorize"
<1>1. pc \in {"clock", "authorize"}
  OBVIOUS
<1>2. requests' = [requests EXCEPT ![r].pc = pc, ![r].role = role,
                     ![r].permission = permission, ![r].incarnation = restarts]
  BY DEF Authenticate
<1> HIDE DEF pc
<1>3. /\ requests'[r].pc = pc /\ requests'[r].role = role
      /\ requests'[r].permission = permission /\ requests'[r].incarnation = restarts
      /\ requests'[r].answer = requests[r].answer /\ SameLimits(r)
  BY <1>2, TypedRequest DEF SameLimits, RequestStates
<1>4. requests'[r] = [requests[r] EXCEPT !.pc = pc, !.role = role,
                        !.permission = permission, !.incarnation = restarts]
  BY <1>2, TypedRequest, Zenon
<1>a. role \in Roles /\ permission \in AllPermissions
  BY CredentialsAssumption, PermissionsAssumption
<1>5. requests'[r] \in RequestStates
  BY <1>1, <1>4, <1>a, TypedRequest DEF RequestStates
<1>6. Only(r)
  BY <1>2, <1>5, TypedRequest DEF Only
<1> QED
  BY <1>3, <1>6 DEF pc

\* What it does when the success cannot be audited.
LEMMA NotLoggedFields ==
  ASSUME GateTypeOK, NEW r \in Requests, NEW role \in Credentials,
         NEW permission \in Permissions, AuthenticationNotLogged(r, role, permission)
  PROVE  /\ Only(r) /\ SameLimits(r)
         /\ requests'[r].pc = "done"
         /\ requests'[r].role = role /\ requests'[r].permission = permission
         /\ requests'[r].incarnation = restarts
         /\ requests'[r].answer = "INTERNAL_ERROR"
<1>1. requests' = [requests EXCEPT ![r].pc = "done", ![r].role = role,
                     ![r].permission = permission, ![r].incarnation = restarts,
                     ![r].answer = "INTERNAL_ERROR"]
  BY DEF AuthenticationNotLogged
<1>2. /\ requests'[r].pc = "done" /\ requests'[r].role = role
      /\ requests'[r].permission = permission /\ requests'[r].incarnation = restarts
      /\ requests'[r].answer = "INTERNAL_ERROR" /\ SameLimits(r)
  BY <1>1, TypedRequest DEF SameLimits, RequestStates
<1>3. requests'[r] = [requests[r] EXCEPT !.pc = "done", !.role = role,
                        !.permission = permission, !.incarnation = restarts,
                        !.answer = "INTERNAL_ERROR"]
  BY <1>1, TypedRequest, Zenon
<1>a. role \in Roles /\ permission \in AllPermissions
  BY CredentialsAssumption, PermissionsAssumption
<1>4. requests'[r] \in RequestStates
  BY <1>3, <1>a, TypedRequest DEF RequestStates, Answers
<1>b. \A q \in Requests \ {r} : requests'[q] = requests[q]
  BY <1>1, TypedRequest
<1>5. Only(r)
  BY <1>1, <1>4, <1>b, TypedRequest DEF Only
<1> QED
  BY <1>2, <1>5

\* What it does to a request it does not know.
LEMMA FailFields ==
  ASSUME GateTypeOK, NEW r \in Requests, FailToAuthenticate(r)
  PROVE  /\ Only(r) /\ SameLimits(r)
         /\ requests'[r].pc = "consume" /\ requests'[r].now = clock
         /\ requests'[r].role = requests[r].role
         /\ requests'[r].permission = requests[r].permission
         /\ requests'[r].incarnation = restarts
         /\ requests'[r].answer = requests[r].answer
<1>1. requests' = [requests EXCEPT ![r].pc = "consume", ![r].now = clock,
                     ![r].incarnation = restarts]
  BY DEF FailToAuthenticate
<1>2. /\ requests'[r].pc = "consume" /\ requests'[r].now = clock
      /\ requests'[r].role = requests[r].role
      /\ requests'[r].permission = requests[r].permission
      /\ requests'[r].incarnation = restarts
      /\ requests'[r].answer = requests[r].answer /\ SameLimits(r)
  BY <1>1, TypedRequest DEF SameLimits, RequestStates
<1>3. requests'[r] = [requests[r] EXCEPT !.pc = "consume", !.now = clock,
                        !.incarnation = restarts]
  BY <1>1, TypedRequest, Zenon
<1>4. requests'[r] \in RequestStates
  BY <1>3, TypedRequest DEF RequestStates
<1>5. \A q \in Requests \ {r} : requests'[q] = requests[q]
  BY <1>1, TypedRequest
<1>6. Only(r)
  BY <1>1, <1>4, <1>5, TypedRequest DEF Only
<1> QED
  BY <1>2, <1>6

\* What the reading of the clock does.
LEMMA ClockFields ==
  ASSUME GateTypeOK, NEW r \in Requests, ReadClock(r)
  PROVE  /\ Only(r) /\ SameLimits(r) /\ SameIdentity(r)
         /\ requests'[r].pc = "consume" /\ requests'[r].now = clock
         /\ requests'[r].answer = requests[r].answer
BY TypedRequest DEF ReadClock, Only, SameLimits, SameIdentity, RequestStates

\* The window consume works in is a window.
LEMMA WindowTypes ==
  ASSUME GateTypeOK, NEW b \in Buckets, NEW now \in Nat
  PROVE  /\ WindowOf(limiter[b], now) \in [started : Nat, count : Nat]
         /\ WindowOf(limiter[b], now).started \in Nat
         /\ WindowOf(limiter[b], now).count \in Nat
         /\ limiter[b].started \in Nat /\ limiter[b].count \in Nat
BY DEF GateTypeOK, WindowOf, NewWindow

\* What the lock of the limiter is held for.
LEMMA ConsumeFields ==
  ASSUME GateTypeOK, NEW r \in Requests, Consume(r), requests[r].now \in Nat,
         NEW bucket, bucket = Bucket(requests[r]),
         NEW window, window = WindowOf(limiter[bucket], requests[r].now),
         NEW granted, granted = Grants(bucket, window.count + 1)
  PROVE  /\ Only(r) /\ SameIdentity(r) /\ granted \in BOOLEAN
         /\ bucket \in Buckets
         /\ requests'[r].now = requests[r].now
         /\ requests'[r].pc = IF ~granted THEN "done"
                              ELSE IF bucket = "authentication" THEN "log_failure" ELSE "authorize"
         /\ requests'[r].answer = IF granted THEN "none" ELSE "RATE_LIMITED"
         /\ requests'[r].locked = clock /\ requests'[r].window = window.started
         /\ requests'[r].granted = granted
         /\ limiter' \in [Buckets -> [started : Nat, count : Nat]]
         /\ limiter'[bucket].started = window.started
         /\ limiter'[bucket].count = window.count + 1
         /\ \A b \in Buckets \ {bucket} : limiter'[b] = limiter[b]
<1>1. bucket \in Buckets
  BY DEF Bucket, Buckets
<1>2. /\ window \in [started : Nat, count : Nat]
      /\ window.started \in Nat /\ window.count \in Nat
  BY <1>1, WindowTypes
<1>3. granted \in BOOLEAN
  BY DEF Grants
<1>4. /\ limiter' = [limiter EXCEPT ![bucket] = [window EXCEPT !.count = window.count + 1]]
      /\ requests' = [requests EXCEPT ![r] =
           [requests[r] EXCEPT
              !.pc = IF ~granted THEN "done"
                     ELSE IF bucket = "authentication" THEN "log_failure" ELSE "authorize",
              !.answer = IF granted THEN "none" ELSE "RATE_LIMITED",
              !.locked = clock, !.window = window.started, !.granted = granted]]
  BY DEF Consume
<1>5. /\ limiter' \in [Buckets -> [started : Nat, count : Nat]]
      /\ limiter'[bucket].started = window.started
      /\ limiter'[bucket].count = window.count + 1
      /\ \A b \in Buckets \ {bucket} : limiter'[b] = limiter[b]
  BY <1>1, <1>2, <1>4 DEF GateTypeOK
<1> DEFINE pc == IF ~granted THEN "done"
                 ELSE IF bucket = "authentication" THEN "log_failure" ELSE "authorize"
           answer == IF granted THEN "none" ELSE "RATE_LIMITED"
<1>a. pc \in {"done", "log_failure", "authorize"} /\ answer \in {"none", "RATE_LIMITED"}
  OBVIOUS
<1>b. requests'[r] = [requests[r] EXCEPT !.pc = pc, !.answer = answer,
                        !.locked = clock, !.window = window.started, !.granted = granted]
  BY <1>4, TypedRequest, Zenon
<1> HIDE DEF pc, answer
<1>6. requests'[r] \in RequestStates
  BY TypedRequest, <1>2, <1>3, <1>a, <1>b DEF RequestStates, Answers
<1> USE DEF pc, answer
<1>7. Only(r)
  BY TypedRequest, <1>4, <1>6 DEF Only
<1> QED
  BY TypedRequest, <1>1, <1>3, <1>4, <1>5, <1>7 DEF SameIdentity, RequestStates

\* What an answer does.
LEMMA AnswerFields ==
  ASSUME GateTypeOK, NEW r \in Requests, NEW answer \in Answers, Answer(r, answer)
  PROVE  /\ Only(r) /\ SameLimits(r) /\ SameIdentity(r)
         /\ requests'[r].now = requests[r].now
         /\ requests'[r].pc = "done" /\ requests'[r].answer = answer
BY TypedRequest DEF Answer, Only, SameLimits, SameIdentity, RequestStates

-----------------------------------------------------------------------------
(* The shape of a request.                                                 *)

\* What a request is at each point of require_permission, at time t of process i.
ShapeOf(q, t, i) ==
  /\ q.pc # "done" => q.answer = "none"
  /\ q.pc \in {"new", "log_failure"} => q.role = NoRole
  /\ q.pc \in {"clock", "authorize"} => q.role \in Roles
  /\ q.pc \in {"new", "clock", "consume"} => ~q.granted
  /\ q.pc = "consume" => q.now \in Nat /\ q.now <= t
  /\ q.pc \notin {"new", "done"} => q.incarnation = i
  /\ q.incarnation <= i
  /\ q.answer = "HANDLED" => q.role \in Roles /\ q.permission \in ROLE_PERMISSIONS(q.role)

Shape == \A q \in Requests : ShapeOf(requests[q], clock, restarts)

GateBase == GateTypeOK /\ Shape

\* The rest of the state in a step of require_permission that appends or not.
LogTyped ==
  /\ events' \in Seq(EventRows)
  /\ state' \in [event_count : Nat, head_hash : Seq(EventPayloads)]

\* A step of one request keeps types and shapes when it keeps those of the request.
LEMMA BaseByRequest ==
  ASSUME GateBase, NEW r \in Requests, Only(r), LogTyped,
         limiter' \in [Buckets -> [started : Nat, count : Nat]],
         UNCHANGED <<clock, restarts, verifier>>,
         ShapeOf(requests'[r], clock, restarts)
  PROVE  GateBase'
<1>1. GateTypeOK'
  BY DEF GateBase, GateTypeOK, Only, LogTyped
<1>2. Shape'
  BY DEF GateBase, Shape, Only
<1> QED
  BY <1>1, <1>2 DEF GateBase

\* The parts of a typed state, and a log that is left alone.
LEMMA LogUnchanged ==
  ASSUME GateTypeOK, UNCHANGED <<events, state>>
  PROVE  LogTyped
BY DEF GateTypeOK, LogTyped

\* A successful authentication, audited, keeps types and shapes.
LEMMA AuthenticateBase ==
  ASSUME GateBase, NEW r \in Requests, NEW role \in Credentials,
         NEW permission \in Permissions, Authenticate(r, role, permission)
  PROVE  GateBase'
<1>1. GateTypeOK /\ ShapeOf(requests[r], clock, restarts) /\ requests[r].pc = "new"
  BY DEF GateBase, Shape, Authenticate
<1>2. role \in Roles
  BY CredentialsAssumption
<1>3. LogTyped
  BY <1>1, <1>2, AppendTypes DEF Authenticate, Appended, LogTyped, SecurityAuditEventTypes
<1>4. ShapeOf(requests'[r], clock, restarts)
  BY <1>1, <1>2, AuthenticateFields, TypedRequest DEF ShapeOf, SameLimits
<1> QED
  BY <1>1, <1>3, <1>4, AuthenticateFields, BaseByRequest DEF Authenticate, GateTypeOK

\* So does one whose event cannot be stored.
LEMMA NotLoggedBase ==
  ASSUME GateBase, NEW r \in Requests, NEW role \in Credentials,
         NEW permission \in Permissions, AuthenticationNotLogged(r, role, permission)
  PROVE  GateBase'
<1>1. GateTypeOK /\ ShapeOf(requests[r], clock, restarts)
  BY DEF GateBase, Shape
<1>2. LogTyped
  BY <1>1, LogUnchanged DEF AuthenticationNotLogged
<1>3. ShapeOf(requests'[r], clock, restarts)
  BY <1>1, NotLoggedFields, TypedRequest DEF ShapeOf, SameLimits
<1> QED
  BY <1>1, <1>2, <1>3, NotLoggedFields, BaseByRequest DEF AuthenticationNotLogged, GateTypeOK

\* So does a failed authentication.
LEMMA FailBase ==
  ASSUME GateBase, NEW r \in Requests, FailToAuthenticate(r)
  PROVE  GateBase'
<1>1. GateTypeOK /\ ShapeOf(requests[r], clock, restarts) /\ requests[r].pc = "new"
  BY DEF GateBase, Shape, FailToAuthenticate
<1>2. LogTyped
  BY <1>1, LogUnchanged DEF FailToAuthenticate
<1>3. ShapeOf(requests'[r], clock, restarts)
  BY <1>1, FailFields, TypedRequest DEF ShapeOf, SameLimits
<1> QED
  BY <1>1, <1>2, <1>3, FailFields, BaseByRequest DEF FailToAuthenticate, GateTypeOK

\* So does the reading of the clock.
LEMMA ClockBase ==
  ASSUME GateBase, NEW r \in Requests, ReadClock(r)
  PROVE  GateBase'
<1>1. GateTypeOK /\ ShapeOf(requests[r], clock, restarts) /\ requests[r].pc = "clock"
  BY DEF GateBase, Shape, ReadClock
<1>2. LogTyped
  BY <1>1, LogUnchanged DEF ReadClock
<1>3. ShapeOf(requests'[r], clock, restarts)
  BY <1>1, ClockFields, TypedRequest DEF ShapeOf, SameLimits, SameIdentity
<1> QED
  BY <1>1, <1>2, <1>3, ClockFields, BaseByRequest DEF ReadClock, GateTypeOK

\* So does consume, under its lock.
LEMMA ConsumeBase ==
  ASSUME GateBase, NEW r \in Requests, Consume(r)
  PROVE  GateBase'
<1> DEFINE bucket == Bucket(requests[r])
           window == WindowOf(limiter[bucket], requests[r].now)
           granted == Grants(bucket, window.count + 1)
<1>1. GateTypeOK /\ ShapeOf(requests[r], clock, restarts) /\ requests[r].pc = "consume"
  BY DEF GateBase, Shape, Consume
<1>2. requests[r].now \in Nat /\ requests[r].now <= clock
  BY <1>1 DEF ShapeOf
<1>3. LogTyped
  BY <1>1, LogUnchanged DEF Consume
<1>b. (bucket = "authentication") <=> (requests[r].role = NoRole)
  BY DEF Bucket
<1>r. requests[r].role \in Roles \cup {NoRole}
  BY <1>1, TypedRequest DEF RequestStates
<1> HIDE DEF bucket, window, granted
<1>4. /\ Only(r) /\ SameIdentity(r) /\ granted \in BOOLEAN
      /\ requests'[r].pc = IF ~granted THEN "done"
                           ELSE IF bucket = "authentication" THEN "log_failure" ELSE "authorize"
      /\ requests'[r].answer = IF granted THEN "none" ELSE "RATE_LIMITED"
      /\ limiter' \in [Buckets -> [started : Nat, count : Nat]]
  BY <1>1, <1>2, ConsumeFields DEF bucket, window, granted
<1>5. ShapeOf(requests'[r], clock, restarts)
  BY <1>1, <1>4, <1>b, <1>r DEF ShapeOf, SameIdentity
<1> QED
  BY <1>3, <1>4, <1>5, BaseByRequest DEF Consume

\* So does the audited refusal of unknown credentials.
LEMMA LogFailureBase ==
  ASSUME GateBase, NEW r \in Requests, LogFailure(r)
  PROVE  GateBase'
<1>1. GateTypeOK /\ ShapeOf(requests[r], clock, restarts) /\ requests[r].pc = "log_failure"
  BY DEF GateBase, Shape, LogFailure
<1>2. LogTyped
  BY <1>1, AppendTypes DEF LogFailure, Appended, LogTyped, SecurityAuditEventTypes
<1>3. Answer(r, "AUTHENTICATION_FAILED") /\ "AUTHENTICATION_FAILED" \in Answers
  BY DEF LogFailure, Answers
<1>4. ShapeOf(requests'[r], clock, restarts)
  BY <1>1, <1>3, AnswerFields, TypedRequest DEF ShapeOf, SameLimits, SameIdentity
<1> QED
  BY <1>1, <1>2, <1>3, <1>4, AnswerFields, BaseByRequest DEF LogFailure, GateTypeOK

\* So does the verdict of the role matrix.
LEMMA AuthorizeBase ==
  ASSUME GateBase, NEW r \in Requests, Authorize(r)
  PROVE  GateBase'
<1> DEFINE allowed == requests[r].permission \in ROLE_PERMISSIONS(requests[r].role)
           answer == IF allowed THEN "HANDLED" ELSE "AUTHORIZATION_DENIED"
<1>1. GateTypeOK /\ ShapeOf(requests[r], clock, restarts) /\ requests[r].pc = "authorize"
  BY DEF GateBase, Shape, Authorize
<1>2. requests[r].role \in Roles
  BY <1>1 DEF ShapeOf
<1>3. LogTyped
  <2>1. CASE requests[r].permission \in Audited
    <3>1. allowed \in BOOLEAN
      OBVIOUS
    <3>2. append(Verdict(requests[r].permission, allowed), r, requests[r].role)
      BY <2>1 DEF Authorize
    <3> HIDE DEF allowed
    <3>3. Verdict(requests[r].permission, allowed) \in SecurityAuditEventTypes
      BY <2>1, <3>1 DEF SecurityAuditEventTypes
    <3> QED
      BY <1>1, <1>2, <3>2, <3>3, AppendTypes DEF Appended, LogTyped
  <2>2. CASE requests[r].permission \notin Audited
    BY <1>1, <2>2, LogUnchanged DEF Authorize
  <2> QED
    BY <2>1, <2>2
<1>4. Answer(r, answer) /\ answer \in Answers
  BY DEF Authorize, Answers
<1>5. answer = "HANDLED" => allowed
  OBVIOUS
<1> HIDE DEF answer
<1>6. ShapeOf(requests'[r], clock, restarts)
  BY <1>1, <1>2, <1>4, <1>5, AnswerFields, TypedRequest DEF ShapeOf, SameLimits, SameIdentity
<1> QED
  BY <1>1, <1>3, <1>4, <1>6, AnswerFields, BaseByRequest DEF Authorize, GateTypeOK

\* The request ends with an error nobody answers for, and nothing is written.
FailsClosed(r) == AuthenticateRaises(r) \/ AppendFails(r)

\* So does an exception, or an append that is rolled back.
LEMMA FailsClosedBase ==
  ASSUME GateBase, NEW r \in Requests, FailsClosed(r)
  PROVE  GateBase'
<1>1. GateTypeOK /\ ShapeOf(requests[r], clock, restarts)
  BY DEF GateBase, Shape
<1>2. LogTyped
  BY <1>1, LogUnchanged DEF FailsClosed, AuthenticateRaises, AppendFails
<1>3. Answer(r, "INTERNAL_ERROR") /\ "INTERNAL_ERROR" \in Answers
  BY DEF FailsClosed, AuthenticateRaises, AppendFails, Answers
<1>4. ShapeOf(requests'[r], clock, restarts)
  BY <1>1, <1>3, AnswerFields, TypedRequest DEF ShapeOf, SameLimits, SameIdentity
<1> QED
  BY <1>1, <1>2, <1>3, <1>4, AnswerFields, BaseByRequest DEF FailsClosed, AuthenticateRaises, AppendFails, GateTypeOK

\* The steps of an operator's verify, the restart of the process and the clock.
Surroundings == VerifyReadEvents \/ VerifyReadState \/ Restart \/ Tick

\* What a restart does to each request.
LEMMA RestartFields ==
  ASSUME GateTypeOK, Restart
  PROVE  /\ requests' \in [Requests -> RequestStates]
         /\ \A q \in Requests :
              \/ requests'[q] = requests[q] /\ ~InFlight(q)
              \/ /\ InFlight(q) /\ SameIdentity(q) /\ SameLimits(q)
                 /\ requests'[q].now = requests[q].now
                 /\ requests'[q].pc = "done" /\ requests'[q].answer = "DEAD"
<1>1. SUFFICES ASSUME NEW q \in Requests
               PROVE  /\ requests'[q] \in RequestStates
                      /\ \/ requests'[q] = requests[q] /\ ~InFlight(q)
                         \/ /\ InFlight(q) /\ SameIdentity(q) /\ SameLimits(q)
                            /\ requests'[q].now = requests[q].now
                            /\ requests'[q].pc = "done" /\ requests'[q].answer = "DEAD"
  BY DEF Restart
<1>2. requests'[q] = IF InFlight(q) THEN [requests[q] EXCEPT !.pc = "done", !.answer = "DEAD"]
                     ELSE requests[q]
  BY DEF Restart
<1>3. requests[q] \in RequestStates
  BY DEF GateTypeOK
<1>4. CASE InFlight(q)
  <2>1. requests'[q] = [requests[q] EXCEPT !.pc = "done", !.answer = "DEAD"]
    BY <1>2, <1>4
  <2> QED
    BY <1>3, <1>4, <2>1 DEF RequestStates, Answers, SameIdentity, SameLimits
<1>5. CASE ~InFlight(q)
  BY <1>2, <1>3, <1>5
<1> QED
  BY <1>4, <1>5

\* So does the first read of verify.
LEMMA VerifyReadEventsBase ==
  ASSUME GateBase, VerifyReadEvents
  PROVE  GateBase'
BY DEF GateBase, GateTypeOK, Shape, VerifyReadEvents

\* So does its second read and its verdict.
LEMMA VerifyReadStateBase ==
  ASSUME GateBase, VerifyReadState
  PROVE  GateBase'
<1>1. verifier' \in [pc : {"idle", "state", "done"}, rows : Seq(EventRows), moved : BOOLEAN,
                     intact : BOOLEAN]
  <2>1. <<>> \in Seq(EventRows) /\ (Len(events) # Len(verifier.rows)) \in BOOLEAN
    OBVIOUS
  <2>2. Verifies(verifier.rows, state) \in BOOLEAN
    BY DEF Verifies
  <2> QED
    BY <2>1, <2>2 DEF VerifyReadState
<1> QED
  BY <1>1 DEF GateBase, GateTypeOK, Shape, VerifyReadState

\* So does a restart, which ends the requests in flight.
LEMMA RestartBase ==
  ASSUME GateBase, Restart
  PROVE  GateBase'
<1>1. GateTypeOK /\ Shape /\ clock \in Nat /\ restarts \in Nat
  BY DEF GateBase, GateTypeOK
<1>2. restarts' = restarts + 1 /\ UNCHANGED <<clock, events, state, verifier>>
      /\ limiter' \in [Buckets -> [started : Nat, count : Nat]]
  BY <1>1 DEF Restart, NewWindow
<1>3. GateTypeOK'
  BY <1>1, <1>2, RestartFields DEF GateTypeOK
<1>4. ASSUME NEW q \in Requests
      PROVE  ShapeOf(requests'[q], clock, restarts + 1)
  <2>1. ShapeOf(requests[q], clock, restarts) /\ requests[q] \in RequestStates
    BY <1>1 DEF Shape, GateTypeOK
  <2>2. requests[q].incarnation \in Nat /\ restarts \in Nat
    BY <1>1, <2>1 DEF RequestStates
  <2>3. CASE requests'[q] = requests[q] /\ ~InFlight(q)
    BY <2>1, <2>2, <2>3 DEF ShapeOf, InFlight
  <2>4. CASE /\ InFlight(q) /\ SameIdentity(q) /\ SameLimits(q)
             /\ requests'[q].pc = "done" /\ requests'[q].answer = "DEAD"
    BY <2>1, <2>2, <2>4 DEF ShapeOf, SameIdentity, SameLimits
  <2> QED
    BY <1>1, <2>3, <2>4, RestartFields
<1> QED
  BY <1>2, <1>3, <1>4 DEF GateBase, Shape

\* So does the passing of time.
LEMMA TickBase ==
  ASSUME GateBase, Tick
  PROVE  GateBase'
<1>1. clock \in Nat /\ clock' = clock + 1
      /\ UNCHANGED <<limiter, restarts, requests, events, state, verifier>>
  BY DEF GateBase, GateTypeOK, Tick
<1>2. ASSUME NEW q \in Requests
      PROVE  ShapeOf(requests[q], clock + 1, restarts)
  BY <1>1 DEF GateBase, Shape, ShapeOf
<1> QED
  BY <1>1, <1>2 DEF GateBase, GateTypeOK, Shape

\* The requests start with their types and shapes, before any of them arrives.
LEMMA BaseInit ==
  ASSUME GateInit
  PROVE  GateBase
<1>1. Fresh \in RequestStates
  BY DEF Fresh, RequestStates, Answers
<1>2. ShapeOf(Fresh, 0, 0)
  BY DEF ShapeOf, Fresh
<1>3. GateTypeOK
  BY <1>1 DEF GateInit, GateTypeOK, NewWindow, GENESIS
<1> QED
  BY <1>2, <1>3 DEF GateBase, Shape, GateInit

\* Types and shapes are kept by every step of the gate.
LEMMA BaseStep ==
  ASSUME GateBase, [GateNext]_gateVars
  PROVE  GateBase'
<1>1. CASE UNCHANGED gateVars
  BY <1>1 DEF gateVars, GateBase, GateTypeOK, Shape
<1>2. CASE \E r \in Requests, role \in Credentials, permission \in Permissions :
             \/ Authenticate(r, role, permission)
             \/ AuthenticationNotLogged(r, role, permission)
  BY <1>2, AuthenticateBase, NotLoggedBase
<1>3. CASE \E r \in Requests : FailToAuthenticate(r) \/ AuthenticateRaises(r) \/ Serve(r)
  BY <1>3, FailBase, ClockBase, ConsumeBase, LogFailureBase, AuthorizeBase, FailsClosedBase
     DEF Serve, FailsClosed
<1>4. CASE Surroundings
  BY <1>4, VerifyReadEventsBase, VerifyReadStateBase, RestartBase, TickBase DEF Surroundings
<1> QED
  BY <1>1, <1>2, <1>3, <1>4 DEF GateNext, Surroundings

\* Types and shapes hold in every state of the gate.
THEOREM GateShape == GateSpec => []GateBase
BY BaseInit, BaseStep, PTL DEF GateSpec

\* Every variable of the gate keeps its type: in particular consume never computes
\* with a clock that was not read.
THEOREM GateTypes == GateSpec => []GateTypeOK
<1>1. GateBase => GateTypeOK
  BY DEF GateBase
<1> QED
  BY <1>1, GateShape, PTL

-----------------------------------------------------------------------------
(* The security audit chain.                                               *)

\* The steps that append, and what they append.
Appends(r, type, role) ==
  /\ type \in SecurityAuditEventTypes /\ role \in Roles \cup {NoRole}
  /\ append(type, r, role)
  /\ UNCHANGED verifier

\* What a step does to the log: it appends one event of one request, or nothing.
LogStep == \/ UNCHANGED <<events, state>>
           \/ \E r \in Requests, type \in SecurityAuditEventTypes, role \in Roles \cup {NoRole} :
                Appends(r, type, role)

\* Every step of the gate is a step of the log.
LEMMA EveryStepLogs ==
  ASSUME GateBase, [GateNext]_gateVars
  PROVE  LogStep
<1>1. CASE UNCHANGED gateVars
  BY <1>1 DEF gateVars, LogStep
<1>2. ASSUME NEW r \in Requests, NEW role \in Credentials, NEW permission \in Permissions,
             Authenticate(r, role, permission)
      PROVE  LogStep
  BY <1>2, CredentialsAssumption DEF Authenticate, LogStep, Appends, SecurityAuditEventTypes
<1>3. ASSUME NEW r \in Requests, LogFailure(r)
      PROVE  LogStep
  BY <1>3 DEF LogFailure, LogStep, Appends, SecurityAuditEventTypes
<1>4. ASSUME NEW r \in Requests, Authorize(r)
      PROVE  LogStep
  <2> DEFINE allowed == requests[r].permission \in ROLE_PERMISSIONS(requests[r].role)
             type == Verdict(requests[r].permission, allowed)
  <2>1. requests[r].role \in Roles
    BY <1>4 DEF GateBase, Shape, ShapeOf, Authorize
  <2>2. CASE requests[r].permission \in Audited
    <3>1. allowed \in BOOLEAN
      OBVIOUS
    <3>2. append(type, r, requests[r].role) /\ UNCHANGED verifier
      BY <1>4, <2>2 DEF Authorize
    <3> HIDE DEF allowed
    <3>3. type \in SecurityAuditEventTypes
      BY <2>2, <3>1 DEF SecurityAuditEventTypes
    <3> HIDE DEF type
    <3> QED
      BY <2>1, <3>2, <3>3 DEF LogStep, Appends
  <2>3. CASE requests[r].permission \notin Audited
    BY <1>4, <2>3 DEF Authorize, LogStep
  <2> QED
    BY <2>2, <2>3
<1>5. ASSUME NEW r \in Requests, NEW role \in Credentials, NEW permission \in Permissions,
             AuthenticationNotLogged(r, role, permission)
      PROVE  LogStep
  BY <1>5 DEF LogStep, AuthenticationNotLogged
<1>6. ASSUME NEW r \in Requests, FailToAuthenticate(r) \/ ReadClock(r)
      PROVE  LogStep
  BY <1>6 DEF LogStep, FailToAuthenticate, ReadClock
<1>7. ASSUME NEW r \in Requests, Consume(r) \/ FailsClosed(r)
      PROVE  LogStep
  BY <1>7 DEF LogStep, Consume, FailsClosed, AuthenticateRaises, AppendFails
<1>8. CASE Surroundings
  BY <1>8 DEF LogStep, Surroundings, VerifyReadEvents, VerifyReadState, Restart, Tick
<1> QED
  BY <1>1, <1>2, <1>3, <1>4, <1>5, <1>6, <1>7, <1>8 DEF GateNext, Serve, FailsClosed, Surroundings

\* The event that append writes.
LEMMA AppendedEvent ==
  ASSUME GateTypeOK, NEW r, NEW type, NEW role, append(type, r, role)
  PROVE  \E event :
           /\ events' = Append(events, event)
           /\ event.payload.sequence_number = state.event_count + 1
           /\ event.payload.event_type = type
           /\ event.payload.request_id = r
           /\ event.payload.role = role
           /\ event.previous_event_hash = state.head_hash
           /\ event.event_hash = Append(state.head_hash, event.payload)
           /\ state'.event_count = state.event_count + 1
           /\ state'.head_hash = event.event_hash
BY DEF append, Event

\* append extends a chain that verifies to one that verifies.
LEMMA AppendKeepsChain ==
  ASSUME GateTypeOK, SecurityChainIntact, NEW r, NEW type, NEW role, append(type, r, role),
         events' \in Seq(EventRows)
  PROVE  SecurityChainIntact'
<1>1. PICK event :
           /\ events' = Append(events, event)
           /\ event.payload.sequence_number = state.event_count + 1
           /\ event.previous_event_hash = state.head_hash
           /\ event.event_hash = Append(state.head_hash, event.payload)
           /\ state'.event_count = state.event_count + 1
           /\ state'.head_hash = event.event_hash
  BY AppendedEvent
<1>2. /\ events \in Seq(EventRows) /\ state.event_count = Len(events) /\ Len(events) \in Nat
      /\ state.head_hash = IF events = <<>> THEN GENESIS ELSE events[Len(events)].event_hash
  BY DEF GateTypeOK, SecurityChainIntact, Verifies
<1>3. /\ Len(events') = Len(events) + 1
      /\ \A n \in 1..Len(events) : events'[n] = events[n]
      /\ events'[Len(events) + 1] = event
      /\ events' # <<>>
  BY <1>1, <1>2
<1>4. events = <<>> <=> Len(events) + 1 = 1
  BY <1>2
<1>5. ASSUME NEW n \in 1..Len(events')
      PROVE  LET previous == IF n = 1 THEN GENESIS ELSE events'[n - 1].event_hash IN
             /\ events'[n].payload.sequence_number = n
             /\ events'[n].previous_event_hash = previous
             /\ events'[n].event_hash = Append(previous, events'[n].payload)
  <2>1. CASE n = Len(events) + 1
    <3>1. (IF n = 1 THEN GENESIS ELSE events'[n - 1].event_hash) = state.head_hash
      BY <1>2, <1>3, <1>4, <2>1
    <3> QED
      BY <1>1, <1>2, <1>3, <2>1, <3>1
  <2>2. CASE n \in 1..Len(events)
    <3>1. n # 1 => n - 1 \in 1..Len(events)
      BY <1>2, <2>2
    <3>2. (IF n = 1 THEN GENESIS ELSE events'[n - 1].event_hash)
            = IF n = 1 THEN GENESIS ELSE events[n - 1].event_hash
      BY <1>3, <3>1
    <3> QED
      BY <1>3, <2>2, <3>2 DEF SecurityChainIntact, Verifies
  <2> QED
    BY <1>2, <1>3, <2>1, <2>2
<1>6. state'.event_count = Len(events')
  BY <1>1, <1>2, <1>3
<1>7. state'.head_hash = IF events' = <<>> THEN GENESIS ELSE events'[Len(events')].event_hash
  BY <1>1, <1>2, <1>3
<1> QED
  BY <1>5, <1>6, <1>7 DEF SecurityChainIntact, Verifies

\* What verify holds between its two reads is how the log began, and the verdict
\* it has given was right about whether the log moved.
VerifierKnows ==
  /\ verifier.pc = "state" =>
       /\ Len(verifier.rows) <= Len(events)
       /\ Len(verifier.rows) = Len(events) => verifier.rows = events
  /\ VerifyAlarmHasACause

ChainInv == SecurityChainIntact /\ VerifierKnows

\* The empty chain verifies.
LEMMA ChainInit ==
  ASSUME GateInit
  PROVE  ChainInv
BY DEF GateInit, ChainInv, SecurityChainIntact, Verifies, VerifierKnows, VerifyAlarmHasACause,
   GENESIS

\* Every step keeps the chain verifying.
LEMMA ChainIntactStep ==
  ASSUME GateBase, GateBase', ChainInv, [GateNext]_gateVars
  PROVE  SecurityChainIntact'
<1>1. LogStep /\ GateTypeOK /\ events' \in Seq(EventRows) /\ SecurityChainIntact
  BY EveryStepLogs DEF GateBase, GateTypeOK, ChainInv
<1>2. CASE UNCHANGED <<events, state>>
  BY <1>1, <1>2 DEF SecurityChainIntact
<1>3. ASSUME NEW r, NEW type, NEW role, append(type, r, role)
      PROVE  SecurityChainIntact'
  BY <1>1, <1>3, AppendKeepsChain
<1> QED
  BY <1>1, <1>2, <1>3 DEF LogStep, Appends

\* Every step keeps what the verifier knows true.
LEMMA VerifierStep ==
  ASSUME GateBase, GateBase', ChainInv, [GateNext]_gateVars
  PROVE  VerifierKnows'
<1>1. /\ events \in Seq(EventRows) /\ verifier.rows \in Seq(EventRows)
      /\ Len(events) \in Nat /\ Len(verifier.rows) \in Nat /\ GateTypeOK
      /\ VerifierKnows /\ SecurityChainIntact
  BY DEF GateBase, GateTypeOK, ChainInv
<1>2. CASE VerifyReadEvents
  <2>1. verifier'.pc = "state" /\ verifier'.rows = events /\ events' = events
    BY <1>2 DEF VerifyReadEvents, GateBase, GateTypeOK
  <2> QED
    BY <1>1, <2>1 DEF VerifierKnows, VerifyAlarmHasACause
<1>3. CASE VerifyReadState
  <2>1. /\ verifier'.pc = "done" /\ verifier.pc = "state"
        /\ verifier'.moved = (Len(events) # Len(verifier.rows))
        /\ verifier'.intact = Verifies(verifier.rows, state)
    BY <1>3 DEF VerifyReadState
  <2>2. CASE Len(events) = Len(verifier.rows)
    <3>1. verifier.rows = events
      BY <1>1, <2>1, <2>2 DEF VerifierKnows
    <3>2. Verifies(verifier.rows, state)
      BY <1>1, <3>1 DEF SecurityChainIntact
    <3> QED
      BY <2>1, <2>2, <3>2 DEF VerifierKnows, VerifyAlarmHasACause
  <2>3. CASE Len(events) # Len(verifier.rows)
    <3>1. ~Verifies(verifier.rows, state)
      BY <1>1, <2>3 DEF SecurityChainIntact, Verifies
    <3> QED
      BY <2>1, <2>3, <3>1 DEF VerifierKnows, VerifyAlarmHasACause
  <2> QED
    BY <2>2, <2>3
<1>4. CASE UNCHANGED <<events, verifier>>
  BY <1>1, <1>4 DEF VerifierKnows, VerifyAlarmHasACause
<1>5. ASSUME NEW r, NEW type, NEW role, Appends(r, type, role)
      PROVE  VerifierKnows'
  <2>1. Len(events') = Len(events) + 1 /\ verifier' = verifier
    BY <1>1, <1>5 DEF Appends, append
  <2> QED
    BY <1>1, <2>1 DEF VerifierKnows, VerifyAlarmHasACause
<1>6. CASE UNCHANGED <<events, state>>
  <2>1. \/ VerifyReadEvents \/ VerifyReadState \/ UNCHANGED verifier
    <3>1. ASSUME NEW r \in Requests, NEW role \in Credentials, NEW permission \in Permissions,
                 Authenticate(r, role, permission) \/ AuthenticationNotLogged(r, role, permission)
          PROVE  UNCHANGED verifier
      BY <3>1 DEF Authenticate, AuthenticationNotLogged
    <3>2. ASSUME NEW r \in Requests, FailToAuthenticate(r) \/ ReadClock(r) \/ Consume(r)
          PROVE  UNCHANGED verifier
      BY <3>2 DEF FailToAuthenticate, ReadClock, Consume
    <3>3. ASSUME NEW r \in Requests, LogFailure(r) \/ Authorize(r) \/ FailsClosed(r)
          PROVE  UNCHANGED verifier
      BY <3>3 DEF LogFailure, Authorize, FailsClosed, AuthenticateRaises, AppendFails
    <3>4. CASE Restart \/ Tick \/ UNCHANGED gateVars
      BY <3>4 DEF Restart, Tick, gateVars
    <3> QED
      BY <3>1, <3>2, <3>3, <3>4 DEF GateNext, Serve, FailsClosed
  <2> QED
    BY <1>2, <1>3, <1>4, <1>6, <2>1
<1> QED
  BY <1>5, <1>6, EveryStepLogs DEF LogStep

\* The chain and the verifier's knowledge of it are inductive with the types.
LEMMA ChainInvariant == GateSpec => []ChainInv
<1>1. GateBase /\ GateBase' /\ ChainInv /\ [GateNext]_gateVars => ChainInv'
  BY ChainIntactStep, VerifierStep DEF ChainInv
<1> QED
  BY <1>1, ChainInit, GateShape, PTL DEF GateSpec

\* SecurityAuditRepository.append keeps the chain and its stored head consistent at
\* every commit, for any number of requests, failures and restarts.
THEOREM GateChainIntact == GateSpec => []SecurityChainIntact
<1>1. ChainInv => SecurityChainIntact
  BY DEF ChainInv
<1> QED
  BY <1>1, ChainInvariant, PTL

\* SecurityAuditRepository.verify raises a false alarm exactly when an event was
\* committed between its two SELECTs.
THEOREM GateAlarmHasACause == GateSpec => []VerifyAlarmHasACause
<1>1. ChainInv => VerifyAlarmHasACause
  BY DEF ChainInv, VerifierKnows
<1> QED
  BY <1>1, ChainInvariant, PTL

-----------------------------------------------------------------------------
(* The trail of each request.                                              *)

\* The trail of a request that has no answer yet.
TrailSoFar(request) == IF request.role = NoRole THEN {} ELSE {"AUTHENTICATION_SUCCEEDED"}

TrailOf(q) ==
  /\ requests[q].pc # "done" => Trail(q) = TrailSoFar(requests[q])
  /\ requests[q].answer \notin {"none", "INTERNAL_ERROR", "DEAD"} =>
       Trail(q) = ExpectedTrail(requests[q])

\* The events that say a mutation was authorized name a role that has it.
AuthorizedRoles ==
  \A n \in 1..Len(events), p \in Audited :
    events[n].payload.event_type = Verdict(p, TRUE) =>
      events[n].payload.role \in DocumentedRoles(p)

TrailInv == (\A q \in Requests : TrailOf(q)) /\ AuthorizedRoles

\* An append adds its type to the trail of its request, and to no other.
LEMMA TrailAppend ==
  ASSUME GateTypeOK, NEW r, NEW type, NEW role, append(type, r, role)
  PROVE  /\ Trail(r)' = Trail(r) \cup {type}
         /\ \A q \in Requests \ {r} : Trail(q)' = Trail(q)
<1>1. PICK event :
           /\ events' = Append(events, event)
           /\ event.payload.event_type = type
           /\ event.payload.request_id = r
  BY AppendedEvent
<1>2. events \in Seq(EventRows) /\ Len(events) \in Nat
  BY DEF GateTypeOK
<1>3. /\ 1..Len(events') = 1..(Len(events) + 1)
      /\ \A n \in 1..Len(events) : events'[n] = events[n] /\ n # Len(events) + 1
      /\ events'[Len(events) + 1] = event
      /\ 1..(Len(events) + 1) = 1..Len(events) \cup {Len(events) + 1}
  BY <1>1, <1>2
<1>4. Trail(r)' = Trail(r) \cup {type}
  BY <1>1, <1>3 DEF Trail
<1>5. ASSUME NEW q \in Requests \ {r}
      PROVE  Trail(q)' = Trail(q)
  BY <1>1, <1>3 DEF Trail
<1> QED
  BY <1>4, <1>5

\* The documented roles of a permission are the ones the role matrix gives it to.
LEMMA RoleMatrix ==
  ASSUME NEW role \in Roles, NEW permission, permission \in ROLE_PERMISSIONS(role)
  PROVE  role \in DocumentedRoles(permission)
BY DEF Roles, ROLE_PERMISSIONS, DocumentedRoles, AllPermissions

\* The event types of the verdicts are all different, and none is an authentication.
LEMMA VerdictsDiffer ==
  ASSUME NEW p \in Audited, NEW q \in Audited
  PROVE  /\ Verdict(p, TRUE) = Verdict(q, TRUE) => p = q
         /\ Verdict(p, TRUE) # Verdict(q, FALSE)
         /\ Verdict(p, TRUE) \notin {"AUTHENTICATION_SUCCEEDED", "AUTHENTICATION_FAILED"}
BY DEF Audited, Verdict

\* An append keeps AuthorizedRoles when its own event does.
LEMMA AuthorizedAppend ==
  ASSUME GateTypeOK, AuthorizedRoles, NEW r, NEW type, NEW role, append(type, r, role),
         \A p \in Audited : type = Verdict(p, TRUE) => role \in DocumentedRoles(p)
  PROVE  AuthorizedRoles'
<1>1. PICK event :
           /\ events' = Append(events, event)
           /\ event.payload.event_type = type
           /\ event.payload.role = role
  BY AppendedEvent
<1>2. events \in Seq(EventRows) /\ Len(events) \in Nat
  BY DEF GateTypeOK
<1>3. /\ 1..Len(events') = 1..Len(events) \cup {Len(events) + 1}
      /\ \A n \in 1..Len(events) : events'[n] = events[n]
      /\ events'[Len(events) + 1] = event
  BY <1>1, <1>2
<1> QED
  BY <1>1, <1>3 DEF AuthorizedRoles

\* A step of one request keeps every trail when it keeps that of the request.
LEMMA TrailByRequest ==
  ASSUME TrailInv, NEW r \in Requests, Only(r),
         \A q \in Requests \ {r} : Trail(q)' = Trail(q),
         TrailOf(r)', AuthorizedRoles'
  PROVE  TrailInv'
<1>1. ASSUME NEW q \in Requests \ {r}
      PROVE  TrailOf(q)'
  <2>1. requests'[q] = requests[q] /\ TrailOf(q) /\ Trail(q)' = Trail(q)
    BY DEF Only, TrailInv
  <2> QED
    BY <2>1 DEF TrailOf
<1> QED
  BY <1>1 DEF TrailInv

\* What a log that is left alone means.
LEMMA TrailUnchanged ==
  ASSUME events' = events
  PROVE  /\ \A q \in Requests : Trail(q)' = Trail(q)
         /\ AuthorizedRoles => AuthorizedRoles'
BY DEF Trail, AuthorizedRoles

\* A successful authentication leaves its event on the trail.
LEMMA AuthenticateTrail ==
  ASSUME GateBase, TrailInv, NEW r \in Requests, NEW role \in Credentials,
         NEW permission \in Permissions, Authenticate(r, role, permission)
  PROVE  TrailInv'
<1>1. GateTypeOK /\ ShapeOf(requests[r], clock, restarts) /\ requests[r].pc = "new"
      /\ append("AUTHENTICATION_SUCCEEDED", r, role)
      /\ TrailOf(r) /\ AuthorizedRoles
  BY DEF GateBase, Shape, Authenticate, TrailInv
<1>2. role # NoRole
  BY CredentialsAssumption DEF Roles, NoRole
<1>3. Trail(r) = {}
  BY <1>1 DEF TrailOf, ShapeOf, TrailSoFar
<1>4. Trail(r)' = {"AUTHENTICATION_SUCCEEDED"} /\ \A q \in Requests \ {r} : Trail(q)' = Trail(q)
  BY <1>1, <1>3, TrailAppend
<1>5. AuthorizedRoles'
  BY <1>1, VerdictsDiffer, AuthorizedAppend
<1>6. Only(r) /\ requests'[r].role = role /\ requests'[r].answer = "none"
  BY <1>1, AuthenticateFields DEF ShapeOf
<1>7. TrailOf(r)'
  BY <1>2, <1>4, <1>6 DEF TrailOf, TrailSoFar
<1> QED
  BY <1>4, <1>5, <1>6, <1>7, TrailByRequest

\* A step that leaves the log alone and gives no answer that needs a new trail.
LEMMA QuietTrail ==
  ASSUME GateBase, TrailInv, NEW r \in Requests, Only(r), events' = events,
         requests[r].pc # "done",
         requests'[r].role = requests[r].role,
         requests'[r].answer \in {"none", "INTERNAL_ERROR", "DEAD", "RATE_LIMITED"}
  PROVE  TrailInv'
<1>1. TrailOf(r) /\ AuthorizedRoles
  BY DEF TrailInv
<1>2. (\A q \in Requests : Trail(q)' = Trail(q)) /\ AuthorizedRoles'
  BY <1>1, TrailUnchanged
<1>3. Trail(r)' = TrailSoFar(requests'[r])
  BY <1>1, <1>2 DEF TrailOf, TrailSoFar
<1>4. TrailOf(r)'
  BY <1>3 DEF TrailOf, TrailSoFar, ExpectedTrail
<1> QED
  BY <1>2, <1>4, TrailByRequest

\* A request that fails closed needs no trail.
LEMMA NotLoggedTrail ==
  ASSUME GateBase, TrailInv, NEW r \in Requests, NEW role \in Credentials,
         NEW permission \in Permissions, AuthenticationNotLogged(r, role, permission)
  PROVE  TrailInv'
<1>1. AuthorizedRoles /\ events' = events /\ GateTypeOK
  BY DEF TrailInv, AuthenticationNotLogged, GateBase
<1>2. (\A q \in Requests : Trail(q)' = Trail(q)) /\ AuthorizedRoles'
  BY <1>1, TrailUnchanged
<1>3. Only(r) /\ requests'[r].pc = "done" /\ requests'[r].answer = "INTERNAL_ERROR"
  BY <1>1, NotLoggedFields
<1>4. TrailOf(r)'
  BY <1>3 DEF TrailOf
<1> QED
  BY <1>2, <1>3, <1>4, TrailByRequest

\* The steps that write nothing keep the trails.
LEMMA QuietStepsTrail ==
  ASSUME GateBase, TrailInv, NEW r \in Requests,
         FailToAuthenticate(r) \/ ReadClock(r) \/ Consume(r) \/ FailsClosed(r)
  PROVE  TrailInv'
<1>1. GateTypeOK /\ ShapeOf(requests[r], clock, restarts)
  BY DEF GateBase, Shape
<1>2. CASE FailToAuthenticate(r)
  BY <1>1, <1>2, FailFields, QuietTrail DEF FailToAuthenticate, ShapeOf
<1>3. CASE ReadClock(r)
  BY <1>1, <1>3, ClockFields, QuietTrail DEF ReadClock, ShapeOf, SameIdentity
<1>4. CASE Consume(r)
  <2>1. requests[r].pc = "consume" /\ events' = events /\ requests[r].now \in Nat
    BY <1>1, <1>4 DEF Consume, ShapeOf
  <2>2. Only(r) /\ SameIdentity(r) /\ requests'[r].answer \in {"none", "RATE_LIMITED"}
    BY <1>1, <1>4, <2>1, ConsumeFields
  <2> QED
    BY <2>1, <2>2, QuietTrail DEF SameIdentity
<1>5. CASE FailsClosed(r)
  <2>1. Answer(r, "INTERNAL_ERROR") /\ "INTERNAL_ERROR" \in Answers
        /\ requests[r].pc # "done" /\ events' = events
    BY <1>5 DEF FailsClosed, AuthenticateRaises, AppendFails, Answers
  <2> QED
    BY <1>1, <2>1, AnswerFields, QuietTrail DEF SameIdentity
<1> QED
  BY <1>2, <1>3, <1>4, <1>5

\* A failed authentication is answered after its event is on the trail.
LEMMA LogFailureTrail ==
  ASSUME GateBase, TrailInv, NEW r \in Requests, LogFailure(r)
  PROVE  TrailInv'
<1>1. GateTypeOK /\ ShapeOf(requests[r], clock, restarts) /\ requests[r].pc = "log_failure"
      /\ append("AUTHENTICATION_FAILED", r, NoRole) /\ Answer(r, "AUTHENTICATION_FAILED")
      /\ TrailOf(r) /\ AuthorizedRoles
  BY DEF GateBase, Shape, LogFailure, TrailInv
<1>2. Trail(r) = {}
  BY <1>1 DEF TrailOf, ShapeOf, TrailSoFar
<1>3. Trail(r)' = {"AUTHENTICATION_FAILED"} /\ \A q \in Requests \ {r} : Trail(q)' = Trail(q)
  BY <1>1, <1>2, TrailAppend
<1>4. AuthorizedRoles'
  BY <1>1, VerdictsDiffer, AuthorizedAppend
<1>5. "AUTHENTICATION_FAILED" \in Answers
  BY DEF Answers
<1>6. Only(r) /\ requests'[r].pc = "done" /\ requests'[r].answer = "AUTHENTICATION_FAILED"
  BY <1>1, <1>5, AnswerFields
<1>7. TrailOf(r)'
  BY <1>3, <1>6 DEF TrailOf, ExpectedTrail
<1> QED
  BY <1>3, <1>4, <1>6, <1>7, TrailByRequest

\* A verdict is answered after its event, if it has one, is on the trail.
LEMMA AuthorizeTrail ==
  ASSUME GateBase, TrailInv, NEW r \in Requests, Authorize(r)
  PROVE  TrailInv'
<1> DEFINE permission == requests[r].permission
           role == requests[r].role
           allowed == permission \in ROLE_PERMISSIONS(role)
           answer == IF allowed THEN "HANDLED" ELSE "AUTHORIZATION_DENIED"
<1>1. GateTypeOK /\ ShapeOf(requests[r], clock, restarts) /\ requests[r].pc = "authorize"
      /\ TrailOf(r) /\ AuthorizedRoles
  BY DEF GateBase, Shape, Authorize, TrailInv
<1>2. role \in Roles /\ role # NoRole
  BY <1>1 DEF ShapeOf, Roles, NoRole
<1>3. Trail(r) = {"AUTHENTICATION_SUCCEEDED"}
  BY <1>1, <1>2 DEF TrailOf, TrailSoFar
<1>4. Answer(r, answer) /\ answer \in Answers
  BY DEF Authorize, Answers
<1>5. Only(r) /\ requests'[r].pc = "done" /\ requests'[r].answer = answer
      /\ requests'[r].permission = permission
  BY <1>1, <1>4, AnswerFields DEF SameIdentity
<1>6. CASE permission \in Audited
  <2>1. append(Verdict(permission, allowed), r, role)
    BY <1>6 DEF Authorize
  <2>2. Trail(r)' = {"AUTHENTICATION_SUCCEEDED"} \cup {Verdict(permission, allowed)}
        /\ \A q \in Requests \ {r} : Trail(q)' = Trail(q)
    BY <1>1, <1>3, <2>1, TrailAppend
  <2>3. ASSUME NEW p \in Audited, Verdict(permission, allowed) = Verdict(p, TRUE)
        PROVE  role \in DocumentedRoles(p)
    <3>1. allowed /\ permission = p
      <4>1. CASE allowed
        <5>1. Verdict(permission, TRUE) = Verdict(p, TRUE)
          BY <2>3, <4>1
        <5> QED
          BY <1>6, <4>1, <5>1, VerdictsDiffer
      <4>2. CASE ~allowed
        <5>a. allowed \in BOOLEAN
          OBVIOUS
        <5> HIDE DEF allowed
        <5>1. allowed = FALSE
          BY <4>2, <5>a
        <5>2. Verdict(permission, FALSE) = Verdict(p, TRUE)
          BY <2>3, <5>1, Zenon
        <5> QED
          BY <1>6, <5>2, VerdictsDiffer
      <4> QED
        BY <4>1, <4>2
    <3> QED
      BY <1>2, <3>1, RoleMatrix
  <2>4. AuthorizedRoles'
    BY <1>1, <2>1, <2>3, AuthorizedAppend
  <2>5. TrailOf(r)'
    <3>1. CASE allowed
      BY <1>5, <1>6, <2>2, <3>1 DEF TrailOf, ExpectedTrail
    <3>2. CASE ~allowed
      <4>a. allowed \in BOOLEAN
        OBVIOUS
      <4> HIDE DEF allowed
      <4>1. allowed = FALSE
        BY <3>2, <4>a
      <4>2. Verdict(permission, allowed) = Verdict(permission, FALSE)
        BY <4>1, Zenon
      <4> QED
        BY <1>5, <1>6, <2>2, <3>2, <4>2 DEF TrailOf, ExpectedTrail, allowed
    <3> QED
      BY <3>1, <3>2
  <2> QED
    BY <1>5, <2>2, <2>4, <2>5, TrailByRequest
<1>7. CASE permission \notin Audited
  <2>1. events' = events
    BY <1>7 DEF Authorize
  <2>2. (\A q \in Requests : Trail(q)' = Trail(q)) /\ AuthorizedRoles'
    BY <1>1, <2>1, TrailUnchanged
  <2>3. TrailOf(r)'
    <3>1. CASE allowed
      BY <1>3, <1>5, <1>7, <2>2, <3>1 DEF TrailOf, ExpectedTrail
    <3>2. CASE ~allowed
      BY <1>3, <1>5, <1>7, <2>2, <3>2 DEF TrailOf, ExpectedTrail
    <3> QED
      BY <3>1, <3>2
  <2> QED
    BY <1>5, <2>2, <2>3, TrailByRequest
<1> QED
  BY <1>6, <1>7

\* Verifier, restart and clock keep the trails.
LEMMA SurroundingsTrail ==
  ASSUME GateBase, TrailInv, Surroundings
  PROVE  TrailInv'
<1>1. events' = events /\ AuthorizedRoles /\ GateTypeOK
  BY DEF Surroundings, VerifyReadEvents, VerifyReadState, Restart, Tick, TrailInv, GateBase
<1>2. (\A q \in Requests : Trail(q)' = Trail(q)) /\ AuthorizedRoles'
  BY <1>1, TrailUnchanged
<1>3. ASSUME NEW q \in Requests
      PROVE  TrailOf(q)'
  <2>1. TrailOf(q)
    BY DEF TrailInv
  <2>2. \/ requests'[q] = requests[q]
        \/ requests'[q].pc = "done" /\ requests'[q].answer = "DEAD"
    <3>1. CASE Restart
      BY <1>1, <3>1, RestartFields
    <3>2. CASE ~Restart
      BY <3>2 DEF Surroundings, VerifyReadEvents, VerifyReadState, Tick
    <3> QED
      BY <3>1, <3>2
  <2> QED
    BY <1>2, <2>1, <2>2 DEF TrailOf
<1> QED
  BY <1>2, <1>3 DEF TrailInv

\* The trails are inductive with types and shapes.
LEMMA TrailInvariant == GateSpec => []TrailInv
<1>1. GateInit => TrailInv
  BY DEF GateInit, TrailInv, TrailOf, Trail, TrailSoFar, Fresh, AuthorizedRoles
<1>2. GateBase /\ TrailInv /\ [GateNext]_gateVars => TrailInv'
  <2> SUFFICES ASSUME GateBase, TrailInv, [GateNext]_gateVars
               PROVE  TrailInv'
    OBVIOUS
  <2>1. CASE UNCHANGED gateVars
    BY <2>1 DEF gateVars, TrailInv, TrailOf, Trail, AuthorizedRoles
  <2>2. CASE \E r \in Requests, role \in Credentials, permission \in Permissions :
             \/ Authenticate(r, role, permission)
             \/ AuthenticationNotLogged(r, role, permission)
    BY <2>2, AuthenticateTrail, NotLoggedTrail
  <2>3. CASE \E r \in Requests : FailToAuthenticate(r) \/ AuthenticateRaises(r) \/ Serve(r)
    BY <2>3, QuietStepsTrail, LogFailureTrail, AuthorizeTrail DEF Serve, FailsClosed
  <2>4. CASE Surroundings
    BY <2>4, SurroundingsTrail
  <2> QED
    BY <2>1, <2>2, <2>3, <2>4 DEF GateNext, Surroundings
<1> QED
  BY <1>1, <1>2, GateShape, PTL DEF GateSpec

\* Every answer of require_permission but a 500 stands on exactly the durable events that
\* tell of it, for any requests, any failures of the storage and any restarts.
THEOREM GateAnswersAreAudited == GateSpec => []AnswersAreAudited
<1>1. TrailInv => AnswersAreAudited
  BY DEF TrailInv, TrailOf, AnswersAreAudited
<1> QED
  BY <1>1, TrailInvariant, PTL

\* No handler is entered, and no event says that one may be, for a role that the
\* documents do not give the permission to.
THEOREM GateNoCrossover == GateSpec => []NoPrivilegeCrossover
<1>1. GateBase /\ TrailInv => NoPrivilegeCrossover
  <2> SUFFICES ASSUME GateBase, TrailInv
               PROVE  NoPrivilegeCrossover
    OBVIOUS
  <2>1. ASSUME NEW r \in Requests, requests[r].answer = "HANDLED"
        PROVE  requests[r].role \in DocumentedRoles(requests[r].permission)
    BY <2>1, RoleMatrix DEF GateBase, Shape, ShapeOf
  <2> QED
    BY <2>1 DEF TrailInv, AuthorizedRoles, NoPrivilegeCrossover
<1> QED
  BY <1>1, GateShape, TrailInvariant, PTL

-----------------------------------------------------------------------------
(* The limiter.                                                            *)

\* The requests that process i granted in bucket b in the window opened at s.
GrantedIn(b, i, s) ==
  {q \in Requests : /\ requests[q].granted
                    /\ Bucket(requests[q]) = b
                    /\ requests[q].incarnation = i
                    /\ requests[q].window = s}

\* What the times of a granted request are, at time t.
TimesOf(q, t) ==
  q.granted => /\ q.now \in Nat /\ q.locked \in Nat /\ q.window \in Nat
               /\ q.window <= q.locked /\ q.locked <= t
               /\ q.now < q.window + Window

\* n requests were counted in the window opened at s: the first Limit[b] were granted.
Counted(b, s, n) ==
  /\ n <= Limit[b] => Cardinality(GrantedIn(b, restarts, s)) = n
  /\ n >= Limit[b] => Cardinality(GrantedIn(b, restarts, s)) = Limit[b]

\* No request of this process and bucket was granted in a window that overlaps, but
\* differs from, the one opened at s; none was in a later one.
Separate(b, s) ==
  \A q \in Requests :
    requests[q].granted /\ Bucket(requests[q]) = b /\ requests[q].incarnation = restarts =>
      requests[q].window = s \/ requests[q].window + Window <= s

WindowsApart ==
  \A p, q \in Requests :
    /\ requests[p].granted /\ requests[q].granted
    /\ Bucket(requests[p]) = Bucket(requests[q])
    /\ requests[p].incarnation = requests[q].incarnation
    => \/ requests[p].window = requests[q].window
       \/ requests[p].window + Window <= requests[q].window
       \/ requests[q].window + Window <= requests[p].window

WindowsBounded ==
  \A b \in Buckets, i \in Nat, s \in Nat : Cardinality(GrantedIn(b, i, s)) <= Limit[b]

LimiterInv ==
  /\ \A b \in Buckets :
       /\ limiter[b].started <= clock
       /\ Separate(b, limiter[b].started)
       /\ Counted(b, limiter[b].started, limiter[b].count)
  /\ \A q \in Requests : TimesOf(requests[q], clock)
  /\ WindowsApart
  /\ WindowsBounded
  /\ RefusalIsJustified

\* What holds of the limiter's constants and of a bucket of a typed state.
LEMMA LimiterTypes ==
  ASSUME GateTypeOK, NEW b \in Buckets
  PROVE  /\ limiter[b].started \in Nat /\ limiter[b].count \in Nat
         /\ Limit[b] \in Nat /\ Limit[b] >= 1 /\ Window \in Nat /\ Window >= 1
         /\ clock \in Nat /\ restarts \in Nat
BY LimitAssumption, WindowAssumption DEF GateTypeOK

\* The requests granted in a window are finitely many.
LEMMA GrantedFinite ==
  ASSUME NEW b, NEW i, NEW s
  PROVE  IsFiniteSet(GrantedIn(b, i, s)) /\ Cardinality(GrantedIn(b, i, s)) \in Nat
<1>1. GrantedIn(b, i, s) \subseteq Requests
  BY DEF GrantedIn
<1> QED
  BY <1>1, RequestsAssumption, FS_Subset, FS_CardinalityType

\* The limiter grants nothing and forgets nothing, and nobody is refused.
Keeps ==
  \A q \in Requests :
    /\ requests'[q].granted = requests[q].granted
    /\ requests'[q].granted \/ requests'[q].answer = "RATE_LIMITED" =>
         SameIdentity(q) /\ SameLimits(q) /\ requests'[q].now = requests[q].now
    /\ requests'[q].answer = "RATE_LIMITED" => requests[q].answer = "RATE_LIMITED"

\* They are the same after a step that grants nothing.
LEMMA GrantedKept ==
  ASSUME Keeps, NEW b, NEW i, NEW s
  PROVE  GrantedIn(b, i, s)' = GrantedIn(b, i, s)
BY DEF GrantedIn, Keeps, SameIdentity, SameLimits, Bucket

\* What the refusals so far rest on is kept when the granted requests are.
LEMMA RefusalsKept ==
  ASSUME GateTypeOK, RefusalIsJustified, NEW r \in Requests,
         requests[r].answer = "RATE_LIMITED",
         SameIdentity(r), SameLimits(r), requests'[r].now = requests[r].now,
         \A q \in Requests : requests[q].granted =>
           requests'[q].granted /\ SameIdentity(q) /\ SameLimits(q)
  PROVE  Cardinality({q \in Requests :
        /\ requests'[q].granted
        /\ Bucket(requests'[q]) = Bucket(requests'[r])
        /\ requests'[q].incarnation = requests'[r].incarnation
        /\ requests'[q].locked > requests'[r].now - Window
        /\ requests'[q].locked <= requests'[r].locked}) >= Limit[Bucket(requests'[r])]
<1> DEFINE Before == {q \in Requests :
        /\ requests[q].granted
        /\ Bucket(requests[q]) = Bucket(requests[r])
        /\ requests[q].incarnation = requests[r].incarnation
        /\ requests[q].locked > requests[r].now - Window
        /\ requests[q].locked <= requests[r].locked}
           After == {q \in Requests :
        /\ requests'[q].granted
        /\ Bucket(requests'[q]) = Bucket(requests'[r])
        /\ requests'[q].incarnation = requests'[r].incarnation
        /\ requests'[q].locked > requests'[r].now - Window
        /\ requests'[q].locked <= requests'[r].locked}
<1>1. Cardinality(Before) >= Limit[Bucket(requests[r])]
  BY DEF RefusalIsJustified
<1>2. Bucket(requests'[r]) = Bucket(requests[r]) /\ Bucket(requests[r]) \in Buckets
  BY DEF Bucket, SameIdentity, Buckets
<1>3. Before \subseteq After
  BY <1>2 DEF SameIdentity, SameLimits, Bucket
<1>4. IsFiniteSet(After) /\ After \subseteq Requests
  BY RequestsAssumption, FS_Subset
<1> HIDE DEF Before, After
<1>5. IsFiniteSet(Before) /\ Cardinality(Before) <= Cardinality(After)
      /\ Cardinality(Before) \in Nat /\ Cardinality(After) \in Nat
  BY <1>3, <1>4, FS_Subset, FS_CardinalityType
<1>6. Limit[Bucket(requests[r])] \in Nat
  BY <1>2, LimitAssumption
<1>7. Cardinality(After) >= Limit[Bucket(requests'[r])]
  BY <1>1, <1>2, <1>5, <1>6
<1> QED
  BY <1>7 DEF After

\* The parts of the limiter's invariant that speak of requests alone, when nothing
\* is granted or refused.
LEMMA KeepsRequests ==
  ASSUME GateBase, LimiterInv, Keeps, clock' \in Nat, clock <= clock'
  PROVE  /\ (\A q \in Requests : TimesOf(requests[q], clock))'
         /\ WindowsApart' /\ WindowsBounded' /\ RefusalIsJustified'
<1>1. ASSUME NEW q \in Requests
      PROVE  TimesOf(requests'[q], clock')
  <2>1. TimesOf(requests[q], clock) /\ clock \in Nat
    BY DEF LimiterInv, GateBase, GateTypeOK
  <2> QED
    BY <2>1 DEF TimesOf, Keeps, SameLimits
<1>2. WindowsApart'
  BY DEF LimiterInv, WindowsApart, Keeps, SameLimits, SameIdentity, Bucket
<1>3. WindowsBounded'
  BY GrantedKept DEF LimiterInv, WindowsBounded
<1>4. RefusalIsJustified'
  <2> SUFFICES ASSUME NEW r \in Requests, requests'[r].answer = "RATE_LIMITED"
               PROVE  Cardinality({q \in Requests :
        /\ requests'[q].granted
        /\ Bucket(requests'[q]) = Bucket(requests'[r])
        /\ requests'[q].incarnation = requests'[r].incarnation
        /\ requests'[q].locked > requests'[r].now - Window
        /\ requests'[q].locked <= requests'[r].locked}) >= Limit[Bucket(requests'[r])]
    BY DEF RefusalIsJustified
  <2> QED
    BY RefusalsKept DEF Keeps, LimiterInv, GateBase
<1> QED
  BY <1>1, <1>2, <1>3, <1>4

\* A step that grants nothing and leaves the windows alone keeps the invariant.
LEMMA KeepsLimiter ==
  ASSUME GateBase, LimiterInv, Keeps, UNCHANGED <<limiter, restarts>>,
         clock' \in Nat, clock <= clock'
  PROVE  LimiterInv'
<1>1. ASSUME NEW b \in Buckets
      PROVE  /\ limiter'[b].started <= clock'
             /\ Separate(b, limiter[b].started)'
             /\ Counted(b, limiter[b].started, limiter[b].count)'
  <2>1. /\ limiter[b].started <= clock /\ Separate(b, limiter[b].started)
        /\ Counted(b, limiter[b].started, limiter[b].count)
    BY DEF LimiterInv
  <2>2. limiter[b].started \in Nat /\ clock \in Nat
    BY LimiterTypes DEF GateBase
  <2>3. limiter'[b].started <= clock'
    BY <2>1, <2>2
  <2>4. Separate(b, limiter[b].started)'
    BY <2>1 DEF Separate, Keeps, SameIdentity, SameLimits, Bucket
  <2>5. GrantedIn(b, restarts, limiter[b].started)' = GrantedIn(b, restarts, limiter[b].started)
    BY GrantedKept DEF GrantedIn
  <2>6. Counted(b, limiter[b].started, limiter[b].count)'
    BY <2>1, <2>5 DEF Counted
  <2> QED
    BY <2>3, <2>4, <2>6
<1> QED
  BY <1>1, KeepsRequests DEF LimiterInv

\* Only consume grants or refuses.
LEMMA OthersKeep ==
  ASSUME GateBase, NEW r \in Requests,
         \/ \E role \in Credentials, permission \in Permissions :
              \/ Authenticate(r, role, permission)
              \/ AuthenticationNotLogged(r, role, permission)
         \/ FailToAuthenticate(r) \/ ReadClock(r) \/ LogFailure(r) \/ Authorize(r)
         \/ FailsClosed(r)
  PROVE  Keeps
<1>1. GateTypeOK /\ ShapeOf(requests[r], clock, restarts)
  BY DEF GateBase, Shape
<1>2. ASSUME Only(r), requests'[r].granted = requests[r].granted,
             requests[r].granted => SameIdentity(r) /\ SameLimits(r)
                                    /\ requests'[r].now = requests[r].now,
             requests'[r].answer # "RATE_LIMITED"
      PROVE  Keeps
  BY <1>2 DEF Keeps, Only, SameIdentity, SameLimits
<1>3. ASSUME NEW role \in Credentials, NEW permission \in Permissions,
             Authenticate(r, role, permission)
      PROVE  Keeps
  BY <1>1, <1>2, <1>3, AuthenticateFields DEF Authenticate, ShapeOf, SameLimits
<1>4. ASSUME NEW role \in Credentials, NEW permission \in Permissions,
             AuthenticationNotLogged(r, role, permission)
      PROVE  Keeps
  BY <1>1, <1>2, <1>4, NotLoggedFields DEF AuthenticationNotLogged, ShapeOf, SameLimits
<1>5. CASE FailToAuthenticate(r)
  BY <1>1, <1>2, <1>5, FailFields DEF FailToAuthenticate, ShapeOf, SameLimits
<1>6. CASE ReadClock(r)
  BY <1>1, <1>2, <1>6, ClockFields DEF ReadClock, ShapeOf, SameLimits
<1>7. ASSUME NEW answer \in Answers \ {"RATE_LIMITED"}, Answer(r, answer)
      PROVE  Keeps
  BY <1>1, <1>2, <1>7, AnswerFields DEF SameLimits
<1>8. CASE LogFailure(r)
  BY <1>7, <1>8 DEF LogFailure, Answers
<1>9. CASE Authorize(r)
  BY <1>7, <1>9 DEF Authorize, Answers
<1>10. CASE FailsClosed(r)
  BY <1>7, <1>10 DEF FailsClosed, AuthenticateRaises, AppendFails, Answers
<1> QED
  BY <1>3, <1>4, <1>5, <1>6, <1>8, <1>9, <1>10

\* A restart forgets the windows, and has granted nothing in the new ones.
LEMMA RestartLimiter ==
  ASSUME GateBase, LimiterInv, Restart
  PROVE  LimiterInv'
<1>1. /\ GateTypeOK /\ Shape /\ clock \in Nat /\ restarts \in Nat
      /\ clock' = clock /\ restarts' = restarts + 1
      /\ limiter' = [b \in Buckets |-> [started |-> clock, count |-> 0]]
  BY DEF GateBase, GateTypeOK, Restart, NewWindow
<1>2. Keeps
  BY <1>1, RestartFields DEF Keeps, SameIdentity, SameLimits
<1>3. ASSUME NEW q \in Requests, requests'[q].granted
      PROVE  requests'[q].incarnation # restarts + 1
  <2>1. requests[q].granted /\ requests'[q].incarnation = requests[q].incarnation
    BY <1>2, <1>3 DEF Keeps, SameIdentity
  <2>2. requests[q].incarnation <= restarts /\ requests[q].incarnation \in Nat
    BY <1>1 DEF Shape, ShapeOf, GateTypeOK, RequestStates
  <2> QED
    BY <1>1, <2>1, <2>2
<1>4. ASSUME NEW b \in Buckets
      PROVE  /\ limiter'[b].started <= clock'
             /\ Separate(b, limiter[b].started)'
             /\ Counted(b, limiter[b].started, limiter[b].count)'
  <2>1. limiter'[b].started = clock /\ limiter'[b].count = 0
    BY <1>1
  <2>2. Separate(b, limiter[b].started)'
    BY <1>1, <1>3 DEF Separate
  <2>3. GrantedIn(b, restarts, limiter[b].started)' = {}
    BY <1>1, <1>3 DEF GrantedIn
  <2>4. Limit[b] \in Nat /\ Limit[b] >= 1
    BY <1>1, LimiterTypes
  <2>5. Counted(b, limiter[b].started, limiter[b].count)'
    BY <2>1, <2>3, <2>4, FS_EmptySet DEF Counted
  <2> QED
    BY <1>1, <2>1, <2>2, <2>5
<1> QED
  BY <1>1, <1>2, <1>4, KeepsRequests DEF LimiterInv

\* The window a call falls into satisfies what the limiter's windows satisfy: either
\* it is the open one, or it is a new one and nothing was granted in it.
LEMMA WindowFacts ==
  ASSUME GateBase, LimiterInv, NEW b \in Buckets, NEW now \in Nat, now <= clock,
         NEW window, window = WindowOf(limiter[b], now)
  PROVE  /\ window.started \in Nat /\ window.count \in Nat
         /\ window.started <= clock /\ now < window.started + Window
         /\ Separate(b, window.started)
         /\ Counted(b, window.started, window.count)
<1>1. /\ limiter[b].started \in Nat /\ limiter[b].count \in Nat
      /\ Limit[b] \in Nat /\ Limit[b] >= 1 /\ Window \in Nat /\ Window >= 1
      /\ clock \in Nat /\ restarts \in Nat
  BY LimiterTypes DEF GateBase
<1>2. /\ limiter[b].started <= clock /\ Separate(b, limiter[b].started)
      /\ Counted(b, limiter[b].started, limiter[b].count)
      /\ \A q \in Requests : TimesOf(requests[q], clock)
  BY DEF LimiterInv
<1>3. CASE now - limiter[b].started >= Window
  <2>1. window.started = now /\ window.count = 0
    BY <1>3 DEF WindowOf, NewWindow
  <2>2. ASSUME NEW q \in Requests, requests[q].granted, Bucket(requests[q]) = b,
               requests[q].incarnation = restarts
        PROVE  requests[q].window + Window <= now /\ requests[q].window # now
    <3>1. requests[q].window \in Nat
      BY <1>2, <2>2 DEF TimesOf
    <3>2. requests[q].window = limiter[b].started
          \/ requests[q].window + Window <= limiter[b].started
      BY <1>2, <2>2 DEF Separate
    <3> QED
      BY <1>1, <1>3, <3>1, <3>2
  <2>3. Separate(b, now)
    BY <2>2 DEF Separate
  <2>4. GrantedIn(b, restarts, now) = {}
    BY <2>2 DEF GrantedIn
  <2>5. Counted(b, now, 0)
    BY <1>1, <2>4, FS_EmptySet DEF Counted
  <2> QED
    BY <1>1, <2>1, <2>3, <2>5
<1>4. CASE ~(now - limiter[b].started >= Window)
  <2>1. window = limiter[b]
    BY <1>4 DEF WindowOf
  <2> QED
    BY <1>1, <1>2, <1>4, <2>1
<1> QED
  BY <1>3, <1>4

\* What is known of a call of consume once it holds the lock: w is the window it
\* falls into and ok the verdict.
ConsumeFacts(r, b, w, ok) ==
  /\ b \in Buckets /\ b = Bucket(requests[r]) /\ b = Bucket(requests'[r])
  /\ requests[r].now \in Nat /\ requests[r].now <= clock /\ ~requests[r].granted
  /\ requests[r].incarnation = restarts /\ requests[r].answer = "none"
  /\ Only(r) /\ SameIdentity(r)
  /\ requests'[r].now = requests[r].now /\ requests'[r].locked = clock
  /\ requests'[r].window = w.started /\ requests'[r].granted = ok
  /\ requests'[r].answer = IF ok THEN "none" ELSE "RATE_LIMITED"
  /\ w.started \in Nat /\ w.count \in Nat
  /\ w.started <= clock /\ requests[r].now < w.started + Window
  /\ Separate(b, w.started) /\ Counted(b, w.started, w.count)
  /\ ok \in BOOLEAN /\ (ok <=> w.count + 1 <= Limit[b])
  /\ limiter'[b].started = w.started /\ limiter'[b].count = w.count + 1
  /\ \A c \in Buckets \ {b} : limiter'[c] = limiter[c]
  /\ UNCHANGED <<clock, restarts>>

\* Every call of consume is as described.
LEMMA ConsumeKnows ==
  ASSUME GateBase, LimiterInv, NEW r \in Requests, Consume(r)
  PROVE  \E b, w, ok : ConsumeFacts(r, b, w, ok)
<1> DEFINE b == Bucket(requests[r])
           w == WindowOf(limiter[b], requests[r].now)
           ok == Grants(b, w.count + 1)
<1>1. GateTypeOK /\ ShapeOf(requests[r], clock, restarts) /\ requests[r].pc = "consume"
  BY DEF GateBase, Shape, Consume
<1>2. /\ requests[r].now \in Nat /\ requests[r].now <= clock /\ ~requests[r].granted
      /\ requests[r].incarnation = restarts /\ requests[r].answer = "none"
  BY <1>1 DEF ShapeOf
<1>3. b \in Buckets
  BY DEF Bucket, Buckets
<1>4. ok <=> w.count + 1 <= Limit[b]
  BY DEF Grants
<1>5. UNCHANGED <<clock, restarts>>
  BY DEF Consume
<1> HIDE DEF w, ok
<1>6. /\ w.started \in Nat /\ w.count \in Nat
      /\ w.started <= clock /\ requests[r].now < w.started + Window
      /\ Separate(b, w.started) /\ Counted(b, w.started, w.count)
  BY <1>2, <1>3, WindowFacts DEF w
<1>7. /\ Only(r) /\ SameIdentity(r) /\ ok \in BOOLEAN
      /\ requests'[r].now = requests[r].now
      /\ requests'[r].answer = IF ok THEN "none" ELSE "RATE_LIMITED"
      /\ requests'[r].locked = clock /\ requests'[r].window = w.started
      /\ requests'[r].granted = ok
      /\ limiter'[b].started = w.started /\ limiter'[b].count = w.count + 1
      /\ \A c \in Buckets \ {b} : limiter'[c] = limiter[c]
  BY <1>1, <1>2, ConsumeFields DEF w, ok
<1>8. b = Bucket(requests'[r])
  BY <1>7 DEF SameIdentity, Bucket
<1>9. ConsumeFacts(r, b, w, ok)
  BY <1>2, <1>3, <1>4, <1>5, <1>6, <1>7, <1>8 DEF ConsumeFacts
<1> QED
  BY <1>9

\* The buckets a call of consume does not work in.
LEMMA OtherBuckets ==
  ASSUME GateBase, LimiterInv, NEW r \in Requests, NEW b, NEW w, NEW ok,
         ConsumeFacts(r, b, w, ok), NEW c \in Buckets \ {b}
  PROVE  /\ limiter'[c].started <= clock'
         /\ Separate(c, limiter[c].started)'
         /\ Counted(c, limiter[c].started, limiter[c].count)'
<1>1. /\ limiter[c].started <= clock /\ Separate(c, limiter[c].started)
      /\ Counted(c, limiter[c].started, limiter[c].count)
  BY DEF LimiterInv
<1>2. /\ limiter'[c] = limiter[c] /\ clock' = clock /\ restarts' = restarts
      /\ \A q \in Requests \ {r} : requests'[q] = requests[q]
      /\ Bucket(requests'[r]) # c /\ Bucket(requests[r]) # c
  BY DEF ConsumeFacts, Only
<1>3. Separate(c, limiter[c].started)'
  BY <1>1, <1>2 DEF Separate
<1>4. GrantedIn(c, restarts, limiter[c].started)' = GrantedIn(c, restarts, limiter[c].started)
  BY <1>2 DEF GrantedIn
<1>5. Counted(c, limiter[c].started, limiter[c].count)'
  BY <1>1, <1>2, <1>4 DEF Counted
<1> QED
  BY <1>1, <1>2, <1>3, <1>5

\* The refusals before a call of consume stay justified.
LEMMA OtherRefusals ==
  ASSUME GateBase, LimiterInv, NEW r \in Requests, NEW b, NEW w, NEW ok,
         ConsumeFacts(r, b, w, ok), NEW p \in Requests \ {r},
         requests'[p].answer = "RATE_LIMITED"
  PROVE  Cardinality({q \in Requests :
        /\ requests'[q].granted
        /\ Bucket(requests'[q]) = Bucket(requests'[p])
        /\ requests'[q].incarnation = requests'[p].incarnation
        /\ requests'[q].locked > requests'[p].now - Window
        /\ requests'[q].locked <= requests'[p].locked}) >= Limit[Bucket(requests'[p])]
<1>1. /\ requests'[p] = requests[p] /\ ~requests[r].granted
      /\ \A q \in Requests \ {r} : requests'[q] = requests[q]
  BY DEF ConsumeFacts, Only
<1>2. SameIdentity(p) /\ SameLimits(p) /\ requests[p].answer = "RATE_LIMITED"
      /\ requests'[p].now = requests[p].now
  BY <1>1 DEF SameIdentity, SameLimits
<1>3. \A q \in Requests : requests[q].granted =>
        requests'[q].granted /\ SameIdentity(q) /\ SameLimits(q)
  BY <1>1 DEF SameIdentity, SameLimits
<1>4. GateTypeOK /\ RefusalIsJustified
  BY DEF GateBase, LimiterInv
<1> QED
  BY <1>2, <1>3, <1>4, RefusalsKept

\* A call that is refused.
LEMMA ConsumeRefuses ==
  ASSUME GateBase, LimiterInv, NEW r \in Requests, NEW b, NEW w, NEW ok,
         ConsumeFacts(r, b, w, ok), ~ok
  PROVE  LimiterInv'
<1>1. /\ b \in Buckets /\ ok \in BOOLEAN /\ ~(w.count + 1 <= Limit[b]) /\ w.count \in Nat
      /\ w.started \in Nat /\ w.started <= clock
      /\ clock' = clock /\ restarts' = restarts
      /\ limiter'[b].started = w.started /\ limiter'[b].count = w.count + 1
      /\ ~requests[r].granted /\ ~requests'[r].granted
      /\ requests'[r].answer = "RATE_LIMITED"
      /\ \A q \in Requests \ {r} : requests'[q] = requests[q]
  BY DEF ConsumeFacts, Only
<1>2. /\ Limit[b] \in Nat /\ Limit[b] >= 1 /\ Window \in Nat /\ clock \in Nat
      /\ restarts \in Nat
  BY <1>1, LimiterTypes DEF GateBase
<1>3. ASSUME NEW c, NEW i, NEW s
      PROVE  GrantedIn(c, i, s)' = GrantedIn(c, i, s)
  BY <1>1 DEF GrantedIn
<1>4. Cardinality(GrantedIn(b, restarts, w.started)) = Limit[b]
  BY <1>1, <1>2 DEF ConsumeFacts, Counted
<1>5. ASSUME NEW c \in Buckets
      PROVE  /\ limiter'[c].started <= clock'
             /\ Separate(c, limiter[c].started)'
             /\ Counted(c, limiter[c].started, limiter[c].count)'
  <2>1. CASE c = b
    <3>1. Separate(b, w.started)
      BY DEF ConsumeFacts
    <3>2. Separate(b, limiter[b].started)'
      BY <1>1, <3>1 DEF Separate
    <3>3. GrantedIn(b, restarts, limiter[b].started)' = GrantedIn(b, restarts, w.started)
      BY <1>1, <1>3 DEF GrantedIn
    <3>4. Counted(b, limiter[b].started, limiter[b].count)'
      BY <1>1, <1>2, <1>4, <3>3 DEF Counted
    <3> QED
      BY <1>1, <2>1, <3>2, <3>4
  <2>2. CASE c # b
    BY <2>2, OtherBuckets
  <2> QED
    BY <2>1, <2>2
<1>6. (\A q \in Requests : TimesOf(requests[q], clock))' /\ WindowsApart'
  BY <1>1 DEF LimiterInv, TimesOf, WindowsApart
<1>7. WindowsBounded'
  BY <1>3 DEF LimiterInv, WindowsBounded
<1>8. RefusalIsJustified'
  <2> SUFFICES ASSUME NEW p \in Requests, requests'[p].answer = "RATE_LIMITED"
               PROVE  Cardinality({q \in Requests :
        /\ requests'[q].granted
        /\ Bucket(requests'[q]) = Bucket(requests'[p])
        /\ requests'[q].incarnation = requests'[p].incarnation
        /\ requests'[q].locked > requests'[p].now - Window
        /\ requests'[q].locked <= requests'[p].locked}) >= Limit[Bucket(requests'[p])]
    BY DEF RefusalIsJustified
  <2>1. CASE p # r
    BY <2>1, OtherRefusals
  <2>2. CASE p = r
    <3> DEFINE Reason == {q \in Requests :
        /\ requests'[q].granted
        /\ Bucket(requests'[q]) = Bucket(requests'[r])
        /\ requests'[q].incarnation = requests'[r].incarnation
        /\ requests'[q].locked > requests'[r].now - Window
        /\ requests'[q].locked <= requests'[r].locked}
    <3>1. /\ requests'[r].now = requests[r].now /\ requests[r].now \in Nat
          /\ requests'[r].locked = clock /\ requests[r].now < w.started + Window
          /\ Bucket(requests'[r]) = b /\ requests'[r].incarnation = restarts
      BY DEF ConsumeFacts, SameIdentity
    <3>2. ASSUME NEW q \in GrantedIn(b, restarts, w.started)
          PROVE  q \in Reason
      <4>1. /\ q \in Requests /\ requests[q].granted /\ Bucket(requests[q]) = b
            /\ requests[q].incarnation = restarts /\ requests[q].window = w.started
        BY DEF GrantedIn
      <4>2. /\ requests[q].locked \in Nat /\ requests[q].window <= requests[q].locked
            /\ requests[q].locked <= clock
        BY <4>1 DEF LimiterInv, TimesOf
      <4>3. requests'[q] = requests[q]
        BY <1>1, <4>1
      <4>4. requests[q].locked > requests[r].now - Window
        BY <1>1, <1>2, <3>1, <4>1, <4>2
      <4> QED
        BY <3>1, <4>1, <4>2, <4>3, <4>4
    <3>3. Reason \subseteq Requests /\ GrantedIn(b, restarts, w.started) \subseteq Reason
      BY <3>2
    <3> HIDE DEF Reason
    <3>4. IsFiniteSet(Reason) /\ Cardinality(Reason) \in Nat
      BY <3>3, RequestsAssumption, FS_Subset, FS_CardinalityType
    <3>5. Cardinality(GrantedIn(b, restarts, w.started)) <= Cardinality(Reason)
      BY <3>3, <3>4, FS_Subset
    <3>6. Cardinality(Reason) >= Limit[Bucket(requests'[r])]
      BY <1>2, <1>4, <3>1, <3>4, <3>5
    <3> QED
      BY <2>2, <3>6 DEF Reason
  <2> QED
    BY <2>1, <2>2
<1> QED
  BY <1>5, <1>6, <1>7, <1>8 DEF LimiterInv

\* A call that is granted.
LEMMA ConsumeGrants ==
  ASSUME GateBase, LimiterInv, NEW r \in Requests, NEW b, NEW w, NEW ok,
         ConsumeFacts(r, b, w, ok), ok
  PROVE  LimiterInv'
<1>1. /\ b \in Buckets /\ ok = TRUE /\ w.count + 1 <= Limit[b] /\ w.count \in Nat
      /\ w.started \in Nat /\ w.started <= clock
      /\ clock' = clock /\ restarts' = restarts
      /\ limiter'[b].started = w.started /\ limiter'[b].count = w.count + 1
      /\ ~requests[r].granted /\ requests'[r].granted
      /\ requests'[r].answer = "none"
      /\ Bucket(requests'[r]) = b /\ requests'[r].incarnation = restarts
      /\ requests'[r].window = w.started /\ requests'[r].locked = clock
      /\ requests'[r].now \in Nat /\ requests'[r].now < w.started + Window
      /\ \A q \in Requests \ {r} : requests'[q] = requests[q]
  BY DEF ConsumeFacts, Only, SameIdentity
<1>2. /\ Limit[b] \in Nat /\ Limit[b] >= 1 /\ Window \in Nat /\ Window >= 1 /\ clock \in Nat
      /\ restarts \in Nat
  BY <1>1, LimiterTypes DEF GateBase
<1>3. Separate(b, w.started) /\ Counted(b, w.started, w.count)
  BY DEF ConsumeFacts
<1>4. GrantedIn(b, restarts, w.started)' = GrantedIn(b, restarts, w.started) \cup {r}
  BY <1>1 DEF GrantedIn
<1>5. ASSUME NEW c, NEW i, NEW s, <<c, i, s>> # <<b, restarts, w.started>>
      PROVE  GrantedIn(c, i, s)' = GrantedIn(c, i, s)
  BY <1>1, <1>5 DEF GrantedIn
<1>6. Cardinality(GrantedIn(b, restarts, w.started)') = w.count + 1
  <2>1. r \notin GrantedIn(b, restarts, w.started)
    BY <1>1 DEF GrantedIn
  <2>2. IsFiniteSet(GrantedIn(b, restarts, w.started))
    BY GrantedFinite
  <2>3. Cardinality(GrantedIn(b, restarts, w.started)) = w.count
    BY <1>1, <1>2, <1>3 DEF Counted
  <2> QED
    BY <1>4, <2>1, <2>2, <2>3, FS_AddElement
<1>7. ASSUME NEW c \in Buckets
      PROVE  /\ limiter'[c].started <= clock'
             /\ Separate(c, limiter[c].started)'
             /\ Counted(c, limiter[c].started, limiter[c].count)'
  <2>1. CASE c = b
    <3>1. Separate(b, limiter[b].started)'
      BY <1>1, <1>3 DEF Separate
    <3>2. GrantedIn(b, restarts, limiter[b].started)' = GrantedIn(b, restarts, w.started)'
      BY <1>1 DEF GrantedIn
    <3>3. Counted(b, limiter[b].started, limiter[b].count)'
      BY <1>1, <1>2, <1>6, <3>2 DEF Counted
    <3> QED
      BY <1>1, <2>1, <3>1, <3>3
  <2>2. CASE c # b
    BY <2>2, OtherBuckets
  <2> QED
    BY <2>1, <2>2
<1>8. (\A q \in Requests : TimesOf(requests[q], clock))'
  BY <1>1, <1>2 DEF LimiterInv, TimesOf
<1>9. WindowsApart'
  BY <1>1, <1>3 DEF LimiterInv, WindowsApart, Separate
<1>10. WindowsBounded'
  <2> SUFFICES ASSUME NEW c \in Buckets, NEW i \in Nat, NEW s \in Nat
               PROVE  Cardinality(GrantedIn(c, i, s)') <= Limit[c]
    BY DEF WindowsBounded
  <2>1. CASE <<c, i, s>> = <<b, restarts, w.started>>
    <3>1. c = b /\ i = restarts /\ s = w.started
      BY <2>1
    <3>2. GrantedIn(c, i, s)' = GrantedIn(b, restarts, w.started)'
      BY <1>1, <3>1 DEF GrantedIn
    <3> QED
      BY <1>1, <1>6, <3>1, <3>2
  <2>2. CASE <<c, i, s>> # <<b, restarts, w.started>>
    BY <1>5, <2>2 DEF LimiterInv, WindowsBounded
  <2> QED
    BY <2>1, <2>2
<1>11. RefusalIsJustified'
  <2> SUFFICES ASSUME NEW p \in Requests, requests'[p].answer = "RATE_LIMITED"
               PROVE  Cardinality({q \in Requests :
        /\ requests'[q].granted
        /\ Bucket(requests'[q]) = Bucket(requests'[p])
        /\ requests'[q].incarnation = requests'[p].incarnation
        /\ requests'[q].locked > requests'[p].now - Window
        /\ requests'[q].locked <= requests'[p].locked}) >= Limit[Bucket(requests'[p])]
    BY DEF RefusalIsJustified
  <2>1. p # r
    BY <1>1
  <2> QED
    BY <2>1, OtherRefusals
<1> QED
  BY <1>7, <1>8, <1>9, <1>10, <1>11 DEF LimiterInv

\* What the limiter's invariant says before any request.
LEMMA LimiterInit ==
  ASSUME GateInit
  PROVE  LimiterInv
<1>1. /\ clock = 0 /\ restarts = 0
      /\ \A b \in Buckets : limiter[b].started = 0 /\ limiter[b].count = 0
      /\ \A q \in Requests : ~requests[q].granted /\ requests[q].answer = "none"
  BY DEF GateInit, NewWindow, Fresh
<1>2. ASSUME NEW b, NEW i, NEW s
      PROVE  GrantedIn(b, i, s) = {} /\ Cardinality(GrantedIn(b, i, s)) = 0
  <2>1. GrantedIn(b, i, s) = {}
    BY <1>1 DEF GrantedIn
  <2> QED
    BY <2>1, FS_EmptySet
<1>3. \A b \in Buckets : Limit[b] \in Nat /\ Limit[b] >= 1
  BY LimitAssumption
<1>4. \A b \in Buckets : Counted(b, limiter[b].started, limiter[b].count)
  BY <1>1, <1>2, <1>3 DEF Counted
<1>5. WindowsBounded
  BY <1>2, <1>3 DEF WindowsBounded
<1> QED
  BY <1>1, <1>4, <1>5 DEF LimiterInv, Separate, TimesOf, WindowsApart, RefusalIsJustified

\* The limiter's invariant is inductive with types and shapes.
LEMMA LimiterInvariant == GateSpec => []LimiterInv
<1>1. GateBase /\ LimiterInv /\ [GateNext]_gateVars => LimiterInv'
  <2> SUFFICES ASSUME GateBase, LimiterInv, [GateNext]_gateVars
               PROVE  LimiterInv'
    OBVIOUS
  <2>a. clock \in Nat
    BY DEF GateBase, GateTypeOK
  <2>1. ASSUME UNCHANGED requests
        PROVE  Keeps
    BY <2>1 DEF Keeps, SameIdentity, SameLimits
  <2>2. CASE UNCHANGED gateVars \/ VerifyReadEvents \/ VerifyReadState \/ Tick
    BY <2>a, <2>1, <2>2, KeepsLimiter DEF gateVars, VerifyReadEvents, VerifyReadState, Tick
  <2>3. ASSUME NEW r \in Requests,
               \/ \E role \in Credentials, permission \in Permissions :
                    \/ Authenticate(r, role, permission)
                    \/ AuthenticationNotLogged(r, role, permission)
               \/ FailToAuthenticate(r) \/ ReadClock(r) \/ LogFailure(r) \/ Authorize(r)
               \/ FailsClosed(r)
        PROVE  LimiterInv'
    <3>1. Keeps
      BY <2>3, OthersKeep
    <3>2. UNCHANGED <<clock, limiter, restarts>>
      BY <2>3 DEF Authenticate, AuthenticationNotLogged, FailToAuthenticate, ReadClock,
         LogFailure, Authorize, FailsClosed, AuthenticateRaises, AppendFails
    <3> QED
      BY <2>a, <3>1, <3>2, KeepsLimiter
  <2>4. ASSUME NEW r \in Requests, Consume(r)
        PROVE  LimiterInv'
    BY <2>4, ConsumeKnows, ConsumeGrants, ConsumeRefuses
  <2>5. CASE Restart
    BY <2>5, RestartLimiter
  <2> QED
    BY <2>2, <2>3, <2>4, <2>5 DEF GateNext, Serve, FailsClosed
<1> QED
  BY <1>1, LimiterInit, GateShape, PTL DEF GateSpec

\* ProcessRateLimiter refuses a call only when the limit was used up less than a window
\* before the call read the clock, for any limits and any interleaving of its callers.
THEOREM GateRefusalIsJustified == GateSpec => []RefusalIsJustified
<1>1. LimiterInv => RefusalIsJustified
  BY DEF LimiterInv
<1> QED
  BY <1>1, LimiterInvariant, PTL

\* Granted calls that lie within one window's length were granted in at most two
\* windows: a third would be too far from the first.
LEMMA TwoWindows ==
  ASSUME GateBase, LimiterInv, NEW b \in Buckets, NEW i \in Nat, NEW t \in Nat
  PROVE  \E s1, s2 \in Nat :
           GrantedWithin(b, i, t) \subseteq GrantedIn(b, i, s1) \cup GrantedIn(b, i, s2)
<1> DEFINE G == GrantedWithin(b, i, t)
<1>1. ASSUME NEW q \in G
      PROVE  /\ q \in Requests /\ requests[q].granted /\ Bucket(requests[q]) = b
             /\ requests[q].incarnation = i /\ requests[q].window \in Nat
             /\ t < requests[q].window + Window /\ requests[q].window < t + Window
  <2>1. /\ q \in Requests /\ requests[q].granted /\ Bucket(requests[q]) = b
        /\ requests[q].incarnation = i /\ requests[q].now >= t
        /\ requests[q].locked < t + Window
    BY DEF GrantedWithin
  <2>2. TimesOf(requests[q], clock) /\ Window \in Nat
    BY <2>1, WindowAssumption DEF LimiterInv
  <2> QED
    BY <2>1, <2>2 DEF TimesOf
<1>2. ASSUME NEW p \in G, NEW q \in G
      PROVE  \/ requests[p].window = requests[q].window
             \/ requests[p].window + Window <= requests[q].window
             \/ requests[q].window + Window <= requests[p].window
  BY <1>1 DEF LimiterInv, WindowsApart
<1>3. ASSUME NEW q \in G
      PROVE  q \in GrantedIn(b, i, requests[q].window)
  BY <1>1 DEF GrantedIn
<1> HIDE DEF G
<1>4. CASE G = {}
  BY <1>4 DEF G
<1>5. CASE G # {}
  <2>1. PICK p \in G : TRUE
    BY <1>5
  <2>2. CASE \A q \in G : requests[q].window = requests[p].window
    <3>1. G \subseteq GrantedIn(b, i, requests[p].window) \cup GrantedIn(b, i, requests[p].window)
      BY <1>3, <2>2
    <3> QED
      BY <1>1, <2>1, <3>1 DEF G
  <2>3. CASE \E q \in G : requests[q].window # requests[p].window
    <3>1. PICK o \in G : requests[o].window # requests[p].window
      BY <2>3
    <3>2. ASSUME NEW q \in G
          PROVE  requests[q].window = requests[p].window \/ requests[q].window = requests[o].window
      <4>1. /\ requests[q].window \in Nat /\ requests[p].window \in Nat
            /\ requests[o].window \in Nat
            /\ t < requests[q].window + Window /\ requests[q].window < t + Window
            /\ t < requests[p].window + Window /\ requests[p].window < t + Window
            /\ t < requests[o].window + Window /\ requests[o].window < t + Window
        BY <1>1, <2>1, <3>1
      <4>2. Window \in Nat
        BY WindowAssumption
      <4> QED
        BY <1>2, <2>1, <3>1, <4>1, <4>2
    <3>3. G \subseteq GrantedIn(b, i, requests[p].window) \cup GrantedIn(b, i, requests[o].window)
      BY <1>3, <3>2
    <3> QED
      BY <1>1, <2>1, <3>1, <3>3 DEF G
  <2> QED
    BY <2>2, <2>3
<1> QED
  BY <1>4, <1>5

\* ProcessRateLimiter grants no more than twice its limit within one window's length,
\* for any limits, any number of callers and any delay between a caller's reading of
\* the clock and its taking of the lock.
THEOREM GateLimitHolds == GateSpec => []LimitHolds
<1>1. GateBase /\ LimiterInv => LimitHolds
  <2> SUFFICES ASSUME GateBase, LimiterInv, NEW b \in Buckets, NEW i \in 0..MaxRestarts,
                      NEW t \in 0..MaxTime
               PROVE  Cardinality(GrantedWithin(b, i, t)) <= 2 * Limit[b]
    BY DEF LimitHolds
  <2>1. i \in Nat /\ t \in Nat /\ Limit[b] \in Nat
    BY GateBoundsAssumption, LimitAssumption
  <2>2. PICK s1 \in Nat, s2 \in Nat :
          GrantedWithin(b, i, t) \subseteq GrantedIn(b, i, s1) \cup GrantedIn(b, i, s2)
    BY <2>1, TwoWindows
  <2> DEFINE S == GrantedIn(b, i, s1)
             T == GrantedIn(b, i, s2)
  <2>3. /\ IsFiniteSet(S) /\ Cardinality(S) \in Nat /\ Cardinality(S) <= Limit[b]
        /\ IsFiniteSet(T) /\ Cardinality(T) \in Nat /\ Cardinality(T) <= Limit[b]
    BY <2>1, GrantedFinite DEF LimiterInv, WindowsBounded
  <2> HIDE DEF S, T
  <2>4. IsFiniteSet(S \cap T) /\ Cardinality(S \cap T) \in Nat
    <3>1. S \cap T \in SUBSET S
      OBVIOUS
    <3> QED
      BY <2>3, <3>1, FS_Subset, FS_CardinalityType
  <2>5. /\ IsFiniteSet(S \cup T)
        /\ Cardinality(S \cup T) = Cardinality(S) + Cardinality(T) - Cardinality(S \cap T)
    BY <2>3, FS_Union
  <2>6. Cardinality(GrantedWithin(b, i, t)) <= Cardinality(S \cup T)
        /\ IsFiniteSet(GrantedWithin(b, i, t))
    BY <2>2, <2>5, FS_Subset DEF S, T
  <2>7. Cardinality(GrantedWithin(b, i, t)) \in Nat
    BY <2>6, FS_CardinalityType
  <2> QED
    BY <2>1, <2>3, <2>4, <2>5, <2>6, <2>7
<1> QED
  BY <1>1, GateShape, LimiterInvariant, PTL
=============================================================================
