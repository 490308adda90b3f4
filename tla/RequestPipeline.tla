-------------------------- MODULE RequestPipeline --------------------------
(***************************************************************************)
(* One request from its first byte to its completion record: the three     *)
(* ASGI middlewares (security/middleware.py), the routes of health,        *)
(* readiness, administration, ingestion, analysis and decision             *)
(* (api/routes.py), the advisory analysis by an external model (services/  *)
(* intelligence.py, providers/openai.py) and the policy on its outcome.    *)
(*                                                                         *)
(* RequestContextMiddleware is outside RequestBodyLimitMiddleware, which   *)
(* is outside SafeExceptionMiddleware, which is outside the application.   *)
(* The steps are those between two awaits: of a part of the body, of the   *)
(* thread that builds a service, of the provider, of a send of the server. *)
(* The client can stop or vanish, a send can fail, and the server can      *)
(* cancel the request, while it waits.  The application parses the body,   *)
(* asks the gate, builds its services, then validates what it parsed.      *)
(***************************************************************************)
EXTENDS Ingestion, Functions

CONSTANTS
  MaxBytes,        \* max_request_body_bytes, in units
  PartSizes,       \* the sizes of the parts a body may come in
  Declarations,    \* the values of Content-Length: a number, or one of the two below
  MaxInputBytes,   \* ai_max_input_bytes, in units
  InstructionBytes,\* what the provider is sent besides the payload
  Events,          \* the events a body may hold
  Outputs          \* the structured outputs the provider may return

ASSUME PipelineBoundsAssumption ==
  /\ MaxBytes \in Nat /\ MaxInputBytes \in Nat /\ InstructionBytes \in Nat
  /\ PartSizes \subseteq Nat /\ PartSizes # {}
  /\ Declarations \subseteq Int

Absent == -1       \* no Content-Length
Invalid == -2      \* not a number, or negative

VARIABLES
  pc,           \* where the request is
  route,        \* what it asks for
  client,       \* Content-Length, and how much the client has sent
  body,         \* RequestBodyLimitMiddleware: the size of what is buffered
  given,        \* the size of the body the application was given
  permitted,    \* whether require_permission returned an actor
  event,        \* the event in the body
  provider,     \* the number of calls of the provider, and what the last one returned
  result,       \* what the handler returned
  status,       \* RequestContextMiddleware: the status it saw
  responses,    \* the codes of the responses somebody began to send
  connection,   \* the server: the response it took the start of, whether it took all
                \* of it, and what went wrong
  completions   \* the request_completed records

vars == <<pc, route, client, body, given, permitted, event, provider, result, status,
          responses, connection, completions>>

-----------------------------------------------------------------------------
Open == {"health", "create_event"}
Protected == {"admin_status", "analyze_event", "decide_event"}
Routes == Open \cup Protected \cup {"readiness"}
TakesEvent == {"create_event", "analyze_event", "decide_event"}

NoBody == -1
NoEvent == [event_type |-> "none"]   \* nothing, or something other than a JSON object
NoOutput == [failure |-> "none"]
NoResult == [kind |-> "none"]
EventId == "evt"    \* generate_event_id

\* What comes in is something, its age is a number, and its payload came out of a parser.
ASSUME InputsAssumption ==
  /\ NoEvent \notin Events /\ NoOutput \notin Outputs
  /\ \A e \in Events : e.age \in Int /\ IsPayload(e.payload)

StatusOf(code) ==
  CASE code = "OK" -> 200
    [] code = "ACCEPTED" -> 202
    [] code \in {"INVALID_REQUEST", "HTTP_ERROR_400"} -> 400
    [] code = "AUTHENTICATION_FAILED" -> 401
    [] code = "AUTHORIZATION_DENIED" -> 403
    [] code = "REQUEST_TOO_LARGE" -> 413
    [] code \in {"INVALID_EVENT", "UNSUPPORTED_EVENT_TYPE", "UNSUPPORTED_SOURCE",
                 "INVALID_TIMESTAMP", "PAYLOAD_LIMIT_EXCEEDED", "UNSAFE_PAYLOAD",
                 "NORMALIZATION_ERROR"} -> 422
    [] code = "RATE_LIMITED" -> 429
    [] code = "INTERNAL_ERROR" -> 500
    [] code = "AI_INVALID_OUTPUT" -> 502
    [] code = "AI_TIMEOUT" -> 504
    [] code \in {"AI_RATE_LIMIT", "AI_AUTHENTICATION", "AI_PROVIDER_ERROR",
                 "AI_CONFIGURATION", "AI_UNAVAILABLE", "HTTP_ERROR_503"} -> 503

\* A response is begun: secure_send notes the status of its start before it awaits the
\* server's send of it.
Respond(code) ==
  /\ responses' = Append(responses, code)
  /\ status' = StatusOf(code)
  /\ pc' = "send_start"

\* The handler returns: its result is the body of the response.
Return(code, value) == Respond(code) /\ result' = value

PipelineInit ==
  /\ pc = "arrived"
  /\ route \in Routes
  /\ client \in [declared : Declarations, sent : {0}]
  /\ body = 0 /\ given = NoBody
  /\ permitted = FALSE /\ event = NoEvent
  /\ provider = [calls |-> 0, output |-> NoOutput]
  /\ result = NoResult
  /\ status = 500
  /\ responses = <<>> /\ completions = <<>>
  /\ connection = [start |-> "none", whole |-> FALSE, faults |-> {}]

-----------------------------------------------------------------------------
(* RequestBodyLimitMiddleware.                                             *)

\* Mutant: a body of exactly the limit is too large.
TooLargeAtLimit(size) == size >= MaxBytes

TooLarge(size) == size > MaxBytes

CheckDeclaration ==
  /\ pc = "arrived"
  /\ CASE client.declared = Invalid -> Respond("INVALID_REQUEST")
       [] client.declared # Invalid /\ TooLarge(client.declared) -> Respond("REQUEST_TOO_LARGE")
       [] OTHER -> pc' = "receiving" /\ UNCHANGED <<status, responses>>
  /\ UNCHANGED <<route, client, body, given, permitted, event, provider, result, connection,
                 completions>>

\* A part arrives, and the whole is handed on once, when the last one has.
Receive(size, more) ==
  /\ pc = "receiving"
  /\ client' = [client EXCEPT !.sent = @ + size]
  /\ body' = body + size
  /\ IF TooLarge(body')
     THEN Respond("REQUEST_TOO_LARGE") /\ UNCHANGED given
     ELSE /\ pc' = IF more THEN "receiving" ELSE "parse"
          /\ given' = IF more THEN NoBody ELSE body'
          /\ UNCHANGED <<status, responses>>
  /\ UNCHANGED <<route, permitted, event, provider, result, connection, completions>>

\* The client goes away before its body is complete: nothing is answered.
Disconnect ==
  /\ pc = "receiving"
  /\ pc' = "finally"
  /\ connection' = [connection EXCEPT !.faults = @ \cup {"disconnect"}]
  /\ UNCHANGED <<route, client, body, given, permitted, event, provider, result, status,
                 responses, completions>>

-----------------------------------------------------------------------------
(* The application.                                                        *)

\* Mutant: the analysis is declared without its permission.
AfterParseUngated == IF route \in Protected \ {"analyze_event"} THEN "gate"
                     ELSE IF route \in TakesEvent THEN "dependencies" ELSE "handle"

\* What follows the body: the gate, the services the handler depends on, or the handler.
AfterParse == IF route \in Protected THEN "gate"
              ELSE IF route \in TakesEvent THEN "dependencies" ELSE "handle"

\* FastAPI reads the body of a route that takes an event before anything else; what
\* is no JSON is refused there, and what cannot be decoded at all.
Parse ==
  /\ pc = "parse"
  /\ \/ /\ route \in TakesEvent
        /\ event' \in Events \cup {NoEvent}
        /\ pc' = AfterParse
        /\ UNCHANGED <<status, responses>>
     \/ /\ route \in TakesEvent
        /\ \E code \in {"INVALID_EVENT", "HTTP_ERROR_400"} : Respond(code)
        /\ UNCHANGED event
     \/ /\ route \notin TakesEvent
        /\ pc' = AfterParse
        /\ UNCHANGED <<event, status, responses>>
  /\ UNCHANGED <<route, client, body, given, permitted, provider, result, connection,
                 completions>>

\* The answers of SecurityGate other than HANDLED; every role may analyze.
GateRefusals ==
  {"AUTHENTICATION_FAILED", "RATE_LIMITED", "INTERNAL_ERROR"}
    \cup (IF route = "admin_status" THEN {"AUTHORIZATION_DENIED"} ELSE {})

Gate ==
  /\ pc = "gate"
  /\ \/ /\ permitted' = TRUE
        /\ pc' = IF route \in TakesEvent THEN "dependencies" ELSE "handle"
        /\ UNCHANGED <<status, responses>>
     \/ /\ \E code \in GateRefusals : Respond(code)
        /\ UNCHANGED permitted
  /\ UNCHANGED <<route, client, body, given, event, provider, result, connection, completions>>

\* get_ingestion_service and its like are no coroutines: FastAPI awaits a thread that
\* calls them.
Dependencies ==
  /\ pc = "dependencies"
  /\ pc' = "validate"
  /\ UNCHANGED <<route, client, body, given, permitted, event, provider, result, status,
                 responses, connection, completions>>

Validate ==
  LET verdicts == IF event = NoEvent THEN [body |-> "type"] ELSE ExternalEventVerdicts(event) IN
  /\ pc = "validate"
  /\ IF Locations(verdicts) # {} THEN Respond(validation_error_code(verdicts))
     ELSE pc' = "handle" /\ UNCHANGED <<status, responses>>
  /\ UNCHANGED <<route, client, body, given, permitted, event, provider, result, connection,
                 completions>>

\* health, readiness and admin_status; the probe of readiness may raise.
HandleStatus ==
  /\ pc = "handle" /\ route \notin TakesEvent
  /\ \/ Return("OK", [kind |-> "status"])
     \/ route = "readiness" /\ Respond("HTTP_ERROR_503") /\ UNCHANGED result
  /\ UNCHANGED <<route, client, body, given, permitted, event, provider, connection,
                 completions>>

\* create_event acknowledges what ingest accepts.
HandleCreate ==
  /\ pc = "handle" /\ route = "create_event"
  /\ IF IngestError(event) # FINE
     THEN Respond(IngestError(event)) /\ UNCHANGED result
     ELSE Return("ACCEPTED", [kind |-> "acknowledgement",
                              category |-> ingest(event, EventId).category])
  /\ UNCHANGED <<route, client, body, given, permitted, event, provider, connection,
                 completions>>

\* _build_request: the system instruction and the event.
RequestBytes(e) == Bytes(e.payload) + InstructionBytes

\* analyze_event and decide_event up to the await of the provider: an event that
\* makes too large a request is never sent.
HandleAnalysis ==
  /\ pc = "handle" /\ route \in {"analyze_event", "decide_event"}
  /\ IF IngestError(event) # FINE
     THEN Respond(IngestError(event)) /\ UNCHANGED provider
     ELSE IF RequestBytes(event) > MaxInputBytes
     THEN Respond("AI_UNAVAILABLE") /\ UNCHANGED provider
     ELSE /\ provider' = [provider EXCEPT !.calls = @ + 1]
          /\ pc' = "provider"
          /\ UNCHANGED <<status, responses>>
  /\ UNCHANGED <<route, client, body, given, permitted, event, result, connection, completions>>

-----------------------------------------------------------------------------
(* The provider and what is made of its output.                            *)

MAX_REASONS == 5

\* What the provider, its absence or its client library may fail with.
ProviderFailures ==
  {"AI_TIMEOUT", "AI_RATE_LIMIT", "AI_AUTHENTICATION", "AI_PROVIDER_ERROR",
   "AI_CONFIGURATION", "AI_INVALID_OUTPUT"}

\* ProviderAnalysisOutput: the exact fields, closed enumerations, bounded texts that
\* hold nothing a person could mistake for a capability.
ValidOutput(output) ==
  /\ output.extra = {}
  /\ output.priority \in Priorities /\ output.urgency \in Urgencies
  /\ output.intent \in Intents /\ output.recommended_next_step \in NextSteps
  /\ output.confidence \in 0..100
  /\ output.reasons \in 0..MAX_REASONS
  /\ output.text = "plain"

\* Mutant: the category follows the intent the provider found.
ResultByIntent(output, canonical) ==
  [event_id |-> canonical.event_id,
   category |-> IF output.intent = "SUPPORT" THEN "SUPPORT" ELSE canonical.category,
   reasons |-> output.reasons, priority |-> output.priority, urgency |-> output.urgency,
   intent |-> output.intent, confidence |-> output.confidence,
   recommended_next_step |-> output.recommended_next_step]

\* BusinessIntelligenceResult: identity and category are the server's.
BusinessIntelligenceResult(output, canonical) ==
  [event_id |-> canonical.event_id, category |-> canonical.category,
   reasons |-> output.reasons, priority |-> output.priority, urgency |-> output.urgency,
   intent |-> output.intent, confidence |-> output.confidence,
   recommended_next_step |-> output.recommended_next_step]

\* The provider fails, or its client does in a way nobody foresaw.
ProviderFails(code) ==
  /\ pc = "provider"
  /\ Respond(code)
  /\ provider' = [provider EXCEPT !.output = [failure |-> code]]
  /\ UNCHANGED <<route, client, body, given, permitted, event, result, connection, completions>>

\* The provider returns: the rest of analyze_event, or of decide_event.
ProviderReturns(output) ==
  LET canonical == ingest(event, EventId)
      analysis == BusinessIntelligenceResult(output, canonical) IN
  /\ pc = "provider"
  /\ provider' = [provider EXCEPT !.output = output]
  /\ IF ~ValidOutput(output)
     THEN Respond("AI_INVALID_OUTPUT") /\ UNCHANGED result
     ELSE IF route = "analyze_event"
     THEN Return("OK", [kind |-> "analysis", analysis |-> analysis])
     ELSE Return("OK", [kind |-> "decision",
                        decision |-> decide([event |-> canonical, intelligence |-> analysis])])
  /\ UNCHANGED <<route, client, body, given, permitted, event, connection, completions>>

-----------------------------------------------------------------------------
(* What SafeExceptionMiddleware and RequestContextMiddleware catch.        *)

\* An exception nobody handles, anywhere in the application.
ApplicationFails ==
  /\ pc \in {"parse", "gate", "dependencies", "validate", "handle", "provider"}
  /\ Respond("INTERNAL_ERROR")
  /\ UNCHANGED <<route, client, body, given, permitted, event, provider, result, connection,
                 completions>>

\* The response that is being sent.
Current == responses[Len(responses)]

\* The server takes the start of a response, once, and then its body.
SendStart ==
  /\ pc = "send_start" /\ connection.start = "none"
  /\ connection' = [connection EXCEPT !.start = Current]
  /\ pc' = "send_body"
  /\ UNCHANGED <<route, client, body, given, permitted, event, provider, result, status,
                 responses, completions>>

SendBody ==
  /\ pc = "send_body"
  /\ connection' = [connection EXCEPT !.whole = TRUE]
  /\ pc' = "finally"
  /\ UNCHANGED <<route, client, body, given, permitted, event, provider, result, status,
                 responses, completions>>

\* SafeExceptionMiddleware is around who sends: not around RequestBodyLimitMiddleware,
\* nor around its own answer.
Guarded == given # NoBody /\ Current # "INTERNAL_ERROR"

\* A send raises.  SafeExceptionMiddleware does not ask whether a response was started.
SendFails ==
  /\ pc \in {"send_start", "send_body"}
  /\ connection' = [connection EXCEPT !.faults = @ \cup {"send"}]
  /\ IF Guarded THEN Respond("INTERNAL_ERROR")
     ELSE pc' = "finally" /\ UNCHANGED <<status, responses>>
  /\ UNCHANGED <<route, client, body, given, permitted, event, provider, result, completions>>

\* The server cancels the request at an await: no Exception, so nobody answers it.
Cancelled ==
  /\ pc \in {"receiving", "dependencies", "provider", "send_start", "send_body"}
  /\ connection' = [connection EXCEPT !.faults = @ \cup {"cancel"}]
  /\ pc' = "finally"
  /\ UNCHANGED <<route, client, body, given, permitted, event, provider, result, status,
                 responses, completions>>

\* Mutant: a request that nobody answered counts as a success.
CompleteIfNotFailed ==
  /\ pc = "finally"
  /\ pc' = "done"
  /\ completions' = Append(completions,
       IF responses # <<>> /\ status >= 400 THEN "failure" ELSE "success")
  /\ UNCHANGED <<route, client, body, given, permitted, event, provider, result, status,
                 responses, connection>>

\* The finally clause of RequestContextMiddleware.
Complete ==
  /\ pc = "finally"
  /\ pc' = "done"
  /\ completions' = Append(completions, IF status < 400 THEN "success" ELSE "failure")
  /\ UNCHANGED <<route, client, body, given, permitted, event, provider, result, status,
                 responses, connection>>

PipelineNext ==
  \/ CheckDeclaration
  \/ \E size \in PartSizes, more \in BOOLEAN : Receive(size, more)
  \/ Disconnect
  \/ Parse
  \/ Gate
  \/ Dependencies
  \/ Validate
  \/ HandleStatus
  \/ HandleCreate
  \/ HandleAnalysis
  \/ \E code \in ProviderFailures : ProviderFails(code)
  \/ \E output \in Outputs : ProviderReturns(output)
  \/ ApplicationFails
  \/ SendStart
  \/ SendBody
  \/ SendFails
  \/ Cancelled
  \/ Complete

PipelineSpec == PipelineInit /\ [][PipelineNext]_vars

-----------------------------------------------------------------------------
(* Properties.                                                             *)

\* Every request leaves one completion record, whoever vanishes, cancels or fails at
\* whichever await.  It says success exactly when a handler returned and no send raised,
\* and of a response the server took whole it tells the truth, though it is written from
\* a status another layer noted before the send: only a response cancelled while it was
\* sent may count as a success the client never saw.  Where nothing goes wrong, the
\* whole response is sent.  A second response is begun only after a send raised.
AnsweredAndRecorded ==
  /\ Len(responses) <= 2
  /\ Len(responses) = 2 => "send" \in connection.faults /\ responses[2] = "INTERNAL_ERROR"
  /\ pc = "done" =>
       /\ Len(completions) = 1
       /\ completions[1] = "success" <=> result # NoResult /\ "send" \notin connection.faults
       /\ connection.whole =>
            (completions[1] = "success" <=> StatusOf(connection.start) < 400)
       /\ connection.faults = {} => connection.whole

\* The application is given exactly what the client sent, and no more than the limit; a
\* body is refused as too large, declared or streamed, only when it is; and no more
\* than the limit and one part are ever buffered.
BodyIsWhole ==
  /\ given # NoBody => given = client.sent /\ given <= MaxBytes
  /\ "REQUEST_TOO_LARGE" \in Range(responses) =>
       client.declared > MaxBytes \/ client.sent > MaxBytes
  /\ \E part \in PartSizes : body <= MaxBytes + part

\* The names of fields whose errors validation_error_code takes for errors of the event
\* also when they are fields of a tag request's payload.
MisnamedIn(e, field) ==
  e.event_type = "GHL_CONTACT_TAG_REQUEST" /\ field \in Keys(e.payload)

\* What a refusal's code may mean.
Reason(code, e) ==
  CASE code = "UNSUPPORTED_EVENT_TYPE" ->
         e.event_type \notin EventTypes \/ MisnamedIn(e, "event_type")
    [] code = "UNSUPPORTED_SOURCE" -> e.source \notin EventSources \/ MisnamedIn(e, "source")
    [] code = "INVALID_TIMESTAMP" ->
         \/ ~e.dated \/ e.age > MAX_PAST_SKEW \/ e.age < -MAX_FUTURE_SKEW
         \/ MisnamedIn(e, "occurred_at")
    [] code = "PAYLOAD_LIMIT_EXCEEDED" -> ~WithinLimits(e.payload)
    [] code = "UNSAFE_PAYLOAD" ->
         \/ ~Harmless(e.payload) \/ e.payload[1].kind # "object"
         \/ e.external_event_reference = "credential"
         \/ MisnamedIn(e, "payload")
         \/ e.event_type = "GHL_CONTACT_TAG_REQUEST" /\ e.source # "INTERNAL"
    [] code = "INVALID_EVENT" ->
         \/ e.extra \/ e.external_event_reference = "malformed"
         \/ e.event_type = "GHL_CONTACT_TAG_REQUEST" /\ ~HasTagParameters(e.payload)
    [] code = "AI_UNAVAILABLE" -> RequestBytes(e) > MaxInputBytes
    [] code = "NORMALIZATION_ERROR" -> FALSE
    [] OTHER -> TRUE

\* The walk through the payload is exact; create_event accepts exactly the events that
\* satisfy every limit taken as a whole; a refusal names a reason the event gives; and
\* what ExternalEvent lets through is never refused by the second validation of
\* CanonicalBusinessEvent.
IngestionIsExact ==
  event # NoEvent =>
    /\ pc = "validate" => PayloadIsExact(event.payload)
    /\ "ACCEPTED" \in Range(responses) => Acceptable(event)
    /\ \A code \in Range(responses) : Reason(code, event)
    /\ route = "create_event" /\ Acceptable(event) =>
         Range(responses) \subseteq {"ACCEPTED", "INTERNAL_ERROR"}

\* The external model is called at most once for a request, for a caller the gate let
\* through, with an event that was accepted and fits.
ProviderSeesOnlyAccepted ==
  /\ provider.calls <= 1
  /\ provider.calls = 1 =>
       /\ permitted
       /\ event # NoEvent /\ Acceptable(event)
       /\ RequestBytes(event) <= MaxInputBytes

\* Nothing the provider fails with, or returns besides the exact fields, becomes an
\* analysis or a decision; a decision is made for the event that came in, under the
\* server's identity and category, so the checks of evaluate on these never deny it;
\* and an outside effect is proposed for nothing but an internal tag request.
DecisionIsGrounded ==
  result.kind \in {"analysis", "decision"} =>
    /\ provider.output # NoOutput /\ provider.output.extra = {}
    /\ Acceptable(event)
    /\ result.kind = "analysis" => result.analysis.category = classify[event.event_type]
    /\ result.kind = "decision" =>
         /\ result.decision.evidence \cap
              {"INVALID_POLICY_VERSION", "IDENTITY_MISMATCH", "CATEGORY_MISMATCH"} = {}
         /\ result.decision.action = "ADD_CONTACT_TAG" =>
              /\ event.event_type = "GHL_CONTACT_TAG_REQUEST" /\ event.source = "INTERNAL"
              /\ result.decision.decision = "REQUIRE_HUMAN_APPROVAL"
=============================================================================
