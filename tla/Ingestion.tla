----------------------------- MODULE Ingestion -----------------------------
(***************************************************************************)
(* The boundary an external event passes (models/events.py, services/      *)
(* events.py, normalization.py, canonicalization.py): validation of its    *)
(* fields, the code a refusal is answered with (api/errors.py), the time   *)
(* window, and the canonical event.                                        *)
(***************************************************************************)
EXTENDS Policy, Payload

CONSTANTS
  MAX_CANONICAL_EVENT_BYTES,
  EnvelopeBytes,               \* what a canonical event needs besides its payload
  MAX_PAST_SKEW, MAX_FUTURE_SKEW

\* 4,096 units of payload and the bounded other fields fit into 8,192.
ASSUME CanonicalAssumption ==
  /\ EnvelopeBytes \in Nat /\ MAX_CANONICAL_EVENT_BYTES \in Nat
  /\ MAX_PAST_SKEW \in Nat /\ MAX_FUTURE_SKEW \in Nat
  /\ MAX_PAYLOAD_BYTES + EnvelopeBytes <= MAX_CANONICAL_EVENT_BYTES

EventSources == {"WEB_FORM", "API", "WEBHOOK", "IMPORT", "INTERNAL"}

-----------------------------------------------------------------------------
(* ExternalEvent.  An event has its type, source, time (dated says whether *)
(* it parses; age is how long before its reception it occurred), reference *)
(* and payload; extra says that it has fields nobody asked for.            *)
(*                                                                         *)
(* A validation gives each location its verdict: FINE, or the cause of the *)
(* error there.                                                            *)

\* The fields, each validated by itself.
FieldVerdicts(event) ==
  [event_type |-> IF event.event_type \in EventTypes THEN FINE ELSE "custom",
   source |-> IF event.source \in EventSources THEN FINE ELSE "custom",
   occurred_at |-> IF event.dated THEN FINE ELSE "custom",
   external_event_reference |->
     CASE event.external_event_reference = "malformed" -> "pattern"
       [] event.external_event_reference = "credential" -> UNSAFE
       [] OTHER -> FINE,
   payload |-> IF event.payload[1].kind # "object" THEN "type" ELSE validate_payload(event.payload),
   extra |-> IF event.extra THEN "forbidden" ELSE FINE]

\* The names of the payload's own fields.
Keys(payload) == {payload[n].name : n \in Children(payload, 1)}

\* The field under a key is a well-formed identifier.
HasIdentifier(payload, key) ==
  \E n \in Children(payload, 1) : payload[n].name = key /\ payload[n].value = "identifier"

\* GHLAddContactTagParameters: exactly a contact and a tag, both well-formed.  An
\* error is located at the field of the payload.
TagParameterVerdicts(payload) ==
  LET wanted == {"contact_id", "tag"} IN
  [key \in wanted \cup Keys(payload) |->
     IF key \in wanted /\ HasIdentifier(payload, key) THEN FINE ELSE "parameter"]

\* validate_external_operation: the one event type that asks for an outside effect.
OperationVerdicts(event) ==
  IF event.event_type # "GHL_CONTACT_TAG_REQUEST" THEN [event |-> FINE]
  ELSE IF event.source # "INTERNAL" THEN [event |-> UNSAFE]
  ELSE TagParameterVerdicts(event.payload)

\* Where the errors are.
Locations(verdicts) == {loc \in DOMAIN verdicts : verdicts[loc] # FINE}

\* The model as a whole is validated when its fields are fine.
ExternalEventVerdicts(event) ==
  IF Locations(FieldVerdicts(event)) # {} THEN FieldVerdicts(event) ELSE OperationVerdicts(event)

\* Of two errors that name a cause, that of the reference comes first.
validation_error_code(verdicts) ==
  LET locations == Locations(verdicts)
      causes == {loc \in locations : verdicts[loc] \in {LIMIT, UNSAFE}}
      first == IF "external_event_reference" \in causes THEN "external_event_reference"
               ELSE CHOOSE loc \in causes : TRUE IN
  IF "event_type" \in locations THEN "UNSUPPORTED_EVENT_TYPE"
  ELSE IF "source" \in locations THEN "UNSUPPORTED_SOURCE"
  ELSE IF "occurred_at" \in locations THEN "INVALID_TIMESTAMP"
  ELSE IF causes # {}
  THEN IF verdicts[first] = LIMIT THEN "PAYLOAD_LIMIT_EXCEEDED" ELSE "UNSAFE_PAYLOAD"
  ELSE IF "payload" \in locations THEN "UNSAFE_PAYLOAD" ELSE "INVALID_EVENT"

-----------------------------------------------------------------------------
(* EventIngestionService.ingest.                                           *)

\* An event may be as old, or as far in the future, as the window.
InTime(age) == age <= MAX_PAST_SKEW /\ -age <= MAX_FUTURE_SKEW

\* CanonicalBusinessEvent validates again what ExternalEvent did.
CanonicalAccepts(event) ==
  validate_payload(event.payload) = FINE /\ Locations(OperationVerdicts(event)) = {}

canonical_event_bytes(event) == Bytes(event.payload) + EnvelopeBytes

\* The code ingest raises, or FINE.
IngestError(event) ==
  IF ~InTime(event.age) THEN "INVALID_TIMESTAMP"
  ELSE IF ~CanonicalAccepts(event) \/ canonical_event_bytes(event) > MAX_CANONICAL_EVENT_BYTES
  THEN "NORMALIZATION_ERROR" ELSE FINE

\* The canonical event and its category, both of the server's making.
ingest(event, event_id) ==
  [event_id |-> event_id, event_type |-> event.event_type, source |-> event.source,
   payload |-> event.payload, category |-> classify[event.event_type]]

-----------------------------------------------------------------------------
(* What is acceptable, said of the whole event and not step by step.       *)

\* The payload of a tag request is a contact and a tag, and nothing else.
HasTagParameters(payload) ==
  /\ Keys(payload) = {"contact_id", "tag"}
  /\ \A n \in Children(payload, 1) : payload[n].value = "identifier"

Acceptable(event) ==
  /\ event.event_type \in EventTypes /\ event.source \in EventSources
  /\ event.dated /\ ~event.extra
  /\ -MAX_FUTURE_SKEW <= event.age /\ event.age <= MAX_PAST_SKEW
  /\ event.external_event_reference \notin {"malformed", "credential"}
  /\ event.payload[1].kind = "object"
  /\ WithinLimits(event.payload) /\ Harmless(event.payload)
  /\ event.event_type = "GHL_CONTACT_TAG_REQUEST" =>
       event.source = "INTERNAL" /\ HasTagParameters(event.payload)
=============================================================================
