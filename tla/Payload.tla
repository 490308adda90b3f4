------------------------------ MODULE Payload ------------------------------
(***************************************************************************)
(* The nested payload of an event (models/events.py), and its validation   *)
(* under limits on the whole of it.  Strings, numbers and field names are  *)
(* abstracted to the classes the patterns and ranges tell apart, sizes are *)
(* counted in units, and the limits are constants, so that small payloads  *)
(* exceed them.                                                            *)
(*                                                                         *)
(* A payload is the sequence of its values in the order of the document,   *)
(* each with its kind, its class, the name it has as a field, the position *)
(* of the object or array it is in (0 for the payload itself) and its      *)
(* depth.  That is the order in which the recursive visit reaches them:    *)
(* an item, then its first child with all that is in it, then the next.    *)
(***************************************************************************)
EXTENDS Integers, Sequences, FiniteSets

CONSTANTS
  MAX_PAYLOAD_BYTES, MAX_PAYLOAD_DEPTH, MAX_PAYLOAD_FIELDS, MAX_FIELDS_PER_OBJECT,
  MAX_ARRAY_ITEMS, MAX_PAYLOAD_NODES

ASSUME LimitsAssumption ==
  /\ MAX_PAYLOAD_BYTES \in Nat /\ MAX_PAYLOAD_DEPTH \in Nat /\ MAX_PAYLOAD_FIELDS \in Nat
  /\ MAX_FIELDS_PER_OBJECT \in Nat /\ MAX_ARRAY_ITEMS \in Nat /\ MAX_PAYLOAD_NODES \in Nat

LIMIT == "PayloadLimitError"
UNSAFE == "UnsafePayloadError"
FINE == "fine"

\* "plain" and "identifier" are harmless; a string is "long" or "unsafe" (it has a URL,
\* a credential, a command or a control character), a number "huge" or "nan".
Scalars == {"plain", "identifier", "long", "unsafe", "huge", "nan"}
BadKeys == {"forbidden"}   \* not a safe name, or one that stands for a capability
NoName == "no name"        \* of the payload itself and of the items of an array

\* What is in the object or array at position n.
Children(payload, n) == {m \in DOMAIN payload : payload[m].parent = n}

\* Payloads as json.loads makes them: every value lies below the last value before it
\* that is one level up, and the fields of an object have different names.
IsPayload(payload) ==
  /\ payload \in Seq([kind : {"object", "array", "scalar"}, value : Scalars, name : STRING,
                      parent : Nat, depth : Nat])
  /\ payload # <<>>
  /\ payload[1].parent = 0 /\ payload[1].depth = 0
  /\ \A n \in 2..Len(payload) :
       LET p == payload[n].parent IN
       /\ p \in 1..(n - 1) /\ payload[p].kind # "scalar"
       /\ payload[n].depth = payload[p].depth + 1
       /\ \A k \in (p + 1)..(n - 1) : payload[k].depth >= payload[n].depth
  /\ \A n \in DOMAIN payload :
       /\ payload[n].kind # "scalar" => payload[n].value = "plain"
       /\ IF n # 1 /\ payload[payload[n].parent].kind = "object"
          THEN \A m \in Children(payload, payload[n].parent) \ {n} : payload[m].name # payload[n].name
          ELSE payload[n].name = NoName

-----------------------------------------------------------------------------
(* _validate_payload.                                                      *)

\* The bytes of its JSON, in units.
Bytes(payload) ==
  Len(payload) + Cardinality({n \in DOMAIN payload : payload[n].value = "long"})

\* len(item), where it counts as a number of fields.
FieldCount(payload, n) ==
  IF payload[n].kind = "object" THEN Cardinality(Children(payload, n)) ELSE 0

ItemError(payload, n, nodes, fields) ==
  LET item == payload[n] IN
  IF \/ nodes > MAX_PAYLOAD_NODES
     \/ item.depth > MAX_PAYLOAD_DEPTH
     \/ FieldCount(payload, n) > MAX_FIELDS_PER_OBJECT
     \/ fields > MAX_PAYLOAD_FIELDS
     \/ item.kind = "array" /\ Cardinality(Children(payload, n)) > MAX_ARRAY_ITEMS
     \/ item.value \in {"long", "huge"}
  THEN LIMIT
  ELSE IF item.value = "unsafe" THEN UNSAFE ELSE FINE

Unseen == [nodes |-> 0, fields |-> 0, error |-> FINE]

\* Mutant: what visit counts is local to each field of the payload.
VisitedInBranch(payload, n, seen) ==
  LET branch == payload[n].parent = 1
      nodes == 1 + IF branch THEN 1 ELSE seen.nodes
      fields == FieldCount(payload, n) + IF branch THEN FieldCount(payload, 1) ELSE seen.fields IN
  IF seen.error # FINE THEN seen
  ELSE IF payload[n].name \in BadKeys THEN [seen EXCEPT !.error = UNSAFE]
  ELSE [nodes |-> nodes, fields |-> fields, error |-> ItemError(payload, n, nodes, fields)]

\* One call of visit, after the calls before it: it counts on where they stopped, and
\* nothing is visited after the first error.  The name of a field is looked at before
\* its value is visited.
Visited(payload, n, seen) ==
  LET nodes == seen.nodes + 1
      fields == seen.fields + FieldCount(payload, n) IN
  IF seen.error # FINE THEN seen
  ELSE IF payload[n].name \in BadKeys THEN [seen EXCEPT !.error = UNSAFE]
  ELSE [nodes |-> nodes, fields |-> fields, error |-> ItemError(payload, n, nodes, fields)]

\* The state of the walk after each item.
visit(payload) ==
  LET seen[n \in 0..Len(payload)] ==
        IF n = 0 THEN Unseen ELSE Visited(payload, n, seen[n - 1]) IN
  seen

\* _validate_payload: what cannot be serialized, what is too large, then the walk.
validate_payload(payload) ==
  IF \E n \in DOMAIN payload : payload[n].value = "nan" THEN UNSAFE
  ELSE IF Bytes(payload) > MAX_PAYLOAD_BYTES THEN LIMIT
  ELSE visit(payload)[Len(payload)].error

-----------------------------------------------------------------------------
(* What is acceptable, said of the whole payload and not step by step.     *)

\* The values that are fields of an object.
Fields(payload) ==
  {n \in DOMAIN payload \ {1} : payload[payload[n].parent].kind = "object"}

WithinLimits(payload) ==
  /\ Bytes(payload) <= MAX_PAYLOAD_BYTES
  /\ Len(payload) <= MAX_PAYLOAD_NODES
  /\ Cardinality(Fields(payload)) <= MAX_PAYLOAD_FIELDS
  /\ \A n \in DOMAIN payload :
       /\ payload[n].depth <= MAX_PAYLOAD_DEPTH
       /\ payload[n].value \notin {"long", "huge"}
       /\ payload[n].kind = "object" => Cardinality(Children(payload, n)) <= MAX_FIELDS_PER_OBJECT
       /\ payload[n].kind = "array" => Cardinality(Children(payload, n)) <= MAX_ARRAY_ITEMS

Harmless(payload) ==
  \A n \in DOMAIN payload :
    payload[n].value \notin {"unsafe", "nan"} /\ payload[n].name \notin BadKeys

\* The walk, with its counters, its order and its first error, finds what is to be said
\* of the whole.
PayloadIsExact(payload) ==
  /\ validate_payload(payload) \in {FINE, LIMIT, UNSAFE}
  /\ validate_payload(payload) = FINE <=> WithinLimits(payload) /\ Harmless(payload)
  /\ validate_payload(payload) = LIMIT => ~WithinLimits(payload)
  /\ validate_payload(payload) = UNSAFE => ~Harmless(payload)
  /\ Bytes(payload) \in Nat
=============================================================================
