------------------------- MODULE MCRequestPipeline -------------------------
(***************************************************************************)
(* An instance of RequestPipeline for TLC: payloads grown level by level   *)
(* from one scalar, with harmless neighbours before and after it, around   *)
(* every limit; events that differ from a good one in up to three fields.  *)
(***************************************************************************)
EXTENDS RequestPipeline, SequencesExt

\* A value by itself, and a value put behind what an object or array holds already.
Value(kind, value) ==
  <<[kind |-> kind, value |-> value, name |-> NoName, parent |-> 0, depth |-> 0]>>

Attach(whole, part, name) ==
  whole \o [n \in DOMAIN part |->
              [part[n] EXCEPT !.depth = @ + 1,
                              !.parent = IF n = 1 THEN 1 ELSE @ + Len(whole),
                              !.name = IF n = 1 THEN name ELSE @]]

Scalar(value) == Value("scalar", value)
Array(items) ==
  FoldLeft(LAMBDA whole, item : Attach(whole, item, NoName), Value("array", "plain"), items)
Object(keys, items) ==
  FoldLeftDomain(LAMBDA whole, n : Attach(whole, items[n], keys[n]), Value("object", "plain"), items)

Plain == Scalar("plain")

\* What can hold an item: alone, or among harmless ones, under a good or a bad key.
Around(item) ==
  {Array(<<item>>), Array(<<item, Plain>>), Array(<<Plain, item>>),
   Array(<<Plain, item, Plain>>), Object(<<"a">>, <<item>>),
   Object(<<"forbidden">>, <<item>>), Object(<<"a", "b">>, <<item, Plain>>),
   Object(<<"a", "b">>, <<Plain, item>>), Object(<<"a", "b", "c">>, <<Plain, Plain, item>>)}

\* Two branches that are small each and may be too many together.
Twins(item) == {Object(<<"a", "b">>, <<item, item>>)}

Grown(items) == UNION {Around(item) \cup Twins(item) : item \in items}

Level0 == {Scalar(value) : value \in Scalars} \cup {Array(<<>>), Object(<<>>, <<>>)}
Level1 == Grown(Level0)
Level2 == Grown(Level1)
Level3 == UNION {{Object(<<"a">>, <<item>>), Object(<<"a", "b">>, <<item, Plain>>)} :
                   item \in {i \in Level2 : Len(i) <= 5}}

GoodEvent ==
  [event_type |-> "CUSTOMER_MESSAGE", source |-> "WEBHOOK", dated |-> TRUE, age |-> 0,
   external_event_reference |-> "none", payload |-> Object(<<"a">>, <<Plain>>),
   extra |-> FALSE]

\* What the payload of a tag request may look like.
TagPayloads ==
  LET id == Scalar("identifier") IN
  {Object(<<"contact_id", "tag">>, <<id, id>>), Object(<<"tag", "contact_id">>, <<id, id>>),
   Object(<<"contact_id", "tag">>, <<id, Plain>>), Object(<<"contact_id">>, <<id>>),
   Object(<<"contact_id", "source">>, <<id, id>>), Object(<<"tag", "occurred_at">>, <<id, id>>),
   Object(<<"contact_id", "event_type">>, <<id, id>>), Object(<<"payload">>, <<id>>)}

MCEvents ==
  {[GoodEvent EXCEPT !.payload = p] : p \in Level0 \cup Level1 \cup Level2 \cup Level3}
    \cup {[GoodEvent EXCEPT !.source = s, !.dated = d, !.age = a,
                            !.external_event_reference = r, !.extra = x] :
            s \in {"WEBHOOK", "unsupported"}, d \in BOOLEAN, a \in -2..3,
            r \in {"none", "valid", "malformed", "credential"}, x \in BOOLEAN}
    \cup {[GoodEvent EXCEPT !.event_type = t, !.external_event_reference = r, !.payload = p] :
            t \in {"unsupported", "SUPPORT_REQUEST"}, r \in {"none", "malformed", "credential"},
            p \in {Object(<<"a">>, <<Scalar("long")>>), Object(<<"a">>, <<Scalar("unsafe")>>),
                   Plain, GoodEvent.payload}}
    \cup {[GoodEvent EXCEPT !.event_type = "GHL_CONTACT_TAG_REQUEST", !.source = s,
                            !.age = a, !.payload = p] :
            s \in {"INTERNAL", "WEBHOOK"}, a \in {0, 3}, p \in TagPayloads}

GoodOutput ==
  [failure |-> "none", extra |-> {}, priority |-> "LOW", urgency |-> "LOW",
   intent |-> "PURCHASE", confidence |-> 85, reasons |-> 1, text |-> "plain",
   recommended_next_step |-> "NO_ACTION"]

MCOutputs ==
  {GoodOutput,
   [GoodOutput EXCEPT !.confidence = 84], [GoodOutput EXCEPT !.confidence = 101],
   [GoodOutput EXCEPT !.intent = "SUPPORT", !.priority = "HIGH"],
   [GoodOutput EXCEPT !.recommended_next_step = "ESCALATE"],
   [GoodOutput EXCEPT !.recommended_next_step = "ADD_CONTACT_TAG"],
   [GoodOutput EXCEPT !.reasons = 0], [GoodOutput EXCEPT !.reasons = 6],
   [GoodOutput EXCEPT !.extra = {"category"}], [GoodOutput EXCEPT !.text = "prohibited"],
   [GoodOutput EXCEPT !.text = "long"]}

MCDeclarations == {Absent, Invalid, 0, 2, 3}
=============================================================================
