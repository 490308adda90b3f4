----------------------- MODULE RequestPipeline_proofs -----------------------
(***************************************************************************)
(* The properties of one request through the pipeline, for every limit,    *)
(* every division of a body into parts, every event and every output of    *)
(* the external model; and, for every payload, what the walk through it    *)
(* computes.                                                               *)
(***************************************************************************)
EXTENDS RequestPipeline, FiniteSetTheorems, WellFoundedInduction, TLAPS

-----------------------------------------------------------------------------
(* The walk through a payload.  The provers cannot instantiate a theorem   *)
(* on induction, so induction is said of sets of numbers.                  *)

\* A set of numbers that has 0 and with every number the next has all of them.
LEMMA SetInduction ==
  ASSUME NEW S \in SUBSET Nat, 0 \in S, \A n \in S : n + 1 \in S
  PROVE  S = Nat
<1> SUFFICES ASSUME Nat \ S # {}
             PROVE  FALSE
  OBVIOUS
<1>1. PICK n \in Nat \ S : \A m \in Nat \ S : ~(<<m, n>> \in OpToRel(<, Nat))
  BY NatLessThanWellFounded, WFMin
<1>2. \A m \in Nat \ S : ~(m < n)
  BY <1>1 DEF OpToRel
<1>3. n \in Nat /\ n \notin S /\ n # 0
  BY <1>1
<1>4. n - 1 \in Nat /\ n - 1 < n /\ (n - 1) + 1 = n
  BY <1>3
<1>5. n - 1 \in S
  BY <1>2, <1>4
<1>6. QED
  BY <1>3, <1>4, <1>5

\* The walk is what its recursion says: after each item, what a call of visit makes of
\* the state before it.
LEMMA WalkIsDefined ==
  ASSUME NEW p, Len(p) \in Nat
  PROVE  /\ visit(p)[0] = Unseen
         /\ \A n \in 1..Len(p) : visit(p)[n] = Visited(p, n, visit(p)[n - 1])
<1> DEFINE Walk(g, n) == g = [k \in 0..n |-> IF k = 0 THEN Unseen ELSE Visited(p, k, g[k - 1])]
           Walked == {n \in Nat : \E g : Walk(g, n)}
<1>1. 0 \in Walked
  <2> DEFINE g == [k \in 0..0 |-> Unseen]
  <2>1. Walk(g, 0)
    OBVIOUS
  <2>2. QED
    BY <2>1
<1>2. ASSUME NEW n \in Walked
      PROVE  n + 1 \in Walked
  <2>1. n \in Nat /\ n + 1 \in Nat
    OBVIOUS
  <2>2. PICK g : Walk(g, n)
    BY <1>2
  <2> DEFINE h == [k \in 0..(n + 1) |-> IF k <= n THEN g[k] ELSE Visited(p, n + 1, g[n])]
  <2>3. ASSUME NEW k \in 0..(n + 1)
        PROVE  h[k] = IF k = 0 THEN Unseen ELSE Visited(p, k, h[k - 1])
    <3>1. CASE k = 0
      BY <2>1, <2>2, <3>1
    <3>2. CASE k # 0 /\ k <= n
      <4>1. k \in 0..n /\ k - 1 \in 0..(n + 1) /\ k - 1 <= n
        BY <2>1, <3>2
      <4>2. h[k] = g[k] /\ h[k - 1] = g[k - 1]
        BY <3>2, <4>1
      <4>3. QED
        BY <2>2, <3>2, <4>1, <4>2
    <3>3. CASE k = n + 1
      <4>1. k - 1 = n /\ k # 0 /\ ~(k <= n) /\ n \in 0..(n + 1) /\ n <= n
        BY <2>1, <3>3
      <4>2. h[k] = Visited(p, n + 1, g[n]) /\ h[n] = g[n]
        BY <4>1
      <4>3. QED
        BY <3>3, <4>1, <4>2
    <3>4. QED
      BY <2>1, <2>3, <3>1, <3>2, <3>3
  <2>4. Walk(h, n + 1)
    BY <2>3
  <2>5. QED
    BY <2>1, <2>4
<1> HIDE DEF Walk
<1>3. Walked = Nat
  BY <1>1, <1>2, SetInduction
<1>4. \E g : Walk(g, Len(p))
  BY <1>3
<1>5. visit(p) = CHOOSE g : Walk(g, Len(p))
  BY DEF visit, Walk
<1>6. Walk(visit(p), Len(p))
  BY <1>4, <1>5
<1>7. QED
  BY <1>6 DEF Walk

\* The fields of the objects among the first n items.
FieldsUpTo(p, n) == {m \in Fields(p) : p[m].parent <= n}

\* A payload is finite, and so is whatever part of it is counted.
LEMMA PartsAreFinite ==
  ASSUME NEW p, IsPayload(p), NEW S \in SUBSET DOMAIN p
  PROVE  IsFiniteSet(S) /\ Cardinality(S) \in Nat
<1>1. DOMAIN p = 1..Len(p) /\ Len(p) \in Nat
  BY DEF IsPayload
<1>2. IsFiniteSet(1..Len(p))
  BY <1>1, FS_Interval
<1>3. IsFiniteSet(S)
  BY <1>1, <1>2, FS_Subset
<1>4. QED
  BY <1>3, FS_CardinalityType

\* The shape of a payload, as the counting needs it.
LEMMA PayloadShape ==
  ASSUME NEW p, IsPayload(p)
  PROVE  /\ Len(p) \in Nat /\ Len(p) >= 1 /\ DOMAIN p = 1..Len(p)
         /\ \A n \in 1..Len(p) : p[n].parent \in Nat /\ p[n].depth \in Nat
         /\ p[1].parent = 0
         /\ \A n \in 1..Len(p) : n # 1 => p[n].parent \in 1..(n - 1)
<1> DEFINE Items == [kind : {"object", "array", "scalar"}, value : Scalars, name : STRING,
                     parent : Nat, depth : Nat]
<1>1. p \in Seq(Items) /\ p # <<>>
  BY DEF IsPayload
<1>2. \A item \in Items : item.parent \in Nat /\ item.depth \in Nat
  OBVIOUS
<1> HIDE DEF Items
<1>3. Len(p) \in Nat /\ Len(p) >= 1 /\ DOMAIN p = 1..Len(p)
  BY <1>1
<1>4. \A n \in 1..Len(p) : p[n] \in Items
  BY <1>1
<1>5. ASSUME NEW n \in 1..Len(p), n # 1
      PROVE  p[n].parent \in 1..(n - 1)
  <2>1. n \in 2..Len(p)
    BY <1>3, <1>5
  <2>2. QED
    BY <2>1 DEF IsPayload
<1>6. p[1].parent = 0
  BY DEF IsPayload
<1>7. QED
  BY <1>2, <1>3, <1>4, <1>5, <1>6

\* The fields of the first n items are those of the items before and of the last one.
LEMMA FieldsAddUp ==
  ASSUME NEW p, IsPayload(p), NEW n \in 1..Len(p)
  PROVE  /\ FieldsUpTo(p, n - 1) \subseteq Fields(p)
         /\ Cardinality(FieldsUpTo(p, n)) = Cardinality(FieldsUpTo(p, n - 1)) + FieldCount(p, n)
<1> DEFINE new == IF p[n].kind = "object" THEN Children(p, n) ELSE {}
<1>1. Fields(p) \subseteq DOMAIN p /\ Children(p, n) \subseteq DOMAIN p
  BY DEF Fields, Children
<1>2. FieldsUpTo(p, n) = FieldsUpTo(p, n - 1) \cup new
  <2>1. ASSUME NEW m \in FieldsUpTo(p, n), m \notin FieldsUpTo(p, n - 1)
        PROVE  m \in new
    <3>1. m \in Fields(p) /\ p[m].parent \in Nat /\ p[m].parent <= n /\ ~(p[m].parent <= n - 1)
      BY <1>1, <2>1, PayloadShape DEF FieldsUpTo
    <3>2. p[m].parent = n
      BY <3>1, PayloadShape
    <3>3. QED
      BY <3>1, <3>2 DEF Fields, Children
  <2>2. ASSUME NEW m \in new
        PROVE  m \in FieldsUpTo(p, n)
    <3>1. m \in Children(p, n) /\ p[n].kind = "object"
      BY <2>2
    <3>2. m \in DOMAIN p /\ p[m].parent = n /\ n \in Nat /\ n # 0
      BY <3>1, PayloadShape DEF Children
    <3>3. m # 1
      BY <3>2, PayloadShape
    <3>4. QED
      BY <3>1, <3>2, <3>3 DEF FieldsUpTo, Fields
  <2>3. ASSUME NEW m \in FieldsUpTo(p, n - 1)
        PROVE  m \in FieldsUpTo(p, n)
    <3>1. m \in Fields(p) /\ p[m].parent \in Nat /\ p[m].parent <= n - 1
      BY <1>1, <2>3, PayloadShape DEF FieldsUpTo
    <3>2. p[m].parent <= n
      BY <3>1, PayloadShape
    <3>3. QED
      BY <3>1, <3>2 DEF FieldsUpTo
  <2>4. QED
    BY <2>1, <2>2, <2>3
<1>3. FieldsUpTo(p, n - 1) \cap new = {}
  <2>1. ASSUME NEW m \in FieldsUpTo(p, n - 1), m \in Children(p, n)
        PROVE  FALSE
    <3>1. p[m].parent <= n - 1 /\ p[m].parent = n
      BY <2>1 DEF FieldsUpTo, Children
    <3>2. n \in Nat
      BY PayloadShape
    <3>3. QED
      BY <3>1, <3>2
  <2>2. QED
    BY <2>1
<1>4. FieldsUpTo(p, n - 1) \subseteq Fields(p)
  BY DEF FieldsUpTo
<1>5. FieldCount(p, n) = Cardinality(new)
  BY FS_EmptySet DEF FieldCount
<1>6. new \subseteq DOMAIN p /\ FieldsUpTo(p, n - 1) \subseteq DOMAIN p
  BY <1>1, <1>4
<1> HIDE DEF new
<1>7. /\ IsFiniteSet(new) /\ Cardinality(new) \in Nat
      /\ IsFiniteSet(FieldsUpTo(p, n - 1)) /\ Cardinality(FieldsUpTo(p, n - 1)) \in Nat
  BY <1>6, PartsAreFinite
<1>8. Cardinality(FieldsUpTo(p, n - 1) \cup new) =
        Cardinality(FieldsUpTo(p, n - 1)) + Cardinality(new) - Cardinality({})
  BY <1>3, <1>7, FS_Union
<1>9. Cardinality({}) = 0
  BY FS_EmptySet
<1>10. Cardinality(FieldsUpTo(p, n)) = Cardinality(FieldsUpTo(p, n - 1)) + Cardinality(new)
  BY <1>2, <1>7, <1>8, <1>9
<1>11. QED
  BY <1>4, <1>5, <1>10

\* No field comes before the first item, every field is that of some item, and a part of
\* the fields is not more than all.
LEMMA FieldsBounds ==
  ASSUME NEW p, IsPayload(p)
  PROVE  /\ Cardinality(FieldsUpTo(p, 0)) = 0
         /\ FieldsUpTo(p, Len(p)) = Fields(p)
         /\ Cardinality(Fields(p)) \in Nat
         /\ \A n : /\ Cardinality(FieldsUpTo(p, n)) \in Nat
                   /\ Cardinality(FieldsUpTo(p, n)) <= Cardinality(Fields(p))
<1>1. Fields(p) \subseteq DOMAIN p
  BY DEF Fields
<1>2. \A m \in Fields(p) : p[m].parent \in 1..Len(p)
  <2>1. ASSUME NEW m \in Fields(p)
        PROVE  p[m].parent \in 1..Len(p)
    <3>1. m \in 1..Len(p) /\ m # 1
      BY <1>1, PayloadShape DEF Fields
    <3>2. p[m].parent \in 1..(m - 1)
      BY <3>1, PayloadShape
    <3>3. QED
      BY <3>1, <3>2, PayloadShape
  <2>2. QED
    BY <2>1
<1>3. FieldsUpTo(p, 0) = {}
  BY <1>2 DEF FieldsUpTo
<1>4. FieldsUpTo(p, Len(p)) = Fields(p)
  BY <1>2 DEF FieldsUpTo
<1>5. IsFiniteSet(Fields(p)) /\ Cardinality(Fields(p)) \in Nat
  BY <1>1, PartsAreFinite
<1>6. ASSUME NEW n
      PROVE  /\ Cardinality(FieldsUpTo(p, n)) \in Nat
             /\ Cardinality(FieldsUpTo(p, n)) <= Cardinality(Fields(p))
  <2>1. FieldsUpTo(p, n) \in SUBSET Fields(p)
    BY DEF FieldsUpTo
  <2>2. QED
    BY <1>5, <2>1, FS_Subset, FS_CardinalityType
<1>7. QED
  BY <1>3, <1>4, <1>5, <1>6, FS_EmptySet

\* An item no error is raised at, when everything before it was counted.
ItemFine(p, n) ==
  /\ p[n].name \notin BadKeys
  /\ n <= MAX_PAYLOAD_NODES
  /\ p[n].depth <= MAX_PAYLOAD_DEPTH
  /\ FieldCount(p, n) <= MAX_FIELDS_PER_OBJECT
  /\ Cardinality(FieldsUpTo(p, n)) <= MAX_PAYLOAD_FIELDS
  /\ p[n].kind = "array" => Cardinality(Children(p, n)) <= MAX_ARRAY_ITEMS
  /\ p[n].value \notin {"long", "huge", "unsafe"}

\* What the walk knows after n items: without an error its counters are those of the
\* items it has seen, all of them fine, and an error is one of the whole payload.
WalkOK(p, n) ==
  LET seen == visit(p)[n] IN
  /\ "error" \in DOMAIN seen
  /\ seen.error \in {FINE, LIMIT, UNSAFE}
  /\ seen.error = FINE =>
       /\ seen.nodes = n
       /\ seen.fields = Cardinality(FieldsUpTo(p, n))
       /\ \A k \in 1..n : ItemFine(p, k)
  /\ seen.error = LIMIT => ~WithinLimits(p)
  /\ seen.error = UNSAFE => ~Harmless(p)

\* What an item is called wrong for is wrong with the payload, and an item that is not
\* is fine.
LEMMA ItemErrorIsTrue ==
  ASSUME NEW p, IsPayload(p), NEW n \in 1..Len(p), p[n].name \notin BadKeys
  PROVE  LET error == ItemError(p, n, n, Cardinality(FieldsUpTo(p, n))) IN
         /\ error \in {FINE, LIMIT, UNSAFE}
         /\ error = FINE => ItemFine(p, n)
         /\ error = LIMIT => ~WithinLimits(p)
         /\ error = UNSAFE => ~Harmless(p)
<1> DEFINE fields == Cardinality(FieldsUpTo(p, n))
           children == Cardinality(Children(p, n))
           over == \/ n > MAX_PAYLOAD_NODES
                   \/ p[n].depth > MAX_PAYLOAD_DEPTH
                   \/ FieldCount(p, n) > MAX_FIELDS_PER_OBJECT
                   \/ fields > MAX_PAYLOAD_FIELDS
                   \/ p[n].kind = "array" /\ children > MAX_ARRAY_ITEMS
                   \/ p[n].value \in {"long", "huge"}
<1>1. /\ n \in DOMAIN p /\ n \in Nat /\ n <= Len(p) /\ Len(p) \in Nat
      /\ p[n].depth \in Nat
  BY PayloadShape
<1>2. Children(p, n) \in SUBSET DOMAIN p
  BY DEF Children
<1>3. children \in Nat /\ fields \in Nat /\ fields <= Cardinality(Fields(p))
      /\ Cardinality(Fields(p)) \in Nat
  BY <1>2, PartsAreFinite, FieldsBounds
<1>4. FieldCount(p, n) = IF p[n].kind = "object" THEN children ELSE 0
  BY DEF FieldCount
<1>5. ItemError(p, n, n, fields) =
        IF over THEN LIMIT ELSE IF p[n].value = "unsafe" THEN UNSAFE ELSE FINE
  BY DEF ItemError
<1> HIDE DEF fields, children
<1>6. ASSUME over
      PROVE  ~WithinLimits(p)
  <2>1. CASE n > MAX_PAYLOAD_NODES
    <3>1. ~(Len(p) <= MAX_PAYLOAD_NODES)
      BY <1>1, <2>1, LimitsAssumption
    <3>2. QED
      BY <3>1 DEF WithinLimits
  <2>2. CASE p[n].depth > MAX_PAYLOAD_DEPTH
    <3>1. ~(p[n].depth <= MAX_PAYLOAD_DEPTH)
      BY <1>1, <2>2, LimitsAssumption
    <3>2. QED
      BY <1>1, <3>1 DEF WithinLimits
  <2>3. CASE FieldCount(p, n) > MAX_FIELDS_PER_OBJECT
    <3>1. p[n].kind = "object" /\ ~(children <= MAX_FIELDS_PER_OBJECT)
      BY <1>3, <1>4, <2>3, LimitsAssumption
    <3>2. QED
      BY <1>1, <3>1 DEF WithinLimits, children
  <2>4. CASE fields > MAX_PAYLOAD_FIELDS
    <3>1. ~(Cardinality(Fields(p)) <= MAX_PAYLOAD_FIELDS)
      BY <1>3, <2>4, LimitsAssumption
    <3>2. QED
      BY <3>1 DEF WithinLimits
  <2>5. CASE p[n].kind = "array" /\ children > MAX_ARRAY_ITEMS
    <3>1. ~(children <= MAX_ARRAY_ITEMS)
      BY <1>3, <2>5, LimitsAssumption
    <3>2. QED
      BY <1>1, <2>5, <3>1 DEF WithinLimits, children
  <2>6. CASE p[n].value \in {"long", "huge"}
    BY <1>1, <2>6 DEF WithinLimits
  <2>7. QED
    BY <1>6, <2>1, <2>2, <2>3, <2>4, <2>5, <2>6
<1>7. ASSUME ~over, p[n].value # "unsafe"
      PROVE  ItemFine(p, n)
  <2>1. /\ n <= MAX_PAYLOAD_NODES /\ p[n].depth <= MAX_PAYLOAD_DEPTH
        /\ FieldCount(p, n) <= MAX_FIELDS_PER_OBJECT /\ fields <= MAX_PAYLOAD_FIELDS
        /\ p[n].kind = "array" => children <= MAX_ARRAY_ITEMS
    BY <1>1, <1>3, <1>4, <1>7, LimitsAssumption
  <2>2. QED
    BY <1>7, <2>1 DEF ItemFine, fields, children
<1>8. p[n].value = "unsafe" => ~Harmless(p)
  BY <1>1 DEF Harmless
<1> HIDE DEF over
<1>9. QED
  BY <1>5, <1>6, <1>7, <1>8 DEF fields, FINE, LIMIT, UNSAFE

\* One more call of visit keeps the counters true and raises only true errors.
LEMMA WalkStep ==
  ASSUME NEW p, IsPayload(p), NEW n \in 1..Len(p), WalkOK(p, n - 1)
  PROVE  WalkOK(p, n)
<1> DEFINE before == visit(p)[n - 1]
           seen == visit(p)[n]
<1>1. seen = Visited(p, n, before)
  BY PayloadShape, WalkIsDefined
<1>2. n \in Nat /\ n \in DOMAIN p /\ n = (n - 1) + 1
  BY PayloadShape
<1>3. /\ "error" \in DOMAIN before
      /\ before.error \in {FINE, LIMIT, UNSAFE}
      /\ before.error = FINE =>
           /\ before.nodes = n - 1
           /\ before.fields = Cardinality(FieldsUpTo(p, n - 1))
           /\ \A k \in 1..(n - 1) : ItemFine(p, k)
      /\ before.error = LIMIT => ~WithinLimits(p)
      /\ before.error = UNSAFE => ~Harmless(p)
  BY DEF WalkOK
<1> HIDE DEF before
<1>4. CASE before.error # FINE
  <2>1. seen = before
    BY <1>1, <1>4 DEF Visited
  <2>2. QED
    BY <1>3, <1>4, <2>1 DEF WalkOK
<1>5. CASE before.error = FINE /\ p[n].name \in BadKeys
  <2>1. seen = [before EXCEPT !.error = UNSAFE]
    BY <1>1, <1>5 DEF Visited
  <2>2. seen.error = UNSAFE
    BY <1>3, <2>1
  <2>3. ~Harmless(p)
    BY <1>2, <1>5 DEF Harmless
  <2>4. QED
    BY <1>3, <2>1, <2>2, <2>3 DEF WalkOK, UNSAFE, FINE, LIMIT
<1>6. CASE before.error = FINE /\ p[n].name \notin BadKeys
  <2> DEFINE fields == Cardinality(FieldsUpTo(p, n))
             error == ItemError(p, n, n, fields)
  <2>1. before.nodes + 1 = n /\ before.fields + FieldCount(p, n) = fields
    BY <1>2, <1>3, <1>6, FieldsAddUp
  <2>2. seen = [nodes |-> n, fields |-> fields, error |-> error]
    BY <1>1, <1>6, <2>1 DEF Visited
  <2>3. /\ error \in {FINE, LIMIT, UNSAFE}
        /\ error = FINE => ItemFine(p, n)
        /\ error = LIMIT => ~WithinLimits(p)
        /\ error = UNSAFE => ~Harmless(p)
    BY <1>6, ItemErrorIsTrue
  <2> HIDE DEF error
  <2>4. \A k \in 1..n : k \in 1..(n - 1) \/ k = n
    BY <1>2
  <2>5. error = FINE => \A k \in 1..n : ItemFine(p, k)
    BY <1>3, <1>6, <2>3, <2>4
  <2>6. QED
    BY <2>2, <2>3, <2>5 DEF WalkOK
<1>7. QED
  BY <1>4, <1>5, <1>6

\* The validation of the payload of an event, for every payload and every limit: visit,
\* with counters that all its calls share and an end at its first error, accepts exactly
\* what is within the limits as a whole and harmless, and the error it raises is true.
THEOREM PayloadWalkIsExact ==
  ASSUME NEW p, IsPayload(p)
  PROVE  PayloadIsExact(p)
<1> DEFINE last == visit(p)[Len(p)].error
           Walked == {n \in Nat : n <= Len(p) => WalkOK(p, n)}
<1>1. Len(p) \in Nat /\ Len(p) >= 1 /\ DOMAIN p = 1..Len(p)
  BY PayloadShape
<1>2. 0 \in Walked
  <2>1. visit(p)[0] = Unseen
    BY <1>1, WalkIsDefined
  <2>2. Cardinality(FieldsUpTo(p, 0)) = 0
    BY FieldsBounds
  <2>3. WalkOK(p, 0)
    BY <2>1, <2>2 DEF WalkOK, Unseen, FINE, LIMIT, UNSAFE
  <2>4. QED
    BY <2>3
<1>3. ASSUME NEW n \in Walked
      PROVE  n + 1 \in Walked
  <2>1. n \in Nat /\ n + 1 \in Nat /\ (n + 1) - 1 = n
    OBVIOUS
  <2>2. ASSUME n + 1 <= Len(p)
        PROVE  WalkOK(p, n + 1)
    <3>1. n + 1 \in 1..Len(p) /\ n <= Len(p)
      BY <1>1, <2>1, <2>2
    <3>2. WalkOK(p, (n + 1) - 1)
      BY <1>3, <2>1, <3>1
    <3>3. QED
      BY <3>1, <3>2, WalkStep
  <2>3. QED
    BY <2>1, <2>2
<1>4. WalkOK(p, Len(p))
  <2>1. Walked = Nat
    BY <1>2, <1>3, SetInduction
  <2>2. QED
    BY <1>1, <2>1
<1>5. /\ last \in {FINE, LIMIT, UNSAFE}
      /\ last = FINE => \A k \in 1..Len(p) : ItemFine(p, k)
      /\ last = LIMIT => ~WithinLimits(p)
      /\ last = UNSAFE => ~Harmless(p)
  BY <1>4 DEF WalkOK
<1> HIDE DEF last
<1>6. Bytes(p) \in Nat
  <2>1. {n \in DOMAIN p : p[n].value = "long"} \in SUBSET DOMAIN p
    OBVIOUS
  <2>2. Cardinality({n \in DOMAIN p : p[n].value = "long"}) \in Nat
    BY <2>1, PartsAreFinite
  <2>3. QED
    BY <1>1, <2>2 DEF Bytes
<1>7. validate_payload(p) = IF \E n \in DOMAIN p : p[n].value = "nan" THEN UNSAFE
                            ELSE IF Bytes(p) > MAX_PAYLOAD_BYTES THEN LIMIT ELSE last
  BY DEF validate_payload, last
<1>8. CASE \E n \in DOMAIN p : p[n].value = "nan"
  <2>1. ~Harmless(p)
    BY <1>8 DEF Harmless
  <2>2. QED
    BY <1>6, <1>7, <1>8, <2>1 DEF PayloadIsExact, FINE, LIMIT, UNSAFE
<1>9. CASE (\A n \in DOMAIN p : p[n].value # "nan") /\ Bytes(p) > MAX_PAYLOAD_BYTES
  <2>1. ~WithinLimits(p)
    BY <1>6, <1>9, LimitsAssumption DEF WithinLimits
  <2>2. QED
    BY <1>6, <1>7, <1>9, <2>1 DEF PayloadIsExact, FINE, LIMIT, UNSAFE
<1>10. CASE (\A n \in DOMAIN p : p[n].value # "nan") /\ ~(Bytes(p) > MAX_PAYLOAD_BYTES)
  <2>1. Bytes(p) <= MAX_PAYLOAD_BYTES
    BY <1>6, <1>10, LimitsAssumption
  <2>2. ASSUME last = FINE
        PROVE  WithinLimits(p) /\ Harmless(p)
    <3>1. \A k \in 1..Len(p) : ItemFine(p, k)
      BY <1>5, <2>2
    <3>2. Len(p) \in 1..Len(p)
      BY <1>1
    <3>3. Len(p) <= MAX_PAYLOAD_NODES /\ Cardinality(Fields(p)) <= MAX_PAYLOAD_FIELDS
      BY <3>1, <3>2, FieldsBounds DEF ItemFine
    <3>4. WithinLimits(p)
      BY <1>1, <2>1, <3>1, <3>3 DEF WithinLimits, ItemFine, FieldCount
    <3>5. Harmless(p)
      BY <1>1, <1>10, <3>1 DEF Harmless, ItemFine
    <3>6. QED
      BY <3>4, <3>5
  <2>3. validate_payload(p) = last
    BY <1>7, <1>10
  <2>4. QED
    BY <1>5, <1>6, <2>2, <2>3 DEF PayloadIsExact
<1>11. QED
  BY <1>8, <1>9, <1>10

\* The events of a request came out of a parser, so that their payloads are payloads.
LEMMA PayloadsExact ==
  ASSUME NEW e \in Events
  PROVE  IsPayload(e.payload) /\ PayloadIsExact(e.payload)
<1>1. IsPayload(e.payload)
  BY InputsAssumption
<1>2. QED
  BY <1>1, PayloadWalkIsExact

-----------------------------------------------------------------------------
(* The codes of responses.                                                 *)

SuccessCodes == {"OK", "ACCEPTED"}
ValidationCodes == {"UNSUPPORTED_EVENT_TYPE", "UNSUPPORTED_SOURCE", "INVALID_TIMESTAMP",
                    "PAYLOAD_LIMIT_EXCEEDED", "UNSAFE_PAYLOAD", "INVALID_EVENT"}
OtherCodes == {"INVALID_REQUEST", "HTTP_ERROR_400", "AUTHENTICATION_FAILED",
               "AUTHORIZATION_DENIED", "REQUEST_TOO_LARGE", "NORMALIZATION_ERROR",
               "RATE_LIMITED", "INTERNAL_ERROR", "AI_UNAVAILABLE", "HTTP_ERROR_503"}
FailureCodes == ValidationCodes \cup OtherCodes \cup ProviderFailures

\* The status of each code.
LEMMA Statuses ==
  /\ StatusOf("OK") = 200 /\ StatusOf("ACCEPTED") = 202
  /\ StatusOf("INVALID_REQUEST") = 400 /\ StatusOf("HTTP_ERROR_400") = 400
  /\ StatusOf("AUTHENTICATION_FAILED") = 401 /\ StatusOf("AUTHORIZATION_DENIED") = 403
  /\ StatusOf("REQUEST_TOO_LARGE") = 413 /\ StatusOf("INVALID_EVENT") = 422
  /\ StatusOf("UNSUPPORTED_EVENT_TYPE") = 422 /\ StatusOf("UNSUPPORTED_SOURCE") = 422
  /\ StatusOf("INVALID_TIMESTAMP") = 422 /\ StatusOf("PAYLOAD_LIMIT_EXCEEDED") = 422
  /\ StatusOf("UNSAFE_PAYLOAD") = 422 /\ StatusOf("NORMALIZATION_ERROR") = 422
  /\ StatusOf("RATE_LIMITED") = 429 /\ StatusOf("INTERNAL_ERROR") = 500
  /\ StatusOf("AI_INVALID_OUTPUT") = 502 /\ StatusOf("AI_TIMEOUT") = 504
  /\ StatusOf("AI_RATE_LIMIT") = 503 /\ StatusOf("AI_AUTHENTICATION") = 503
  /\ StatusOf("AI_PROVIDER_ERROR") = 503 /\ StatusOf("AI_CONFIGURATION") = 503
  /\ StatusOf("AI_UNAVAILABLE") = 503 /\ StatusOf("HTTP_ERROR_503") = 503
BY DEF StatusOf

\* The handlers of api/errors.py answer every refusal with a status of 400 or more.
LEMMA StatusOfFailure ==
  ASSUME NEW code \in FailureCodes
  PROVE  StatusOf(code) \in Nat /\ StatusOf(code) >= 400
<1>1. CASE code \in ValidationCodes
  BY <1>1, Statuses DEF ValidationCodes
<1>2. CASE code \in OtherCodes
  BY <1>2, Statuses DEF OtherCodes
<1>3. CASE code \in ProviderFailures
  BY <1>3, Statuses DEF ProviderFailures
<1>4. QED
  BY <1>1, <1>2, <1>3 DEF FailureCodes

\* A result is answered with 200 or 202.
LEMMA StatusOfSuccess ==
  ASSUME NEW code \in SuccessCodes
  PROVE  StatusOf(code) \in Nat /\ StatusOf(code) < 400
BY Statuses DEF SuccessCodes

\* The codes of the validation handler and of ingest.
LEMMA CodesOfRefusals ==
  ASSUME NEW verdicts, NEW e
  PROVE  /\ validation_error_code(verdicts) \in ValidationCodes
         /\ IngestError(e) \in {FINE, "INVALID_TIMESTAMP", "NORMALIZATION_ERROR"}
BY DEF validation_error_code, ValidationCodes, IngestError

-----------------------------------------------------------------------------
(* The invariant.                                                          *)

InApplication == {"parse", "gate", "dependencies", "validate", "handle", "provider"}
Waiting == {"arrived", "receiving"} \cup InApplication
Sending == {"send_start", "send_body"}
Over == {"finally", "done"}
Analyses == {"analyze_event", "decide_event"}

\* The types, as far as the arguments need them.
TypesOK ==
  /\ pc \in Waiting \cup Sending \cup Over
  /\ route \in Routes
  /\ client \in [declared : Declarations, sent : Nat]
  /\ event \in Events \cup {NoEvent}
  /\ provider = [calls |-> provider.calls, output |-> provider.output]
  /\ provider.calls \in {0, 1}
  /\ connection = [start |-> connection.start, whole |-> connection.whole,
                   faults |-> connection.faults]
  /\ connection.whole \in BOOLEAN

\* What is buffered is what was sent, and the application is given all of it or nothing.
BodyOK ==
  /\ body \in Nat /\ body = client.sent
  /\ given \in {NoBody, body}
  /\ pc \in {"arrived", "receiving"} => given = NoBody /\ body <= MaxBytes
  /\ pc \in InApplication => given # NoBody
  /\ given # NoBody => body <= MaxBytes
  /\ \E part \in PartSizes : body <= MaxBytes + part
  /\ "REQUEST_TOO_LARGE" \in Range(responses) =>
       client.declared > MaxBytes \/ client.sent > MaxBytes

\* What was answered, the status that was noted and the result: nothing, one response,
\* or a second one after a send of the first raised.
Untouched == [start |-> "none", whole |-> FALSE, faults |-> {}]
Unanswered == responses = <<>> /\ status = 500 /\ result = NoResult
Refused(code) == code \in FailureCodes /\ result = NoResult
Served(code) ==
  /\ code \in SuccessCodes /\ result.kind # "none"
  /\ given # NoBody /\ "send" \notin connection.faults
AnsweredOnce ==
  \E code : /\ responses = <<code>> /\ status = StatusOf(code)
            /\ Refused(code) \/ Served(code)
            /\ pc \in Sending => "send" \notin connection.faults
AnsweredTwice ==
  \E code : /\ responses = <<code, "INTERNAL_ERROR">> /\ status = 500
            /\ code \in FailureCodes \cup SuccessCodes
            /\ "send" \in connection.faults

AnswerOK ==
  /\ pc \in Waiting => Unanswered /\ connection = Untouched
  /\ pc \in Sending => AnsweredOnce \/ AnsweredTwice
  /\ pc \in Over => Unanswered \/ AnsweredOnce \/ AnsweredTwice
  /\ pc # "done" => completions = <<>>
  /\ pc = "done" => completions = <<IF status < 400 THEN "success" ELSE "failure">>

\* What the server took is what was begun last, and all of it unless something went wrong.
ConnectionOK ==
  /\ pc \in Waiting \cup Sending => ~connection.whole
  /\ pc = "send_body" => connection.start = Current
  /\ connection.whole => responses # <<>> /\ connection.start = Current
  /\ pc \in Over /\ connection.faults = {} => connection.whole

\* ExternalEvent finds no error.
Valid(e) == Locations(ExternalEventVerdicts(e)) = {}

\* How far a request has come tells what it has passed.
AdmissionOK ==
  /\ pc \in {"arrived", "receiving", "parse"} => event = NoEvent
  /\ pc = "gate" => route \in Protected
  /\ pc \in {"dependencies", "validate", "handle", "provider"} /\ route \in Protected =>
       permitted
  /\ pc \in {"dependencies", "validate"} => route \in TakesEvent
  /\ pc \in {"handle", "provider"} /\ route \in TakesEvent => event # NoEvent /\ Valid(event)
  /\ pc \in Waiting \ {"provider"} => provider.calls = 0
  /\ pc = "provider" => provider.calls = 1
  /\ provider.calls = 1 =>
       /\ route \in Analyses /\ permitted
       /\ event # NoEvent /\ Valid(event) /\ IngestError(event) = FINE
       /\ ~(RequestBytes(event) > MaxInputBytes)

\* An analysis is what BusinessIntelligenceResult makes of a valid output, and a decision
\* is decide's on it.
GroundOK ==
  LET canonical == ingest(event, EventId)
      analysis == BusinessIntelligenceResult(provider.output, canonical) IN
  result.kind \in {"analysis", "decision"} =>
    /\ provider.calls = 1 /\ provider.output \in Outputs /\ ValidOutput(provider.output)
    /\ result = IF result.kind = "analysis" THEN [kind |-> "analysis", analysis |-> analysis]
                ELSE [kind |-> "decision",
                      decision |-> decide([event |-> canonical, intelligence |-> analysis])]

PipelineInv == TypesOK /\ BodyOK /\ AnswerOK /\ ConnectionOK /\ AdmissionOK /\ GroundOK

-----------------------------------------------------------------------------
(* What a step can do to the answer.                                       *)

Refuses == \E code \in FailureCodes :
             pc \in Waiting /\ Respond(code) /\ UNCHANGED <<result, connection, completions>>
Serves == \E code \in SuccessCodes :
            /\ pc \in InApplication /\ Respond(code) /\ result'.kind # "none"
            /\ UNCHANGED <<given, connection, completions>>
Proceeds == /\ pc \in Waiting /\ pc' \in Waiting
            /\ UNCHANGED <<status, responses, result, connection, completions>>
Abandons == \E fault \in {"disconnect", "cancel"} :
              /\ pc \in Waiting \cup Sending /\ pc' = "finally"
              /\ connection' = [connection EXCEPT !.faults = @ \cup {fault}]
              /\ UNCHANGED <<given, status, responses, result, completions>>
Sends == SendStart \/ SendBody \/ SendFails

\* Each handler refuses, serves, goes on, gives up, sends or records.
LEMMA StepKinds ==
  ASSUME PipelineNext
  PROVE  Refuses \/ Serves \/ Proceeds \/ Abandons \/ Sends \/ Complete
<1> USE DEF Waiting, InApplication
<1>1. ASSUME NEW code, code \in ValidationCodes \cup OtherCodes \cup ProviderFailures,
             pc \in Waiting, Respond(code), UNCHANGED <<result, connection, completions>>
      PROVE  Refuses
  BY <1>1 DEF Refuses, FailureCodes
<1>2. CASE CheckDeclaration
  <2>1. \/ Respond("INVALID_REQUEST") \/ Respond("REQUEST_TOO_LARGE")
        \/ pc' = "receiving" /\ UNCHANGED <<status, responses>>
    BY <1>2 DEF CheckDeclaration
  <2>2. pc = "arrived" /\ UNCHANGED <<result, connection, completions>>
    BY <1>2 DEF CheckDeclaration
  <2>3. QED
    BY <1>1, <2>1, <2>2 DEF OtherCodes, Proceeds
<1>3. ASSUME NEW size, NEW more \in BOOLEAN, Receive(size, more)
      PROVE  Refuses \/ Proceeds
  <2>1. \/ Respond("REQUEST_TOO_LARGE")
        \/ pc' \in {"receiving", "parse"} /\ UNCHANGED <<status, responses>>
    BY <1>3 DEF Receive
  <2>2. pc = "receiving" /\ UNCHANGED <<result, connection, completions>>
    BY <1>3 DEF Receive
  <2>3. QED
    BY <1>1, <2>1, <2>2 DEF OtherCodes, Proceeds
<1>4. CASE Disconnect \/ Cancelled
  BY <1>4 DEF Disconnect, Cancelled, Abandons, Sending
<1>5. CASE Parse
  BY <1>1, <1>5 DEF Parse, AfterParse, ValidationCodes, OtherCodes, Proceeds
<1>6. CASE Gate
  BY <1>1, <1>6 DEF Gate, GateRefusals, OtherCodes, Proceeds
<1>7. CASE Validate
  BY <1>1, <1>7, CodesOfRefusals DEF Validate, Proceeds
<1>8. CASE HandleStatus
  BY <1>1, <1>8 DEF HandleStatus, Return, OtherCodes, SuccessCodes, Serves
<1>9. CASE HandleCreate
  <2>1. \/ IngestError(event) # FINE /\ Respond(IngestError(event)) /\ UNCHANGED result
        \/ Respond("ACCEPTED") /\ result'.kind = "acknowledgement"
    BY <1>9 DEF HandleCreate, Return
  <2>2. pc = "handle" /\ UNCHANGED <<given, connection, completions>>
    BY <1>9 DEF HandleCreate
  <2>3. IngestError(event) # FINE => IngestError(event) \in ValidationCodes \cup OtherCodes
    BY CodesOfRefusals DEF ValidationCodes, OtherCodes
  <2>4. QED
    BY <1>1, <2>1, <2>2, <2>3 DEF Serves, SuccessCodes
<1>10. CASE HandleAnalysis
  <2>1. \/ IngestError(event) # FINE /\ Respond(IngestError(event))
        \/ Respond("AI_UNAVAILABLE")
        \/ pc' = "provider" /\ UNCHANGED <<status, responses>>
    BY <1>10 DEF HandleAnalysis
  <2>2. pc = "handle" /\ UNCHANGED <<result, connection, completions>>
    BY <1>10 DEF HandleAnalysis
  <2>3. IngestError(event) # FINE => IngestError(event) \in ValidationCodes \cup OtherCodes
    BY CodesOfRefusals DEF ValidationCodes, OtherCodes
  <2>4. QED
    BY <1>1, <2>1, <2>2, <2>3 DEF OtherCodes, Proceeds
<1>11. ASSUME NEW code \in ProviderFailures, ProviderFails(code)
       PROVE  Refuses
  BY <1>1, <1>11 DEF ProviderFails
<1>12. ASSUME NEW output \in Outputs, ProviderReturns(output)
       PROVE  Refuses \/ Serves
  <2>1. \/ Respond("AI_INVALID_OUTPUT") /\ UNCHANGED result
        \/ Respond("OK") /\ result'.kind \in {"analysis", "decision"}
    BY <1>12 DEF ProviderReturns, Return
  <2>2. pc = "provider" /\ UNCHANGED <<given, connection, completions>>
    BY <1>12 DEF ProviderReturns
  <2>3. QED
    BY <1>1, <2>1, <2>2 DEF ProviderFailures, Serves, SuccessCodes
<1>13. CASE ApplicationFails
  BY <1>1, <1>13 DEF ApplicationFails, OtherCodes
<1>14. CASE Dependencies
  BY <1>14 DEF Dependencies, Proceeds
<1>15. CASE SendStart \/ SendBody \/ SendFails
  BY <1>15 DEF Sends
<1>16. QED
  BY <1>2, <1>3, <1>4, <1>5, <1>6, <1>7, <1>8, <1>9, <1>10, <1>11, <1>12, <1>13, <1>14, <1>15
     DEF PipelineNext

\* One response, and the first.
LEMMA FirstResponse ==
  ASSUME NEW code, responses = <<>>, Respond(code)
  PROVE  responses' = <<code>> /\ status' = StatusOf(code) /\ pc' = "send_start"
<1>1. responses' = Append(<<>>, code)
  BY Zenon DEF Respond
<1>2. <<>> \in Seq({code})
  OBVIOUS
<1>3. QED
  BY <1>1, <1>2 DEF Respond

\* A response that SafeExceptionMiddleware begins after a first one is the second.
LEMMA AppendedToOne ==
  ASSUME NEW a, NEW b
  PROVE  Append(<<a>>, b) = <<a, b>>
<1> DEFINE t == Append(<<a>>, b)
<1>1. t \in Seq({a, b}) /\ Len(t) = 2 /\ t[1] = a /\ t[2] = b
  OBVIOUS
<1> HIDE DEF t
<1>2. t = <<a, b>>
  BY <1>1
<1>3. QED
  BY <1>2 DEF t

\* A send of the second response is not guarded, nor one of SafeExceptionMiddleware's
\* or RequestBodyLimitMiddleware's own: what is left unguarded is never a result.
LEMMA SendFailsKinds ==
  ASSUME TypesOK, AnswerOK, SendFails
  PROVE  \/ /\ pc' = "finally" /\ UNCHANGED <<status, responses>>
            /\ (\E code : responses = <<code>> /\ status = StatusOf(code) /\ Refused(code))
                  \/ AnsweredTwice
         \/ /\ \E code \in FailureCodes \cup SuccessCodes : responses = <<code>>
            /\ Respond("INTERNAL_ERROR")
<1>1. pc \in Sending /\ (AnsweredOnce \/ AnsweredTwice)
  BY DEF SendFails, AnswerOK, Sending
<1>2. CASE AnsweredTwice
  <2>1. Current = "INTERNAL_ERROR"
    BY <1>2 DEF AnsweredTwice, Current
  <2>2. ~Guarded
    BY <2>1 DEF Guarded
  <2>3. QED
    BY <1>2, <2>2 DEF SendFails
<1>3. CASE AnsweredOnce
  <2>1. PICK code : /\ responses = <<code>> /\ status = StatusOf(code)
                    /\ Refused(code) \/ Served(code)
    BY <1>3 DEF AnsweredOnce
  <2>2. Current = code
    BY <2>1 DEF Current
  <2>3. CASE Guarded
    BY <2>1, <2>3 DEF SendFails, Refused, Served
  <2>4. CASE ~Guarded
    <3>1. given = NoBody \/ code = "INTERNAL_ERROR"
      BY <2>2, <2>4 DEF Guarded
    <3>2. Refused(code)
      BY <2>1, <3>1 DEF Served, SuccessCodes
    <3>3. QED
      BY <2>1, <2>4, <3>2 DEF SendFails
  <2>5. QED
    BY <2>3, <2>4
<1>4. QED
  BY <1>1, <1>2, <1>3

\* A send that raises adds INTERNAL_ERROR to what was answered, or nothing.
LEMMA SendFailsAdds ==
  ASSUME TypesOK, AnswerOK, SendFails
  PROVE  \A code \in Range(responses') : code \in Range(responses) \cup {"INTERNAL_ERROR"}
<1>1. CASE UNCHANGED responses
  BY <1>1 DEF Range
<1>2. ASSUME NEW code, responses = <<code>>, Respond("INTERNAL_ERROR")
      PROVE  \A c \in Range(responses') : c \in Range(responses) \cup {"INTERNAL_ERROR"}
  <2>1. responses' = Append(<<code>>, "INTERNAL_ERROR")
    BY <1>2, Zenon DEF Respond
  <2>2. responses' = <<code, "INTERNAL_ERROR">>
    BY <2>1, AppendedToOne
  <2>3. Range(responses') = {code, "INTERNAL_ERROR"} /\ Range(responses) = {code}
    BY <1>2, <2>2 DEF Range
  <2>4. QED
    BY <2>3
<1>3. QED
  BY <1>1, <1>2, SendFailsKinds

\* The answer and its record are kept in step by whatever happens.
LEMMA AnswerStep ==
  ASSUME TypesOK, AnswerOK, BodyOK, PipelineNext
  PROVE  AnswerOK'
<1> USE DEF Waiting, Sending, Over, InApplication
<1>1. CASE Refuses
  <2>1. PICK code \in FailureCodes :
             pc \in Waiting /\ Respond(code) /\ UNCHANGED <<result, connection, completions>>
    BY <1>1 DEF Refuses
  <2>2. responses = <<>> /\ result = NoResult /\ completions = <<>> /\ connection = Untouched
    BY <2>1 DEF AnswerOK, Unanswered
  <2>3. /\ responses' = <<code>> /\ status' = StatusOf(code) /\ pc' = "send_start"
        /\ result' = NoResult /\ completions' = <<>> /\ connection' = Untouched
    BY <2>1, <2>2, FirstResponse
  <2>4. "send" \notin connection'.faults
    BY <2>3 DEF Untouched
  <2>5. AnsweredOnce'
    BY <2>3, <2>4 DEF AnsweredOnce, Refused
  <2>6. QED
    BY <2>3, <2>5 DEF AnswerOK
<1>2. CASE Serves
  <2>1. PICK code \in SuccessCodes :
             /\ pc \in InApplication /\ Respond(code) /\ result'.kind # "none"
             /\ UNCHANGED <<given, connection, completions>>
    BY <1>2 DEF Serves
  <2>2. responses = <<>> /\ completions = <<>> /\ connection = Untouched /\ given # NoBody
    BY <2>1 DEF AnswerOK, Unanswered, BodyOK
  <2>3. /\ responses' = <<code>> /\ status' = StatusOf(code) /\ pc' = "send_start"
        /\ completions' = <<>> /\ connection' = Untouched
    BY <2>1, <2>2, FirstResponse
  <2>4. "send" \notin connection'.faults
    BY <2>3 DEF Untouched
  <2>5. Served(code)'
    BY <2>1, <2>2, <2>4 DEF Served
  <2>6. AnsweredOnce'
    BY <2>3, <2>4, <2>5 DEF AnsweredOnce
  <2>7. QED
    BY <2>3, <2>6 DEF AnswerOK
<1>3. CASE Proceeds
  BY <1>3 DEF Proceeds, AnswerOK, Unanswered
<1>4. ASSUME NEW faults, connection'.faults = faults,
             "send" \in faults <=> "send" \in connection.faults,
             pc \in Sending, UNCHANGED <<given, status, responses, result, completions>>,
             pc' \in {"send_body", "finally"}
      PROVE  AnswerOK'
  <2>1. (AnsweredOnce \/ AnsweredTwice) /\ completions = <<>>
    BY <1>4 DEF AnswerOK
  <2>2. AnsweredOnce => AnsweredOnce'
    BY <1>4 DEF AnsweredOnce, Refused, Served
  <2>3. AnsweredTwice => AnsweredTwice'
    BY <1>4 DEF AnsweredTwice
  <2>4. QED
    BY <1>4, <2>1, <2>2, <2>3 DEF AnswerOK
<1>5. CASE Abandons
  <2>1. PICK fault \in {"disconnect", "cancel"} :
              /\ pc \in Waiting \cup Sending /\ pc' = "finally"
              /\ connection' = [connection EXCEPT !.faults = @ \cup {fault}]
              /\ UNCHANGED <<given, status, responses, result, completions>>
    BY <1>5 DEF Abandons
  <2>2. connection'.faults = connection.faults \cup {fault}
    BY <2>1 DEF TypesOK
  <2>3. CASE pc \in Waiting
    BY <2>1, <2>3 DEF AnswerOK, Unanswered
  <2>4. CASE pc \in Sending
    BY <1>4, <2>1, <2>2, <2>4
  <2>5. QED
    BY <2>1, <2>3, <2>4
<1>6. CASE SendStart \/ SendBody
  <2>1. /\ pc \in Sending /\ pc' \in {"send_body", "finally"}
        /\ UNCHANGED <<given, status, responses, result, completions>>
    BY <1>6 DEF SendStart, SendBody
  <2>2. connection'.faults = connection.faults
    BY <1>6 DEF SendStart, SendBody, TypesOK
  <2>3. QED
    BY <1>4, <2>1, <2>2
<1>7. CASE SendFails
  <2>1. /\ connection'.faults = connection.faults \cup {"send"}
        /\ completions' = <<>> /\ UNCHANGED <<given, result>>
    BY <1>7 DEF SendFails, TypesOK, AnswerOK
  <2>2. CASE /\ pc' = "finally" /\ UNCHANGED <<status, responses>>
             /\ \E code : responses = <<code>> /\ status = StatusOf(code) /\ Refused(code)
    BY <2>1, <2>2 DEF AnswerOK, AnsweredOnce, Refused
  <2>3. CASE pc' = "finally" /\ UNCHANGED <<status, responses>> /\ AnsweredTwice
    BY <2>1, <2>3 DEF AnswerOK, AnsweredTwice
  <2>4. ASSUME NEW code \in FailureCodes \cup SuccessCodes, responses = <<code>>,
               Respond("INTERNAL_ERROR")
        PROVE  AnswerOK'
    <3>1. responses' = Append(<<code>>, "INTERNAL_ERROR")
      BY <2>4, Zenon DEF Respond
    <3>2. Append(<<code>>, "INTERNAL_ERROR") = <<code, "INTERNAL_ERROR">>
      BY AppendedToOne
    <3>3. responses' = <<code, "INTERNAL_ERROR">>
      BY <3>1, <3>2
    <3>4. status' = 500 /\ pc' = "send_start"
      BY <2>4, Statuses DEF Respond
    <3>5. QED
      BY <2>1, <3>3, <3>4 DEF AnswerOK, AnsweredTwice
  <2>5. QED
    BY <1>7, <2>2, <2>3, <2>4, SendFailsKinds
<1>8. CASE Complete
  <2>1. /\ pc = "finally" /\ pc' = "done" /\ completions = <<>>
        /\ completions' = <<IF status < 400 THEN "success" ELSE "failure">>
        /\ UNCHANGED <<given, result, status, responses, connection>>
    BY <1>8 DEF Complete, AnswerOK
  <2>2. QED
    BY <2>1 DEF AnswerOK, Unanswered, AnsweredOnce, AnsweredTwice, Refused, Served
<1>9. QED
  BY <1>1, <1>2, <1>3, <1>5, <1>6, <1>7, <1>8, StepKinds DEF Sends

\* The server is never handed a body it has not taken the start of.
LEMMA ConnectionStep ==
  ASSUME TypesOK, AnswerOK, ConnectionOK, PipelineNext
  PROVE  ConnectionOK'
<1> USE DEF Waiting, Sending, Over, InApplication
<1>1. CASE Refuses \/ Serves \/ Proceeds
  <2>1. /\ pc \in Waiting /\ pc' \in Waiting \cup {"send_start"} /\ UNCHANGED connection
    BY <1>1 DEF Refuses, Serves, Proceeds, Respond
  <2>2. QED
    BY <2>1 DEF ConnectionOK
<1>2. CASE Abandons
  <2>1. PICK fault \in {"disconnect", "cancel"} :
              /\ pc \in Waiting \cup Sending /\ pc' = "finally"
              /\ connection' = [connection EXCEPT !.faults = @ \cup {fault}]
    BY <1>2 DEF Abandons
  <2>2. fault \in connection'.faults /\ connection'.whole = connection.whole
    BY <2>1 DEF TypesOK
  <2>3. QED
    BY <2>1, <2>2 DEF ConnectionOK
<1>3. CASE SendStart
  <2>1. /\ pc' = "send_body" /\ UNCHANGED responses
        /\ connection'.start = Current /\ connection'.whole = connection.whole
    BY <1>3 DEF SendStart, TypesOK
  <2>2. Current' = Current /\ ~connection.whole
    BY <1>3, <2>1 DEF SendStart, Current, ConnectionOK
  <2>3. QED
    BY <2>1, <2>2 DEF ConnectionOK
<1>4. CASE SendBody
  <2>1. /\ pc = "send_body" /\ pc' = "finally" /\ UNCHANGED responses
        /\ connection'.start = connection.start /\ connection'.whole
    BY <1>4 DEF SendBody, TypesOK
  <2>2. Current' = Current /\ connection.start = Current
    BY <2>1 DEF Current, ConnectionOK
  <2>3. responses # <<>>
    BY <2>1 DEF AnswerOK, AnsweredOnce, AnsweredTwice
  <2>4. QED
    BY <2>1, <2>2, <2>3 DEF ConnectionOK
<1>5. CASE SendFails
  <2>1. /\ pc' \in {"finally", "send_start"} /\ pc \in Sending
        /\ connection'.whole = connection.whole /\ "send" \in connection'.faults
    BY <1>5 DEF SendFails, Respond, TypesOK
  <2>2. QED
    BY <2>1 DEF ConnectionOK
<1>6. CASE Complete
  <2>1. pc = "finally" /\ pc' = "done" /\ UNCHANGED <<responses, connection>>
    BY <1>6 DEF Complete
  <2>2. QED
    BY <2>1 DEF ConnectionOK, Current
<1>7. QED
  BY <1>1, <1>2, <1>3, <1>4, <1>5, <1>6, StepKinds DEF Sends

-----------------------------------------------------------------------------
(* The other parts of the invariant.                                       *)

\* Types are kept; who refuses with "too large" measured the body or its declaration.
LEMMA TypesStep ==
  ASSUME TypesOK, AdmissionOK, PipelineNext
  PROVE  TypesOK'
<1> USE DEF Waiting, Sending, Over, InApplication
<1>1. /\ pc' \in Waiting \cup Sending \cup Over
      /\ connection' = [start |-> connection'.start, whole |-> connection'.whole,
                        faults |-> connection'.faults]
      /\ connection'.whole \in BOOLEAN
  <2>1. CASE Refuses \/ Serves \/ Proceeds \/ Complete
    <3>1. pc' \in Waiting \cup Sending \cup Over /\ UNCHANGED connection
      BY <2>1 DEF Refuses, Serves, Respond, Proceeds, Complete
    <3>2. QED
      BY <3>1 DEF TypesOK
  <2>2. CASE Abandons
    BY <2>2 DEF Abandons, TypesOK
  <2>3. CASE SendStart \/ SendBody
    BY <2>3 DEF SendStart, SendBody, TypesOK
  <2>4. CASE SendFails
    BY <2>4 DEF SendFails, Respond, TypesOK
  <2>5. QED
    BY <2>1, <2>2, <2>3, <2>4, StepKinds DEF Sends
<1>2. CASE UNCHANGED <<route, client, event, provider>>
  BY <1>1, <1>2 DEF TypesOK
<1>3. ASSUME NEW size \in PartSizes, NEW more \in BOOLEAN, Receive(size, more)
      PROVE  TypesOK'
  <2>1. client' = [client EXCEPT !.sent = @ + size] /\ UNCHANGED <<route, event, provider>>
    BY <1>3 DEF Receive
  <2>2. client' \in [declared : Declarations, sent : Nat]
    BY <2>1, PipelineBoundsAssumption DEF TypesOK
  <2>3. QED
    BY <1>1, <2>1, <2>2 DEF TypesOK
<1>4. CASE Parse
  BY <1>1, <1>4 DEF Parse, TypesOK
<1>5. CASE HandleAnalysis
  <2>1. provider.calls = 0
    BY <1>5 DEF HandleAnalysis, AdmissionOK
  <2>2. \/ UNCHANGED provider
        \/ provider' = [provider EXCEPT !.calls = @ + 1]
    BY <1>5 DEF HandleAnalysis
  <2>3. provider' = [calls |-> provider'.calls, output |-> provider'.output]
        /\ provider'.calls \in {0, 1}
    BY <2>1, <2>2 DEF TypesOK
  <2>4. UNCHANGED <<route, client, event>>
    BY <1>5 DEF HandleAnalysis
  <2>5. QED
    BY <1>1, <2>3, <2>4 DEF TypesOK
<1>6. ASSUME NEW output, provider' = [provider EXCEPT !.output = output],
             UNCHANGED <<route, client, event>>
      PROVE  TypesOK'
  BY <1>1, <1>6 DEF TypesOK
<1>7. ASSUME NEW code, ProviderFails(code)
      PROVE  TypesOK'
  BY <1>6, <1>7 DEF ProviderFails
<1>8. ASSUME NEW output, ProviderReturns(output)
      PROVE  TypesOK'
  BY <1>6, <1>8 DEF ProviderReturns
<1>9. CASE CheckDeclaration \/ Disconnect \/ Cancelled \/ Gate \/ Validate \/ Complete
  BY <1>2, <1>9 DEF CheckDeclaration, Disconnect, Cancelled, Gate, Validate, Complete
<1>10. CASE HandleStatus \/ HandleCreate \/ ApplicationFails
  BY <1>2, <1>10 DEF HandleStatus, HandleCreate, ApplicationFails
<1>11. CASE Dependencies \/ SendStart \/ SendBody \/ SendFails
  BY <1>2, <1>11 DEF Dependencies, SendStart, SendBody, SendFails
<1>12. QED
  BY <1>3, <1>4, <1>5, <1>7, <1>8, <1>9, <1>10, <1>11 DEF PipelineNext

\* Nobody but RequestBodyLimitMiddleware answers that a request is too large.
LEMMA OnlyTheLimiterSaysTooLarge ==
  ASSUME AnswerOK, PipelineNext, pc \in InApplication
  PROVE  "REQUEST_TOO_LARGE" \notin Range(responses')
<1> DEFINE TL == "REQUEST_TOO_LARGE"
<1>1. responses = <<>>
  BY DEF AnswerOK, Waiting, Unanswered
<1>2. ASSUME NEW code, Respond(code), code # TL
      PROVE  TL \notin Range(responses')
  <2>1. responses' = <<code>>
    BY <1>1, <1>2, FirstResponse
  <2>2. QED
    BY <1>2, <2>1 DEF Range
<1>3. ASSUME UNCHANGED responses
      PROVE  TL \notin Range(responses')
  BY <1>1, <1>3 DEF Range
<1>4. CASE Parse
  BY <1>2, <1>3, <1>4 DEF Parse
<1>5. CASE Gate
  BY <1>2, <1>3, <1>5 DEF Gate, GateRefusals
<1>6. CASE Validate
  <2>1. \A v : validation_error_code(v) # TL
    BY CodesOfRefusals DEF ValidationCodes
  <2>2. QED
    BY <1>2, <1>3, <1>6, <2>1 DEF Validate
<1>7. CASE HandleStatus \/ HandleCreate \/ HandleAnalysis
  <2>1. IngestError(event) # TL
    BY CodesOfRefusals DEF FINE
  <2>2. QED
    BY <1>2, <1>3, <1>7, <2>1 DEF HandleStatus, HandleCreate, HandleAnalysis, Return
<1>8. ASSUME NEW code \in ProviderFailures, ProviderFails(code)
      PROVE  TL \notin Range(responses')
  BY <1>2, <1>8 DEF ProviderFails, ProviderFailures
<1>9. ASSUME NEW output, ProviderReturns(output)
      PROVE  TL \notin Range(responses')
  BY <1>2, <1>9 DEF ProviderReturns, Return
<1>10. CASE ApplicationFails
  BY <1>2, <1>10 DEF ApplicationFails
<1>11. CASE Cancelled \/ Dependencies
  BY <1>3, <1>11 DEF Cancelled, Dependencies
<1>12. QED
  BY <1>4, <1>5, <1>6, <1>7, <1>8, <1>9, <1>10, <1>11
     DEF PipelineNext, CheckDeclaration, Receive, Disconnect, SendStart, SendBody, SendFails,
         Complete, InApplication

\* The body is measured part by part and handed on whole.
LEMMA BodyStep ==
  ASSUME TypesOK, BodyOK, AnswerOK, PipelineNext
  PROVE  BodyOK'
<1> USE DEF Waiting, Sending, Over, InApplication
<1>1. ASSUME UNCHANGED <<client, body, given>>, pc' \notin {"arrived", "receiving"},
             pc' \in InApplication => given # NoBody,
             "REQUEST_TOO_LARGE" \in Range(responses') =>
               client.declared > MaxBytes \/ client.sent > MaxBytes
      PROVE  BodyOK'
  BY <1>1 DEF BodyOK
<1>2. client.declared \in Int /\ client.sent \in Nat /\ MaxBytes \in Nat
  BY PipelineBoundsAssumption DEF TypesOK
<1>3. CASE CheckDeclaration
  <2>1. responses = <<>> /\ UNCHANGED <<client, body, given>>
    BY <1>3 DEF CheckDeclaration, AnswerOK, Unanswered
  <2>2. CASE pc' = "receiving" /\ UNCHANGED responses
    BY <1>3, <2>1, <2>2 DEF BodyOK, CheckDeclaration
  <2>3. CASE Respond("INVALID_REQUEST")
    <3>1. responses' = <<"INVALID_REQUEST">> /\ pc' = "send_start"
      BY <2>1, <2>3, FirstResponse
    <3>2. "REQUEST_TOO_LARGE" \notin Range(responses')
      BY <3>1 DEF Range
    <3>3. QED
      BY <1>1, <2>1, <3>1, <3>2
  <2>4. CASE TooLarge(client.declared) /\ Respond("REQUEST_TOO_LARGE")
    BY <1>1, <2>1, <2>4 DEF TooLarge, Respond
  <2>5. QED
    BY <1>3, <2>2, <2>3, <2>4 DEF CheckDeclaration
<1>4. ASSUME NEW size \in PartSizes, NEW more \in BOOLEAN, Receive(size, more)
      PROVE  BodyOK'
  <2>1. size \in Nat /\ body \in Nat /\ body <= MaxBytes
    BY <1>4, PipelineBoundsAssumption DEF Receive, BodyOK
  <2>2. /\ body' = body + size /\ client' = [client EXCEPT !.sent = @ + size]
        /\ body = client.sent /\ responses = <<>> /\ given = NoBody
    BY <1>4 DEF Receive, BodyOK, AnswerOK, Unanswered
  <2>3. /\ body' \in Nat /\ body' = client'.sent /\ body' <= MaxBytes + size
        /\ client'.declared = client.declared
    BY <1>2, <2>1, <2>2 DEF TypesOK
  <2>4. CASE TooLarge(body')
    <3>1. pc' = "send_start" /\ UNCHANGED given
      BY <1>4, <2>4 DEF Receive, Respond
    <3>2. client'.sent > MaxBytes
      BY <2>3, <2>4 DEF TooLarge
    <3>3. QED
      BY <2>2, <2>3, <3>1, <3>2 DEF BodyOK
  <2>5. CASE ~TooLarge(body')
    <3>1. /\ pc' \in {"receiving", "parse"} /\ UNCHANGED responses
          /\ given' = IF more THEN NoBody ELSE body'
          /\ pc' = IF more THEN "receiving" ELSE "parse"
      BY <1>4, <2>5 DEF Receive
    <3>2. body' <= MaxBytes
      BY <1>2, <2>3, <2>5 DEF TooLarge
    <3>3. "REQUEST_TOO_LARGE" \notin Range(responses')
      BY <2>2, <3>1 DEF Range
    <3>4. body' # NoBody
      BY <2>3 DEF NoBody
    <3>5. QED
      BY <2>3, <3>1, <3>2, <3>3, <3>4 DEF BodyOK
  <2>6. QED
    BY <2>4, <2>5
<1>5. CASE Disconnect \/ (Cancelled /\ pc \notin InApplication) \/ SendStart \/ SendBody \/ Complete
  <2>1. UNCHANGED <<client, body, given, responses>> /\ pc' \in Sending \cup Over
    BY <1>5 DEF Disconnect, Cancelled, SendStart, SendBody, Complete
  <2>2. QED
    BY <1>1, <2>1 DEF BodyOK
<1>6. CASE pc \in InApplication
  <2>1. "REQUEST_TOO_LARGE" \notin Range(responses')
    BY <1>6, OnlyTheLimiterSaysTooLarge
  <2>2. /\ UNCHANGED <<client, body, given>> /\ given # NoBody
        /\ pc' \notin {"arrived", "receiving"}
    BY <1>6 DEF BodyOK, PipelineNext, CheckDeclaration, Receive, Disconnect, Parse, AfterParse,
                Gate, Dependencies, SendStart, SendBody, SendFails, Validate, HandleStatus, HandleCreate, HandleAnalysis, ProviderFails,
                ProviderReturns, ApplicationFails, Cancelled, Complete, Respond, Return
  <2>3. QED
    BY <1>1, <2>1, <2>2
<1>7. CASE SendFails
  <2>1. UNCHANGED <<client, body, given>> /\ pc' \in Sending \cup Over
    BY <1>7 DEF SendFails, Respond
  <2>2. "REQUEST_TOO_LARGE" \in Range(responses') => "REQUEST_TOO_LARGE" \in Range(responses)
    BY <1>7, SendFailsAdds
  <2>3. QED
    BY <1>1, <2>1, <2>2 DEF BodyOK
<1>8. QED
  BY <1>3, <1>4, <1>5, <1>6, <1>7
     DEF PipelineNext, Parse, Gate, Dependencies, Validate, HandleStatus, HandleCreate, HandleAnalysis,
         ProviderFails, ProviderReturns, ApplicationFails, Cancelled

\* A request that ends, or only moves on, keeps what it has passed.
LEMMA AdmissionEnds ==
  ASSUME AdmissionOK, pc' \in Sending \cup Over, UNCHANGED <<route, event>>,
         provider'.calls = provider.calls, permitted => permitted'
  PROVE  AdmissionOK'
BY DEF AdmissionOK, Waiting, InApplication, Sending, Over

\* A request goes on only past a body, a gate, a validation and an ingestion.
LEMMA AdmissionStep ==
  ASSUME TypesOK, AdmissionOK, PipelineNext
  PROVE  AdmissionOK'
<1> USE DEF Waiting, Sending, Over, InApplication
<1> HIDE DEF Valid, RequestBytes
<1>1. CASE CheckDeclaration
  <2>1. /\ pc' \in {"receiving", "send_start"} /\ pc = "arrived"
        /\ UNCHANGED <<route, event, provider, permitted>>
    BY <1>1 DEF CheckDeclaration, Respond
  <2>2. QED
    BY <2>1 DEF AdmissionOK
<1>2. ASSUME NEW size, NEW more \in BOOLEAN, Receive(size, more)
      PROVE  AdmissionOK'
  <2>1. /\ pc' \in {"receiving", "parse", "send_start"} /\ pc = "receiving"
        /\ UNCHANGED <<route, event, provider, permitted>>
    BY <1>2 DEF Receive, Respond
  <2>2. QED
    BY <2>1 DEF AdmissionOK
<1>3. CASE Parse
  <2>1. pc = "parse" /\ provider.calls = 0 /\ event = NoEvent /\ UNCHANGED <<route, provider, permitted>>
    BY <1>3 DEF Parse, AdmissionOK
  <2>2. CASE pc' = AfterParse
    BY <2>1, <2>2, <1>3 DEF AfterParse, AdmissionOK, Parse, Protected, TakesEvent
  <2>3. CASE pc' = "send_start" /\ UNCHANGED event
    BY <2>1, <2>3, AdmissionEnds
  <2>4. QED
    BY <1>3, <2>2, <2>3 DEF Parse, Respond
<1>4. CASE Gate
  <2>1. /\ pc = "gate" /\ route \in Protected /\ provider.calls = 0
        /\ UNCHANGED <<route, event, provider>>
    BY <1>4 DEF Gate, AdmissionOK
  <2>2. CASE permitted' = TRUE /\ pc' = IF route \in TakesEvent THEN "dependencies" ELSE "handle"
    BY <2>1, <2>2 DEF AdmissionOK
  <2>3. CASE pc' = "send_start" /\ UNCHANGED permitted
    BY <2>1, <2>3, AdmissionEnds
  <2>4. QED
    BY <1>4, <2>2, <2>3 DEF Gate, Respond
<1>5. CASE Validate
  <2>1. /\ pc = "validate" /\ route \in TakesEvent /\ provider.calls = 0
        /\ UNCHANGED <<route, event, provider, permitted>>
    BY <1>5 DEF Validate, AdmissionOK
  <2>2. CASE pc' = "send_start"
    BY <2>1, <2>2, AdmissionEnds
  <2>3. CASE pc' # "send_start"
    <3> DEFINE verdicts == IF event = NoEvent THEN [body |-> "type"]
                           ELSE ExternalEventVerdicts(event)
    <3>1. Locations(verdicts) = {} /\ pc' = "handle"
      BY <1>5, <2>3 DEF Validate, Respond
    <3>2. event # NoEvent
      <4>1. "body" \in Locations([body |-> "type"])
        BY DEF Locations, FINE
      <4>2. QED
        BY <3>1, <4>1
    <3>3. Valid(event)
      BY <3>1, <3>2 DEF Valid
    <3>4. QED
      BY <2>1, <3>1, <3>2, <3>3 DEF AdmissionOK
  <2>4. QED
    BY <2>2, <2>3
<1>6. CASE HandleAnalysis
  <2>1. /\ pc = "handle" /\ route \in Analyses /\ provider.calls = 0
        /\ UNCHANGED <<route, event, permitted>>
    BY <1>6 DEF HandleAnalysis, AdmissionOK, Analyses
  <2>2. CASE pc' = "send_start" /\ UNCHANGED provider
    BY <2>1, <2>2, AdmissionEnds
  <2>3. CASE /\ pc' = "provider" /\ provider' = [provider EXCEPT !.calls = @ + 1]
             /\ IngestError(event) = FINE /\ ~(RequestBytes(event) > MaxInputBytes)
    <3>1. provider'.calls = 1
      BY <2>1, <2>3 DEF TypesOK
    <3>2. permitted /\ event # NoEvent /\ Valid(event)
      BY <2>1 DEF AdmissionOK, Analyses, Protected, TakesEvent
    <3>3. QED
      BY <2>1, <2>3, <3>1, <3>2 DEF AdmissionOK
  <2>4. QED
    BY <1>6, <2>2, <2>3 DEF HandleAnalysis, Respond
<1>7. ASSUME NEW output, provider' = [provider EXCEPT !.output = output], pc' = "send_start",
             UNCHANGED <<route, event, permitted>>
      PROVE  AdmissionOK'
  <2>1. provider'.calls = provider.calls
    BY <1>7 DEF TypesOK
  <2>2. QED
    BY <1>7, <2>1, AdmissionEnds
<1>8. ASSUME NEW code, ProviderFails(code)
      PROVE  AdmissionOK'
  BY <1>7, <1>8 DEF ProviderFails, Respond
<1>9. ASSUME NEW output, ProviderReturns(output)
      PROVE  AdmissionOK'
  BY <1>7, <1>9 DEF ProviderReturns, Respond, Return
<1>10. CASE HandleStatus \/ HandleCreate \/ ApplicationFails \/ Disconnect \/ Cancelled
              \/ SendStart \/ SendBody \/ SendFails \/ Complete
  <2>1. pc' \in Sending \cup Over /\ UNCHANGED <<route, event, provider, permitted>>
    BY <1>10 DEF HandleStatus, HandleCreate, ApplicationFails, Disconnect, Cancelled,
                 SendStart, SendBody, SendFails, Complete, Respond, Return
  <2>2. QED
    BY <2>1, AdmissionEnds
<1>11. CASE Dependencies
  <2>1. /\ pc = "dependencies" /\ pc' = "validate"
        /\ UNCHANGED <<route, event, provider, permitted>>
    BY <1>11 DEF Dependencies
  <2>2. QED
    BY <2>1 DEF AdmissionOK
<1>12. QED
  BY <1>1, <1>2, <1>3, <1>4, <1>5, <1>6, <1>8, <1>9, <1>10, <1>11 DEF PipelineNext

\* Only what the provider returned, validated, becomes an analysis or a decision.
LEMMA GroundStep ==
  ASSUME TypesOK, AnswerOK, AdmissionOK, GroundOK, PipelineNext
  PROVE  GroundOK'
<1> USE DEF Waiting, Over, InApplication
<1> HIDE DEF ValidOutput, decide, BusinessIntelligenceResult, ingest
<1>1. ASSUME result' = NoResult
      PROVE  GroundOK'
  BY <1>1 DEF GroundOK, NoResult
<1>2. ASSUME NEW kind \in {"status", "acknowledgement"}, result'.kind = kind
      PROVE  GroundOK'
  BY <1>2 DEF GroundOK
<1>3. ASSUME pc \in Waiting, UNCHANGED result
      PROVE  GroundOK'
  BY <1>1, <1>3 DEF AnswerOK, Unanswered
<1>4. CASE SendStart \/ SendBody \/ SendFails \/ Complete \/ (Cancelled /\ pc \notin Waiting)
  <2>1. UNCHANGED <<event, provider, result>>
    BY <1>4 DEF SendStart, SendBody, SendFails, Complete, Cancelled
  <2>2. QED
    BY <2>1 DEF GroundOK
<1>5. CASE CheckDeclaration \/ Disconnect \/ (Cancelled /\ pc \in Waiting) \/ Parse \/ Gate
             \/ Dependencies \/ Validate \/ HandleAnalysis
  BY <1>3, <1>5 DEF CheckDeclaration, Disconnect, Cancelled, Parse, Gate, Dependencies, Validate,
                    HandleAnalysis
<1>6. ASSUME NEW size, NEW more, Receive(size, more)
      PROVE  GroundOK'
  BY <1>3, <1>6 DEF Receive
<1>7. ASSUME NEW code, ProviderFails(code)
      PROVE  GroundOK'
  BY <1>3, <1>7 DEF ProviderFails
<1>8. CASE ApplicationFails
  BY <1>3, <1>8 DEF ApplicationFails
<1>9. CASE HandleStatus
  BY <1>2, <1>3, <1>9 DEF HandleStatus, Return
<1>10. CASE HandleCreate
  <2>1. pc = "handle" /\ (UNCHANGED result \/ result'.kind = "acknowledgement")
    BY <1>10 DEF HandleCreate, Return
  <2>2. QED
    BY <1>2, <1>3, <2>1
<1>11. ASSUME NEW output \in Outputs, ProviderReturns(output)
       PROVE  GroundOK'
  <2> DEFINE canonical == ingest(event, EventId)
             analysis == BusinessIntelligenceResult(output, canonical)
  <2>1. /\ pc = "provider" /\ UNCHANGED event
        /\ provider' = [provider EXCEPT !.output = output]
    BY <1>11 DEF ProviderReturns
  <2>2. provider'.calls = 1 /\ provider'.output = output
    BY <2>1 DEF TypesOK, AdmissionOK
  <2>3. \/ UNCHANGED result
        \/ /\ ValidOutput(output)
           /\ \/ result' = [kind |-> "analysis", analysis |-> analysis]
              \/ result' = [kind |-> "decision",
                            decision |-> decide([event |-> canonical, intelligence |-> analysis])]
    BY <1>11 DEF ProviderReturns, Return
  <2>4. ingest(event', EventId) = canonical
    BY <2>1
  <2>5. BusinessIntelligenceResult(provider'.output, canonical) = analysis
    BY <2>2
  <2>6. QED
    BY <1>3, <2>1, <2>2, <2>3, <2>4, <2>5 DEF GroundOK
<1>12. QED
  BY <1>4, <1>5, <1>6, <1>7, <1>8, <1>9, <1>10, <1>11 DEF PipelineNext

\* create_app's pipeline starts with an untouched request.
LEMMA PipelineInvInit == PipelineInit => PipelineInv
<1> SUFFICES ASSUME PipelineInit PROVE PipelineInv
  OBVIOUS
<1>1. TypesOK
  BY DEF PipelineInit, TypesOK, Waiting
<1>2. BodyOK
  <2>1. PICK part \in PartSizes : part \in Nat
    BY PipelineBoundsAssumption
  <2>2. body <= MaxBytes + part
    BY <2>1, PipelineBoundsAssumption DEF PipelineInit
  <2>3. QED
    BY <2>2, PipelineBoundsAssumption DEF PipelineInit, BodyOK, Range, InApplication
<1>3. AnswerOK
  BY DEF PipelineInit, AnswerOK, Unanswered, Untouched, Sending, Over, Waiting, InApplication
<1>4. AdmissionOK
  BY DEF PipelineInit, AdmissionOK
<1>5. GroundOK
  BY DEF PipelineInit, GroundOK, NoResult
<1>6. ConnectionOK
  BY DEF PipelineInit, ConnectionOK, Over
<1>7. QED
  BY <1>1, <1>2, <1>3, <1>4, <1>5, <1>6 DEF PipelineInv

\* Every step keeps the invariant.
LEMMA PipelineInvStep ==
  ASSUME PipelineInv, [PipelineNext]_vars
  PROVE  PipelineInv'
<1>1. CASE PipelineNext
  BY <1>1, TypesStep, BodyStep, AnswerStep, ConnectionStep, AdmissionStep, GroundStep DEF PipelineInv
<1>2. CASE UNCHANGED vars
  <2>1. TypesOK' /\ AdmissionOK'
    BY <1>2 DEF vars, PipelineInv, TypesOK, AdmissionOK
  <2>2. BodyOK'
    BY <1>2 DEF vars, PipelineInv, BodyOK
  <2>3. AnswerOK'
    BY <1>2 DEF vars, PipelineInv, AnswerOK, Unanswered, AnsweredOnce, AnsweredTwice, Refused,
                Served
  <2>4. GroundOK'
    BY <1>2 DEF vars, PipelineInv, GroundOK
  <2>5. ConnectionOK'
    BY <1>2 DEF vars, PipelineInv, ConnectionOK, Current
  <2>6. QED
    BY <2>1, <2>2, <2>3, <2>4, <2>5 DEF PipelineInv
<1>3. QED
  BY <1>1, <1>2

\* The inductive invariant of the pipeline: what a request has passed, how much of its
\* body is where, and what its answer stands on.
THEOREM PipelineInvariant == PipelineSpec => []PipelineInv
<1>1. PipelineInv /\ [PipelineNext]_vars => PipelineInv'
  BY PipelineInvStep
<1>2. QED
  BY <1>1, PipelineInvInit, PTL DEF PipelineSpec

-----------------------------------------------------------------------------
(* The middlewares.                                                        *)

\* One completion record for every request, whoever vanishes, cancels or fails at any
\* await; it is truthful of every response the server took whole, and a second response
\* is begun only after a send raised.
THEOREM EveryRequestIsRecorded == PipelineSpec => []AnsweredAndRecorded
<1>1. ASSUME PipelineInv
      PROVE  AnsweredAndRecorded
  <2> USE DEF Waiting, Sending, Over, InApplication
  <2>1. AnswerOK /\ ConnectionOK /\ pc \in Waiting \cup Sending \cup Over
    BY <1>1 DEF PipelineInv, TypesOK
  <2>2. pc = "done" /\ connection.faults = {} => connection.whole
    BY <2>1 DEF ConnectionOK
  <2>3. CASE Unanswered
    <3>1. responses = <<>> /\ status = 500 /\ result = NoResult /\ ~connection.whole
      BY <2>1, <2>3 DEF Unanswered, ConnectionOK
    <3>2. pc = "done" => completions = <<"failure">>
      BY <2>1, <3>1 DEF AnswerOK
    <3>3. QED
      BY <2>2, <3>1, <3>2 DEF AnsweredAndRecorded
  <2>4. CASE AnsweredOnce
    <3>1. PICK code : /\ responses = <<code>> /\ status = StatusOf(code)
                      /\ Refused(code) \/ Served(code)
      BY <2>4 DEF AnsweredOnce
    <3>2. connection.whole => connection.start = code
      BY <2>1, <3>1 DEF ConnectionOK, Current
    <3>3. status < 400 <=> result # NoResult /\ "send" \notin connection.faults
      <4>1. CASE Refused(code)
        BY <3>1, <4>1, StatusOfFailure DEF Refused
      <4>2. CASE Served(code)
        BY <3>1, <4>2, StatusOfSuccess DEF Served, NoResult
      <4>3. QED
        BY <3>1, <4>1, <4>2
    <3>4. pc = "done" => completions = <<IF status < 400 THEN "success" ELSE "failure">>
      BY <2>1 DEF AnswerOK
    <3>5. Len(responses) = 1
      BY <3>1
    <3>6. pc = "done" => /\ Len(completions) = 1
                         /\ completions[1] = "success" <=> status < 400
      BY <3>4
    <3>7. QED
      BY <2>2, <3>1, <3>2, <3>3, <3>5, <3>6 DEF AnsweredAndRecorded
  <2>5. CASE AnsweredTwice
    <3>1. PICK code : /\ responses = <<code, "INTERNAL_ERROR">> /\ status = 500
                      /\ "send" \in connection.faults
      BY <2>5 DEF AnsweredTwice
    <3>2. connection.whole => StatusOf(connection.start) = 500
      BY <2>1, <3>1, Statuses DEF ConnectionOK, Current
    <3>3. pc = "done" => completions = <<"failure">>
      BY <2>1, <3>1 DEF AnswerOK
    <3>4. QED
      BY <2>2, <3>1, <3>2, <3>3 DEF AnsweredAndRecorded
  <2>6. QED
    BY <2>1, <2>3, <2>4, <2>5 DEF AnswerOK
<1>2. QED
  BY <1>1, PipelineInvariant, PTL

\* The application gets the whole body or nothing, within the limit; too large is said
\* only of what is; one part at most is buffered beyond the limit.
THEOREM BodiesAreWhole == PipelineSpec => []BodyIsWhole
<1>1. PipelineInv => BodyIsWhole
  BY DEF PipelineInv, BodyOK, BodyIsWhole
<1>2. QED
  BY <1>1, PipelineInvariant, PTL

-----------------------------------------------------------------------------
(* What is accepted.                                                       *)

\* The fields of ExternalEvent are fine exactly when each of them is.
LEMMA FieldsFine ==
  ASSUME NEW e
  PROVE  Locations(FieldVerdicts(e)) = {} <=>
           /\ e.event_type \in EventTypes /\ e.source \in EventSources
           /\ e.dated /\ ~e.extra
           /\ e.external_event_reference \notin {"malformed", "credential"}
           /\ e.payload[1].kind = "object" /\ validate_payload(e.payload) = FINE
<1> DEFINE V == FieldVerdicts(e)
<1>1. DOMAIN V = {"event_type", "source", "occurred_at", "external_event_reference", "payload",
                  "extra"}
  BY DEF FieldVerdicts
<1>2. /\ V["event_type"] = FINE <=> e.event_type \in EventTypes
      /\ V["source"] = FINE <=> e.source \in EventSources
      /\ V["occurred_at"] = FINE <=> e.dated
      /\ V["extra"] = FINE <=> ~e.extra
  BY DEF FieldVerdicts, FINE
<1>3. V["payload"] = FINE <=> e.payload[1].kind = "object" /\ validate_payload(e.payload) = FINE
  BY DEF FieldVerdicts, FINE
<1>4. V["external_event_reference"] = FINE <=>
        e.external_event_reference \notin {"malformed", "credential"}
  BY DEF FieldVerdicts, FINE, UNSAFE
<1> HIDE DEF V
<1>5. Locations(V) = {} <=> \A loc \in DOMAIN V : V[loc] = FINE
  BY DEF Locations
<1>6. QED
  BY <1>1, <1>2, <1>3, <1>4, <1>5 DEF V

\* GHLAddContactTagParameters accepts exactly a contact and a tag, both identifiers.
LEMMA ParametersFine ==
  ASSUME NEW payload, IsPayload(payload)
  PROVE  Locations(TagParameterVerdicts(payload)) = {} <=>
           /\ Keys(payload) = {"contact_id", "tag"}
           /\ \A n \in Children(payload, 1) : payload[n].value = "identifier"
<1> DEFINE wanted == {"contact_id", "tag"}
           fields == Children(payload, 1)
           V == TagParameterVerdicts(payload)
<1>1. DOMAIN V = wanted \cup Keys(payload)
  BY DEF TagParameterVerdicts
<1>2. ASSUME NEW key \in DOMAIN V
      PROVE  V[key] = FINE <=> key \in wanted /\ HasIdentifier(payload, key)
  BY <1>1, <1>2 DEF TagParameterVerdicts, FINE
<1> HIDE DEF V
<1>3. Locations(V) = {} <=>
        \A key \in wanted \cup Keys(payload) : key \in wanted /\ HasIdentifier(payload, key)
  BY <1>1, <1>2 DEF Locations
<1>4. \A key : HasIdentifier(payload, key) => key \in Keys(payload)
  BY DEF HasIdentifier, Keys
<1>5. ASSUME NEW n \in fields, NEW m \in fields, payload[m].name = payload[n].name,
             payload[n].name \in wanted
      PROVE  m = n
  <2>1. n \in DOMAIN payload /\ payload[n].parent = 1 /\ n # 1
    BY PayloadShape DEF Children
  <2>2. payload[1].kind = "object"
    BY <1>5, <2>1 DEF IsPayload, NoName
  <2>3. QED
    BY <1>5, <2>1, <2>2 DEF IsPayload
<1>6. ASSUME NEW n \in fields, payload[n].name \in wanted
      PROVE  HasIdentifier(payload, payload[n].name) <=> payload[n].value = "identifier"
  BY <1>5, <1>6 DEF HasIdentifier
<1>7. \A key \in Keys(payload) : \E n \in fields : payload[n].name = key
  BY DEF Keys
<1>8. \A n \in fields : payload[n].name \in Keys(payload)
  BY DEF Keys
<1> HIDE DEF fields
<1>9. QED
  BY <1>3, <1>4, <1>6, <1>7, <1>8 DEF V, fields

\* validate_external_operation, said of the event.
LEMMA OperationFine ==
  ASSUME NEW e \in Events
  PROVE  Locations(OperationVerdicts(e)) = {} <=>
           (e.event_type = "GHL_CONTACT_TAG_REQUEST" =>
              /\ e.source = "INTERNAL"
              /\ Keys(e.payload) = {"contact_id", "tag"}
              /\ \A n \in Children(e.payload, 1) : e.payload[n].value = "identifier")
<1>1. Locations([event |-> FINE]) = {} /\ Locations([event |-> UNSAFE]) # {}
  <2>1. "event" \in Locations([event |-> UNSAFE])
    BY DEF Locations, FINE, UNSAFE
  <2>2. QED
    BY <2>1 DEF Locations
<1>2. IsPayload(e.payload)
  BY InputsAssumption
<1>3. QED
  BY <1>1, <1>2, ParametersFine DEF OperationVerdicts

\* What ExternalEvent and ingest let through together is what is acceptable, and ingest
\* refuses nothing that ExternalEvent found valid but an event out of its time.
LEMMA AcceptedIsAcceptable ==
  ASSUME NEW e \in Events
  PROVE  /\ Acceptable(e) <=> Valid(e) /\ InTime(e.age)
         /\ Valid(e) => IngestError(e) = IF InTime(e.age) THEN FINE ELSE "INVALID_TIMESTAMP"
         /\ InTime(e.age) <=> -MAX_FUTURE_SKEW <= e.age /\ e.age <= MAX_PAST_SKEW
<1>1. InTime(e.age) <=> -MAX_FUTURE_SKEW <= e.age /\ e.age <= MAX_PAST_SKEW
  BY InputsAssumption, CanonicalAssumption DEF InTime
<1>2. Valid(e) <=> Locations(FieldVerdicts(e)) = {} /\ Locations(OperationVerdicts(e)) = {}
  BY DEF Valid, ExternalEventVerdicts
<1>3. validate_payload(e.payload) = FINE <=>
        WithinLimits(e.payload) /\ Harmless(e.payload)
  BY PayloadsExact DEF PayloadIsExact
<1>4. Acceptable(e) <=> Valid(e) /\ InTime(e.age)
  BY <1>1, <1>2, <1>3, FieldsFine, OperationFine DEF Acceptable, HasTagParameters
<1>5. ASSUME Valid(e)
      PROVE  CanonicalAccepts(e) /\ ~(canonical_event_bytes(e) > MAX_CANONICAL_EVENT_BYTES)
  <2>1. validate_payload(e.payload) = FINE /\ CanonicalAccepts(e)
    BY <1>2, <1>5, FieldsFine DEF CanonicalAccepts
  <2>2. Bytes(e.payload) \in Nat /\ Bytes(e.payload) <= MAX_PAYLOAD_BYTES
    BY <1>3, <2>1, PayloadsExact DEF PayloadIsExact, WithinLimits
  <2>3. ~(canonical_event_bytes(e) > MAX_CANONICAL_EVENT_BYTES)
    BY <2>2, CanonicalAssumption, LimitsAssumption DEF canonical_event_bytes
  <2>4. QED
    BY <2>1, <2>3
<1>6. QED
  BY <1>1, <1>4, <1>5 DEF IngestError

\* The model is called once at most, for a permitted caller, with an event that is
\* acceptable as a whole and fits.
THEOREM ProviderSeesTheAccepted == PipelineSpec => []ProviderSeesOnlyAccepted
<1>1. ASSUME PipelineInv
      PROVE  ProviderSeesOnlyAccepted
  <2>1. provider.calls \in {0, 1} /\ AdmissionOK /\ event \in Events \cup {NoEvent}
    BY <1>1 DEF PipelineInv, TypesOK
  <2>2. CASE provider.calls = 1
    <3>1. /\ permitted /\ event # NoEvent /\ event \in Events
          /\ Valid(event) /\ IngestError(event) = FINE
          /\ ~(RequestBytes(event) > MaxInputBytes)
      BY <2>1, <2>2 DEF AdmissionOK
    <3>2. PayloadIsExact(event.payload)
      BY <3>1, PayloadsExact
    <3>3. Acceptable(event)
      BY <3>1, <3>2, AcceptedIsAcceptable DEF FINE
    <3>4. RequestBytes(event) \in Int /\ MaxInputBytes \in Int
      BY <3>2, PipelineBoundsAssumption DEF PayloadIsExact, RequestBytes
    <3>5. RequestBytes(event) <= MaxInputBytes
      BY <3>1, <3>4
    <3>6. QED
      BY <2>2, <3>1, <3>3, <3>5 DEF ProviderSeesOnlyAccepted
  <2>3. QED
    BY <2>1, <2>2 DEF ProviderSeesOnlyAccepted
<1>2. QED
  BY <1>1, PipelineInvariant, PTL

-----------------------------------------------------------------------------
(* What is decided.                                                        *)

FailClosedCodes == {"INVALID_POLICY_VERSION", "IDENTITY_MISMATCH", "CATEGORY_MISMATCH"}

\* The analysis alone is never told of a mismatch, and never proposes an outside effect.
LEMMA AnalysisProposesNoEffect ==
  ASSUME NEW i, i.recommended_next_step \in NextSteps
  PROVE  /\ EvaluateAnalysis(i).evidence \cap FailClosedCodes = {}
         /\ EvaluateAnalysis(i).action # "ADD_CONTACT_TAG"
<1>1. ActionFor(i.recommended_next_step) # "ADD_CONTACT_TAG"
  BY DEF ActionFor, NextSteps
<1>2. ReviewEvidence(i) \cap FailClosedCodes = {}
  <2>1. DOMAIN Signals(i) = {"LOW_CONFIDENCE", "ELEVATED_PRIORITY", "HIGH_URGENCY",
                             "UNKNOWN_INTENT", "ESCALATION_RECOMMENDED",
                             "RECOMMENDATION_REQUIRES_REVIEW"}
    BY DEF Signals
  <2>2. QED
    BY <2>1 DEF ReviewEvidence, FailClosedCodes
<1>3. CASE Conflicting(i)
  BY <1>3 DEF EvaluateAnalysis, Evaluation, FailClosedCodes
<1>4. CASE ~Conflicting(i) /\ ReviewEvidence(i) # {}
  BY <1>1, <1>2, <1>4 DEF EvaluateAnalysis, Evaluation
<1>5. CASE ~Conflicting(i) /\ ReviewEvidence(i) = {}
  BY <1>1, <1>5 DEF EvaluateAnalysis, Evaluation, FailClosedCodes
<1>6. QED
  BY <1>3, <1>4, <1>5

\* An analysis made from the server's own identity and category passes the checks of
\* evaluate on both, whatever the provider returned.
LEMMA GroundedDecision ==
  ASSUME NEW e, NEW output, ValidOutput(output)
  PROVE  LET canonical == ingest(e, EventId)
             analysis == BusinessIntelligenceResult(output, canonical)
             d == decide([event |-> canonical, intelligence |-> analysis])
         IN  /\ analysis.category = classify[e.event_type]
             /\ d.evidence \cap FailClosedCodes = {}
             /\ d.action = "ADD_CONTACT_TAG" =>
                  /\ e.event_type = "GHL_CONTACT_TAG_REQUEST"
                  /\ d.decision = "REQUIRE_HUMAN_APPROVAL"
<1> DEFINE canonical == ingest(e, EventId)
           analysis == BusinessIntelligenceResult(output, canonical)
           d == decide([event |-> canonical, intelligence |-> analysis])
<1>1. /\ canonical.event_id = analysis.event_id
      /\ canonical.event_type = e.event_type
      /\ analysis.category = classify[e.event_type]
      /\ analysis.recommended_next_step = output.recommended_next_step
  BY DEF ingest, BusinessIntelligenceResult
<1>2. analysis.recommended_next_step \in NextSteps
  BY <1>1 DEF ValidOutput
<1>3. d = evaluate(canonical, analysis, POLICY_VERSION)
  BY DEF decide
<1> HIDE DEF canonical, analysis, d
<1>4. \/ d = Deny("MISSING_AI_EVIDENCE")
      \/ /\ e.event_type = "GHL_CONTACT_TAG_REQUEST"
         /\ d = Evaluation("REQUIRE_HUMAN_APPROVAL", "ADD_CONTACT_TAG", "MEDIUM",
                           {"EXTERNAL_MUTATION_REQUIRES_APPROVAL"})
      \/ d = EvaluateAnalysis(analysis)
  BY <1>1, <1>3 DEF evaluate
<1>5. /\ d.evidence \cap FailClosedCodes = {}
      /\ d.action = "ADD_CONTACT_TAG" => /\ e.event_type = "GHL_CONTACT_TAG_REQUEST"
                                         /\ d.decision = "REQUIRE_HUMAN_APPROVAL"
  <2>1. CASE d = Deny("MISSING_AI_EVIDENCE")
    BY <2>1 DEF Deny, Evaluation, FailClosedCodes
  <2>2. CASE /\ e.event_type = "GHL_CONTACT_TAG_REQUEST"
             /\ d = Evaluation("REQUIRE_HUMAN_APPROVAL", "ADD_CONTACT_TAG", "MEDIUM",
                               {"EXTERNAL_MUTATION_REQUIRES_APPROVAL"})
    BY <2>2 DEF Evaluation, FailClosedCodes
  <2>3. CASE d = EvaluateAnalysis(analysis)
    BY <1>2, <2>3, AnalysisProposesNoEffect
  <2>4. QED
    BY <1>4, <2>1, <2>2, <2>3
<1>6. QED
  BY <1>1, <1>5 DEF canonical, analysis, d

\* Only a valid output, for an acceptable event, becomes an analysis or a decision, under
\* the server's identity and category; a tag is proposed only for an internal tag
\* request and only to a person.
THEOREM DecisionsAreGrounded == PipelineSpec => []DecisionIsGrounded
<1>1. ASSUME PipelineInv
      PROVE  DecisionIsGrounded
  <2> SUFFICES ASSUME result.kind \in {"analysis", "decision"}
               PROVE  DecisionIsGrounded
    BY DEF DecisionIsGrounded
  <2> DEFINE output == provider.output
             canonical == ingest(event, EventId)
             analysis == BusinessIntelligenceResult(output, canonical)
             d == decide([event |-> canonical, intelligence |-> analysis])
  <2>1. /\ provider.calls = 1 /\ output \in Outputs /\ ValidOutput(output)
        /\ result.kind = "analysis" => result = [kind |-> "analysis", analysis |-> analysis]
        /\ result.kind = "decision" => result = [kind |-> "decision", decision |-> d]
    BY <1>1 DEF PipelineInv, GroundOK
  <2>2. /\ analysis.category = classify[event.event_type]
        /\ d.evidence \cap FailClosedCodes = {}
        /\ d.action = "ADD_CONTACT_TAG" =>
             /\ event.event_type = "GHL_CONTACT_TAG_REQUEST"
             /\ d.decision = "REQUIRE_HUMAN_APPROVAL"
    BY <2>1, GroundedDecision
  <2>3. output # NoOutput /\ output.extra = {}
    BY <2>1, InputsAssumption DEF ValidOutput
  <2>4. event \in Events /\ Valid(event) /\ IngestError(event) = FINE
    BY <1>1, <2>1 DEF PipelineInv, TypesOK, AdmissionOK
  <2>5. PayloadIsExact(event.payload)
    BY <2>4, PayloadsExact
  <2>6. Acceptable(event)
    BY <2>4, <2>5, AcceptedIsAcceptable DEF FINE
  <2>7. event.event_type = "GHL_CONTACT_TAG_REQUEST" => event.source = "INTERNAL"
    BY <2>6 DEF Acceptable
  <2> HIDE DEF output, canonical, analysis, d
  <2>8. QED
    BY <2>1, <2>2, <2>3, <2>6, <2>7 DEF DecisionIsGrounded, FailClosedCodes, output
<1>2. QED
  BY <1>1, PipelineInvariant, PTL

-----------------------------------------------------------------------------
(* What a refusal says.                                                    *)

\* The codes of refusals that say nothing of the event.
Plainly == OtherCodes \ {"NORMALIZATION_ERROR", "AI_UNAVAILABLE"}

\* The codes that say something of the event, and the many that do not.
LEMMA Reasons ==
  ASSUME NEW e
  PROVE  /\ Reason("UNSUPPORTED_EVENT_TYPE", e) <=>
              e.event_type \notin EventTypes \/ MisnamedIn(e, "event_type")
         /\ Reason("UNSUPPORTED_SOURCE", e) <=>
              e.source \notin EventSources \/ MisnamedIn(e, "source")
         /\ Reason("INVALID_TIMESTAMP", e) <=>
              \/ ~e.dated \/ e.age > MAX_PAST_SKEW \/ e.age < -MAX_FUTURE_SKEW
              \/ MisnamedIn(e, "occurred_at")
         /\ Reason("PAYLOAD_LIMIT_EXCEEDED", e) <=> ~WithinLimits(e.payload)
         /\ Reason("UNSAFE_PAYLOAD", e) <=>
              \/ ~Harmless(e.payload) \/ e.payload[1].kind # "object"
              \/ e.external_event_reference = "credential"
              \/ MisnamedIn(e, "payload")
              \/ e.event_type = "GHL_CONTACT_TAG_REQUEST" /\ e.source # "INTERNAL"
         /\ Reason("INVALID_EVENT", e) <=>
              \/ e.extra \/ e.external_event_reference = "malformed"
              \/ e.event_type = "GHL_CONTACT_TAG_REQUEST" /\ ~HasTagParameters(e.payload)
         /\ Reason("AI_UNAVAILABLE", e) <=> RequestBytes(e) > MaxInputBytes
         /\ \A code \in SuccessCodes \cup ProviderFailures \cup Plainly : Reason(code, e)
BY DEF Reason, SuccessCodes, ProviderFailures, OtherCodes, Plainly

\* _validation_error_code names a location or a cause that the errors have.
LEMMA CodeHasAnError ==
  ASSUME NEW V
  PROVE  LET code == validation_error_code(V) IN
         \/ code = "UNSUPPORTED_EVENT_TYPE" /\ "event_type" \in Locations(V)
         \/ code = "UNSUPPORTED_SOURCE" /\ "source" \in Locations(V)
         \/ code = "INVALID_TIMESTAMP" /\ "occurred_at" \in Locations(V)
         \/ code = "PAYLOAD_LIMIT_EXCEEDED" /\ \E loc \in Locations(V) : V[loc] = LIMIT
         \/ code = "UNSAFE_PAYLOAD" /\ \E loc \in Locations(V) : V[loc] = UNSAFE
         \/ /\ code = "UNSAFE_PAYLOAD"
            /\ "payload" \in Locations(V) /\ V["payload"] \notin {LIMIT, UNSAFE}
         \/ /\ code = "INVALID_EVENT"
            /\ "payload" \notin Locations(V)
            /\ {"event_type", "source", "occurred_at"} \cap Locations(V) = {}
            /\ \A loc \in Locations(V) : V[loc] \notin {LIMIT, UNSAFE}
<1> DEFINE causes == {loc \in Locations(V) : V[loc] \in {LIMIT, UNSAFE}}
           first == IF "external_event_reference" \in causes THEN "external_event_reference"
                    ELSE CHOOSE loc \in causes : TRUE
<1>1. causes # {} => first \in causes
  OBVIOUS
<1>2. validation_error_code(V) =
        IF "event_type" \in Locations(V) THEN "UNSUPPORTED_EVENT_TYPE"
        ELSE IF "source" \in Locations(V) THEN "UNSUPPORTED_SOURCE"
        ELSE IF "occurred_at" \in Locations(V) THEN "INVALID_TIMESTAMP"
        ELSE IF causes # {}
        THEN IF V[first] = LIMIT THEN "PAYLOAD_LIMIT_EXCEEDED" ELSE "UNSAFE_PAYLOAD"
        ELSE IF "payload" \in Locations(V) THEN "UNSAFE_PAYLOAD" ELSE "INVALID_EVENT"
  BY DEF validation_error_code
<1>3. \A loc : loc \in causes <=> loc \in Locations(V) /\ V[loc] \in {LIMIT, UNSAFE}
  OBVIOUS
<1> HIDE DEF causes, first
<1>4. QED
  BY <1>1, <1>2, <1>3

\* An error of a field gives the reason its code names.
LEMMA FieldReason ==
  ASSUME NEW e \in Events, Locations(FieldVerdicts(e)) # {}
  PROVE  Reason(validation_error_code(FieldVerdicts(e)), e)
<1> DEFINE V == FieldVerdicts(e)
<1>1. DOMAIN V = {"event_type", "source", "occurred_at", "external_event_reference", "payload",
                  "extra"}
  BY DEF FieldVerdicts
<1>2. /\ V["event_type"] = IF e.event_type \in EventTypes THEN FINE ELSE "custom"
      /\ V["source"] = IF e.source \in EventSources THEN FINE ELSE "custom"
      /\ V["occurred_at"] = IF e.dated THEN FINE ELSE "custom"
      /\ V["extra"] = IF e.extra THEN "forbidden" ELSE FINE
  BY DEF FieldVerdicts
<1>3. /\ V["external_event_reference"] \in {"pattern", UNSAFE, FINE}
      /\ V["external_event_reference"] = UNSAFE => e.external_event_reference = "credential"
      /\ V["external_event_reference"] = "pattern" => e.external_event_reference = "malformed"
  BY DEF FieldVerdicts, UNSAFE, FINE
<1>4. V["payload"] = IF e.payload[1].kind # "object" THEN "type" ELSE validate_payload(e.payload)
  BY DEF FieldVerdicts
<1> HIDE DEF V
<1>5. ASSUME NEW loc \in Locations(V)
      PROVE  loc \in DOMAIN V /\ V[loc] # FINE
  BY DEF Locations
<1>6. ASSUME NEW loc \in Locations(V), V[loc] = LIMIT
      PROVE  ~WithinLimits(e.payload)
  <2>1. loc = "payload"
    BY <1>1, <1>2, <1>3, <1>5, <1>6 DEF LIMIT, UNSAFE, FINE
  <2>2. validate_payload(e.payload) = LIMIT
    BY <1>4, <1>6, <2>1 DEF LIMIT
  <2>3. QED
    BY <2>2, PayloadsExact DEF PayloadIsExact
<1>7. ASSUME NEW loc \in Locations(V), V[loc] = UNSAFE
      PROVE  ~Harmless(e.payload) \/ e.external_event_reference = "credential"
  <2>1. loc \in {"payload", "external_event_reference"}
    BY <1>1, <1>2, <1>3, <1>5, <1>7 DEF UNSAFE, FINE
  <2>2. loc = "payload" => validate_payload(e.payload) = UNSAFE
    BY <1>4, <1>7 DEF UNSAFE
  <2>3. QED
    BY <1>3, <1>7, <2>1, <2>2, PayloadsExact DEF PayloadIsExact
<1>8. ASSUME "payload" \in Locations(V), V["payload"] \notin {LIMIT, UNSAFE}
      PROVE  e.payload[1].kind # "object"
  BY <1>4, <1>5, <1>8, PayloadsExact DEF PayloadIsExact
<1>9. ASSUME {"event_type", "source", "occurred_at", "payload"} \cap Locations(V) = {},
             \A loc \in Locations(V) : V[loc] \notin {LIMIT, UNSAFE}
      PROVE  Reason("INVALID_EVENT", e)
  <2>1. PICK loc \in Locations(V) : TRUE
    BY DEF V
  <2>2. loc \in {"external_event_reference", "extra"}
    BY <1>1, <1>5, <1>9, <2>1
  <2>3. loc = "extra" => e.extra
    BY <1>2, <1>5, <2>1
  <2>4. loc = "external_event_reference" => e.external_event_reference = "malformed"
    BY <1>3, <1>5, <1>9, <2>1
  <2>5. QED
    BY <2>2, <2>3, <2>4, Reasons
<1>10. Reason(validation_error_code(V), e)
  BY <1>2, <1>5, <1>6, <1>7, <1>8, <1>9, CodeHasAnError, Reasons
<1>11. QED
  BY <1>10 DEF V

\* So does an error of a tag request's parameters, though a field of the payload can
\* be mistaken for a field of the event.
LEMMA OperationReason ==
  ASSUME NEW e \in Events, Locations(OperationVerdicts(e)) # {}
  PROVE  Reason(validation_error_code(OperationVerdicts(e)), e)
<1> DEFINE V == OperationVerdicts(e)
<1>1. CASE e.event_type # "GHL_CONTACT_TAG_REQUEST"
  <2>1. V = [event |-> FINE]
    BY <1>1 DEF OperationVerdicts
  <2>2. Locations(V) = {}
    BY <2>1 DEF Locations
  <2>3. QED
    BY <2>2 DEF V
<1>2. CASE e.event_type = "GHL_CONTACT_TAG_REQUEST" /\ e.source # "INTERNAL"
  <2>1. V = [event |-> UNSAFE]
    BY <1>2 DEF OperationVerdicts
  <2>2. \A loc \in Locations(V) : loc = "event" /\ V[loc] = UNSAFE
    BY <2>1 DEF Locations
  <2>3. Locations(V) # {}
    BY DEF V
  <2> HIDE DEF V
  <2>4. validation_error_code(V) = "UNSAFE_PAYLOAD"
    BY <2>2, <2>3, CodeHasAnError DEF LIMIT, UNSAFE
  <2>5. QED
    BY <1>2, <2>4, Reasons DEF V
<1>3. CASE e.event_type = "GHL_CONTACT_TAG_REQUEST" /\ e.source = "INTERNAL"
  <2>1. V = TagParameterVerdicts(e.payload)
    BY <1>3 DEF OperationVerdicts
  <2>2. /\ DOMAIN V = {"contact_id", "tag"} \cup Keys(e.payload)
        /\ \A loc \in DOMAIN V : V[loc] \in {FINE, "parameter"}
    BY <2>1 DEF TagParameterVerdicts
  <2> HIDE DEF V
  <2>3. ASSUME NEW loc \in Locations(V)
        PROVE  /\ loc \in {"contact_id", "tag"} \cup Keys(e.payload)
               /\ V[loc] \notin {LIMIT, UNSAFE}
    BY <2>2 DEF Locations, FINE, LIMIT, UNSAFE
  <2>4. ASSUME NEW field \in {"event_type", "source", "occurred_at", "payload"},
               field \in Locations(V)
        PROVE  MisnamedIn(e, field)
    BY <1>3, <2>3, <2>4 DEF MisnamedIn
  <2>5. ~HasTagParameters(e.payload)
    <3>1. Locations(TagParameterVerdicts(e.payload)) # {} /\ IsPayload(e.payload)
      BY <2>1, InputsAssumption DEF V
    <3>2. QED
      BY <3>1, ParametersFine DEF HasTagParameters
  <2>6. Reason("INVALID_EVENT", e)
    BY <1>3, <2>5, Reasons
  <2>7. Reason(validation_error_code(V), e)
    BY <2>3, <2>4, <2>6, CodeHasAnError, Reasons
  <2>8. QED
    BY <2>7 DEF V
<1>4. QED
  BY <1>1, <1>2, <1>3

\* A response that is justified by the event it answers.
Justified(code) ==
  /\ Reason(code, event)
  /\ code = "ACCEPTED" => Acceptable(event)
  /\ route = "create_event" /\ Acceptable(event) => code \in {"ACCEPTED", "INTERNAL_ERROR"}

ReasonsOK == event # NoEvent => \A code \in Range(responses) : Justified(code)

\* Every response of every layer to a request with an event is justified.
LEMMA ReasonsStep ==
  ASSUME PipelineInv, ReasonsOK, PipelineNext
  PROVE  ReasonsOK'
<1> USE DEF Waiting, Sending, Over, InApplication
<1> DEFINE Quietly == pc \in Waiting /\ UNCHANGED responses
<1>1. pc \in Waiting => responses = <<>>
  BY DEF PipelineInv, AnswerOK, Unanswered
<1>2. CASE Quietly
  BY <1>1, <1>2 DEF ReasonsOK, Range
<1>3. CASE UNCHANGED <<event, route, responses>>
  BY <1>3 DEF ReasonsOK, Justified
<1>4. ASSUME NEW code, pc \in Waiting, Respond(code), UNCHANGED <<event, route>>,
             event # NoEvent => Justified(code)
      PROVE  ReasonsOK'
  <2>1. responses' = <<code>>
    BY <1>1, <1>4, FirstResponse
  <2>2. Range(responses') = {code}
    BY <2>1 DEF Range
  <2>3. QED
    BY <1>4, <2>2 DEF ReasonsOK, Justified
<1>5. ASSUME event # NoEvent
      PROVE  /\ event \in Events /\ PayloadIsExact(event.payload)
             /\ pc \notin {"arrived", "receiving", "parse"}
  BY <1>5, PayloadsExact DEF PipelineInv, TypesOK, AdmissionOK
<1>6. ASSUME event # NoEvent, route # "create_event",
             NEW code \in {"OK", "AI_UNAVAILABLE"} \cup ProviderFailures \cup Plainly,
             code = "AI_UNAVAILABLE" => RequestBytes(event) > MaxInputBytes
      PROVE  Justified(code)
  <2>1. Reason(code, event)
    BY <1>6, Reasons DEF SuccessCodes
  <2>2. code # "ACCEPTED"
    BY <1>6 DEF ProviderFailures, OtherCodes, Plainly
  <2>3. QED
    BY <1>6, <2>1, <2>2 DEF Justified
<1>7. CASE pc \in {"arrived", "receiving", "parse"}
  <2>1. event = NoEvent
    BY <1>7 DEF PipelineInv, AdmissionOK
  <2>2. CASE Parse
    <3>1. CASE UNCHANGED responses
      BY <1>2, <1>7, <3>1
    <3>2. CASE UNCHANGED event
      BY <2>1, <3>2 DEF ReasonsOK
    <3>3. QED
      BY <2>2, <3>1, <3>2 DEF Parse
  <2>3. CASE UNCHANGED event
    BY <2>1, <2>3 DEF ReasonsOK
  <2>4. QED
    BY <1>7, <2>2, <2>3
       DEF PipelineNext, CheckDeclaration, Receive, Disconnect, Cancelled, ApplicationFails,
           Gate, Dependencies, Validate, HandleStatus, HandleCreate, HandleAnalysis,
           ProviderFails, ProviderReturns, SendStart, SendBody, SendFails, Complete
<1>8. CASE Gate
  <2>1. pc = "gate" /\ route \in Protected /\ UNCHANGED <<event, route>>
    BY <1>8 DEF Gate, PipelineInv, AdmissionOK
  <2>2. route # "create_event"
    BY <2>1 DEF Protected
  <2>3. GateRefusals \subseteq Plainly /\ "AI_UNAVAILABLE" \notin GateRefusals
    BY DEF GateRefusals, OtherCodes, Plainly
  <2>4. CASE UNCHANGED responses
    BY <1>2, <2>1, <2>4
  <2>5. ASSUME NEW code \in GateRefusals, Respond(code)
        PROVE  ReasonsOK'
    BY <1>4, <1>6, <2>1, <2>2, <2>3, <2>5
  <2>6. QED
    BY <1>8, <2>4, <2>5 DEF Gate
<1>9. CASE Validate
  <2>1. pc = "validate" /\ UNCHANGED <<event, route>>
    BY <1>9 DEF Validate
  <2>2. CASE UNCHANGED responses
    BY <1>2, <2>1, <2>2
  <2>3. CASE event = NoEvent
    BY <2>1, <2>3 DEF ReasonsOK
  <2>4. CASE event # NoEvent /\ ~Valid(event) /\ Respond(validation_error_code(ExternalEventVerdicts(event)))
    <3> DEFINE code == validation_error_code(ExternalEventVerdicts(event))
    <3>1. Reason(code, event)
      BY <1>5, <2>4, FieldReason, OperationReason DEF ExternalEventVerdicts, Valid
    <3>2. code # "ACCEPTED"
      BY CodesOfRefusals DEF ValidationCodes
    <3>3. ~Acceptable(event)
      BY <1>5, <2>4, AcceptedIsAcceptable
    <3> HIDE DEF code
    <3>4. Justified(code)
      BY <3>1, <3>2, <3>3 DEF Justified
    <3>5. Respond(code)
      BY <2>4 DEF code
    <3>6. QED
      BY <1>4, <2>1, <3>4, <3>5
  <2>5. QED
    BY <1>9, <2>2, <2>3, <2>4 DEF Validate, Valid
<1>10. CASE HandleStatus
  <2>1. /\ pc = "handle" /\ route # "create_event" /\ UNCHANGED <<event, route>>
        /\ Respond("OK") \/ Respond("HTTP_ERROR_503")
    BY <1>10 DEF HandleStatus, Return, TakesEvent
  <2>2. "HTTP_ERROR_503" \in Plainly
    BY DEF OtherCodes, Plainly
  <2>3. QED
    BY <1>4, <1>6, <2>1, <2>2
<1>11. ASSUME pc = "handle", route \in TakesEvent
       PROVE  /\ event # NoEvent /\ Valid(event)
              /\ IngestError(event) # FINE => Justified(IngestError(event))
              /\ IngestError(event) = FINE => Acceptable(event)
  <2>1. event # NoEvent /\ Valid(event)
    BY <1>11 DEF PipelineInv, AdmissionOK
  <2>2. /\ Acceptable(event) <=> InTime(event.age)
        /\ IngestError(event) = IF InTime(event.age) THEN FINE ELSE "INVALID_TIMESTAMP"
        /\ InTime(event.age) <=> -MAX_FUTURE_SKEW <= event.age /\ event.age <= MAX_PAST_SKEW
    BY <1>5, <2>1, AcceptedIsAcceptable
  <2>3. event.age \in Int
    BY <1>5, <2>1, InputsAssumption
  <2>4. ~InTime(event.age) => Reason("INVALID_TIMESTAMP", event)
    <3>1. ~InTime(event.age) => event.age > MAX_PAST_SKEW \/ event.age < -MAX_FUTURE_SKEW
      BY <2>2, <2>3, CanonicalAssumption
    <3>2. QED
      BY <3>1, Reasons
  <2>5. QED
    BY <2>1, <2>2, <2>4 DEF Justified, FINE
<1>12. CASE HandleCreate
  <2>1. /\ pc = "handle" /\ route = "create_event" /\ UNCHANGED <<event, route>>
        /\ \/ IngestError(event) # FINE /\ Respond(IngestError(event))
           \/ IngestError(event) = FINE /\ Respond("ACCEPTED")
    BY <1>12 DEF HandleCreate, Return
  <2>2. route \in TakesEvent
    BY <2>1 DEF TakesEvent
  <2>3. IngestError(event) = FINE => Justified("ACCEPTED")
    BY <1>11, <2>1, <2>2, Reasons DEF Justified, SuccessCodes
  <2>4. QED
    BY <1>4, <1>11, <2>1, <2>2, <2>3
<1>13. CASE HandleAnalysis
  <2>1. /\ pc = "handle" /\ route \in Analyses /\ UNCHANGED <<event, route>>
        /\ \/ IngestError(event) # FINE /\ Respond(IngestError(event))
           \/ RequestBytes(event) > MaxInputBytes /\ Respond("AI_UNAVAILABLE")
           \/ UNCHANGED responses
    BY <1>13 DEF HandleAnalysis, Analyses
  <2>2. route \in TakesEvent /\ route # "create_event"
    BY <2>1 DEF TakesEvent, Analyses
  <2>3. QED
    BY <1>2, <1>4, <1>6, <1>11, <2>1, <2>2
<1>14. ASSUME pc = "provider"
       PROVE  route # "create_event"
  BY <1>14 DEF PipelineInv, AdmissionOK, Analyses
<1>15. ASSUME NEW code \in ProviderFailures, ProviderFails(code)
       PROVE  ReasonsOK'
  BY <1>4, <1>6, <1>14, <1>15 DEF ProviderFails, ProviderFailures
<1>16. ASSUME NEW output, ProviderReturns(output)
       PROVE  ReasonsOK'
  <2>1. /\ pc = "provider" /\ UNCHANGED <<event, route>>
        /\ Respond("AI_INVALID_OUTPUT") \/ Respond("OK")
    BY <1>16 DEF ProviderReturns, Return
  <2>2. "AI_INVALID_OUTPUT" \in ProviderFailures
    BY DEF ProviderFailures
  <2>3. QED
    BY <1>4, <1>6, <1>14, <2>1, <2>2
<1>17. CASE ApplicationFails
  <2>1. pc \in Waiting /\ Respond("INTERNAL_ERROR") /\ UNCHANGED <<event, route>>
    BY <1>17 DEF ApplicationFails
  <2>2. Justified("INTERNAL_ERROR")
    BY Reasons DEF Justified, OtherCodes, Plainly
  <2>3. QED
    BY <1>4, <2>1, <2>2
<1>18. CASE Cancelled \/ Dependencies \/ SendStart \/ SendBody \/ Complete
  BY <1>3, <1>18 DEF Cancelled, Dependencies, SendStart, SendBody, Complete
<1>19. CASE SendFails
  <2>1. UNCHANGED <<event, route>>
    BY <1>19 DEF SendFails
  <2>2. \A code \in Range(responses') : code \in Range(responses) \cup {"INTERNAL_ERROR"}
    BY <1>19, SendFailsAdds DEF PipelineInv
  <2>3. Justified("INTERNAL_ERROR")
    BY Reasons DEF Justified, OtherCodes, Plainly
  <2>4. \A code : Justified(code)' <=> Justified(code)
    BY <2>1 DEF Justified
  <2>5. QED
    BY <2>1, <2>2, <2>3, <2>4 DEF ReasonsOK
<1>20. QED
  BY <1>7, <1>8, <1>9, <1>10, <1>12, <1>13, <1>15, <1>16, <1>17, <1>18, <1>19
     DEF PipelineNext, CheckDeclaration, Receive, Disconnect, Parse

\* create_event accepts exactly what is acceptable as a whole, every refusal of every
\* route names a reason the event gives, and the second validation refuses nothing.
THEOREM IngestionStaysExact == PipelineSpec => []IngestionIsExact
<1>1. PipelineInit => ReasonsOK
  BY DEF PipelineInit, ReasonsOK
<1>2. PipelineInv /\ ReasonsOK /\ [PipelineNext]_vars => ReasonsOK'
  <2>1. ASSUME UNCHANGED vars, ReasonsOK
        PROVE  ReasonsOK'
    BY <2>1 DEF vars, ReasonsOK, Justified
  <2>2. QED
    BY <2>1, ReasonsStep
<1>3. PipelineInv /\ ReasonsOK => IngestionIsExact
  <2>1. ASSUME PipelineInv, ReasonsOK, event # NoEvent
        PROVE  IngestionIsExact
    <3>1. PayloadIsExact(event.payload)
      BY <2>1, PayloadsExact DEF PipelineInv, TypesOK
    <3>2. QED
      BY <2>1, <3>1 DEF ReasonsOK, Justified, IngestionIsExact
  <2>2. QED
    BY <2>1 DEF IngestionIsExact
<1>4. QED
  BY <1>1, <1>2, <1>3, PipelineInvariant, PTL DEF PipelineSpec
=============================================================================
