--------------------------- MODULE MCPolicy_proofs ---------------------------
(***************************************************************************)
(* The policy's properties for every threshold, every event type and every *)
(* analysis the models of services/policy.py admit.  decide is the same    *)
(* after every step (DecidedInv), so each property is a fact about         *)
(* evaluate: its fail-closed checks, the contact-tag request and the       *)
(* signals of the analysis are characterised one after the other.          *)
(***************************************************************************)
EXTENDS MCPolicy, FiniteSetTheorems, TLAPS

\* The events and analyses that pass the validation of their pydantic models.
Events == [event_id : EventIds, event_type : EventTypes]
Analyses ==
  [event_id : EventIds, category : Categories, reasons : Nat,
   priority : Priorities, urgency : Urgencies, intent : Intents,
   confidence : 0..100, recommended_next_step : NextSteps]

\* One decision was made, by decide, on a valid request.
DecidedInv ==
  /\ request \in [event : Events, intelligence : Analyses]
  /\ decision = decide(request)

-----------------------------------------------------------------------------
(* The signals that ask for a person.                                      *)

\* The codes that _review_evidence can report.
ReviewCodes == {"LOW_CONFIDENCE", "ELEVATED_PRIORITY", "HIGH_URGENCY", "UNKNOWN_INTENT",
                "ESCALATION_RECOMMENDED", "RECOMMENDATION_REQUIRES_REVIEW"}

\* Nothing in the analysis asks for a person.
Quiet(i) ==
  /\ i.confidence >= ConfidenceThreshold
  /\ i.priority \in {"LOW", "MEDIUM"}
  /\ i.urgency # "HIGH"
  /\ i.intent # "UNKNOWN"
  /\ i.recommended_next_step \in {"NO_ACTION", "REVIEW"}

\* A step calls for review, as an escalation or otherwise, unless it is one of two.
LEMMA StepsToReview ==
  ASSUME NEW step \in NextSteps
  PROVE  /\ step \in {"NO_ACTION", "REVIEW"} <=>
              step # "ESCALATE" /\ ActionFor(step) \notin REVIEW_ACTIONS \ {"ESCALATE"}
         /\ ActionFor(step) = "NONE" <=> step = "NO_ACTION"
         /\ ActionFor(step) # "ADD_CONTACT_TAG"
BY DEF NextSteps, ActionFor, REVIEW_ACTIONS

\* The evidence for a review consists of the codes whose signal is on.
LEMMA EvidenceHasASignal ==
  ASSUME NEW i \in Analyses
  PROVE  /\ ReviewEvidence(i) \subseteq ReviewCodes
         /\ "LOW_CONFIDENCE" \in ReviewEvidence(i) <=> i.confidence < ConfidenceThreshold
         /\ "ELEVATED_PRIORITY" \in ReviewEvidence(i) <=> ElevatedPriority(i)
         /\ "HIGH_URGENCY" \in ReviewEvidence(i) <=> i.urgency = "HIGH"
         /\ "UNKNOWN_INTENT" \in ReviewEvidence(i) <=> i.intent = "UNKNOWN"
         /\ "ESCALATION_RECOMMENDED" \in ReviewEvidence(i) <=>
              i.recommended_next_step = "ESCALATE"
         /\ "RECOMMENDATION_REQUIRES_REVIEW" \in ReviewEvidence(i) <=>
              ActionFor(i.recommended_next_step) \in REVIEW_ACTIONS \ {"ESCALATE"}
<1>1. DOMAIN Signals(i) = ReviewCodes
  BY DEF Signals, ReviewCodes
<1>2. QED
  BY <1>1 DEF ReviewEvidence, Signals, ReviewCodes

\* An analysis is quiet exactly when there is no evidence for a review.
LEMMA QuietMeansNoEvidence ==
  ASSUME NEW i \in Analyses
  PROVE  ReviewEvidence(i) = {} <=> Quiet(i)
<1>1. i.confidence \in 0..100 /\ i.priority \in Priorities /\ i.recommended_next_step \in NextSteps
  BY DEF Analyses
<1>2. i.confidence >= ConfidenceThreshold <=> ~(i.confidence < ConfidenceThreshold)
  BY <1>1, ThresholdAssumption
<1>3. i.priority \in {"LOW", "MEDIUM"} <=> ~ElevatedPriority(i)
  BY <1>1 DEF Priorities, ElevatedPriority
<1>4. ReviewEvidence(i) = {} <=> \A c \in ReviewCodes : c \notin ReviewEvidence(i)
  BY EvidenceHasASignal
<1>5. QED
  BY <1>1, <1>2, <1>3, <1>4, EvidenceHasASignal, StepsToReview DEF Quiet, ReviewCodes

-----------------------------------------------------------------------------
(* The precedence of the checks.                                           *)

\* The request passes the fail-closed checks.
WellFormed(q) ==
  /\ q.event.event_id = q.intelligence.event_id
  /\ classify[q.event.event_type] = q.intelligence.category
  /\ q.intelligence.reasons > 0

IsTagRequest(q) == q.event.event_type = "GHL_CONTACT_TAG_REQUEST"

\* decide refuses what is malformed, hands a tag request to a person whatever the
\* analysis says, and judges everything else by the analysis.
LEMMA DecideCases ==
  ASSUME NEW q \in [event : Events, intelligence : Analyses]
  PROVE  /\ ~WellFormed(q) => \E code : decide(q) = Deny(code)
         /\ WellFormed(q) /\ IsTagRequest(q) =>
              decide(q) = Evaluation("REQUIRE_HUMAN_APPROVAL", "ADD_CONTACT_TAG", "MEDIUM",
                                     {"EXTERNAL_MUTATION_REQUIRES_APPROVAL"})
         /\ WellFormed(q) /\ ~IsTagRequest(q) => decide(q) = EvaluateAnalysis(q.intelligence)
<1>1. q.intelligence.reasons = 0 <=> ~(q.intelligence.reasons > 0)
  BY DEF Analyses
<1> HIDE DEF Deny, Evaluation, EvaluateAnalysis
<1>2. QED
  BY <1>1 DEF decide, evaluate, WellFormed, IsTagRequest, POLICY_VERSION

\* A conflicting analysis is not a quiet one: _has_conflicting_no_action reads the
\* signals that _review_evidence reads too.
LEMMA ConflictIsNotQuiet ==
  ASSUME NEW i \in Analyses, Conflicting(i)
  PROVE  ~Quiet(i)
BY DEF Conflicting, ElevatedPriority, Quiet

\* What the analysis decides: a contradiction is denied, a signal is reviewed, and only
\* the quiet is allowed.
LEMMA AnalysisCases ==
  ASSUME NEW i \in Analyses
  PROVE  /\ EvaluateAnalysis(i).action # "ADD_CONTACT_TAG"
         /\ EvaluateAnalysis(i).decision =
              IF Quiet(i) THEN "ALLOW"
              ELSE IF Conflicting(i) THEN "DENY" ELSE "REQUIRE_HUMAN_APPROVAL"
         /\ EvaluateAnalysis(i).decision = "DENY" => EvaluateAnalysis(i).action = "NONE"
         /\ EvaluateAnalysis(i).risk =
              IF Quiet(i) THEN "LOW"
              ELSE IF i.priority = "CRITICAL" THEN "CRITICAL"
              ELSE IF Conflicting(i) THEN "HIGH" ELSE RiskForReview(i)
         /\ \/ EvaluateAnalysis(i).evidence = ReviewEvidence(i) /\ ReviewEvidence(i) # {}
            \/ \E c : EvaluateAnalysis(i).evidence = {c}
<1>1. ActionFor(i.recommended_next_step) # "ADD_CONTACT_TAG"
  BY StepsToReview DEF Analyses
<1>2. CASE Conflicting(i)
  BY <1>2, ConflictIsNotQuiet DEF EvaluateAnalysis, Evaluation
<1>3. CASE ~Conflicting(i) /\ ReviewEvidence(i) # {}
  BY <1>1, <1>3, QuietMeansNoEvidence DEF EvaluateAnalysis, Evaluation, RiskForReview
<1>4. CASE ~Conflicting(i) /\ ReviewEvidence(i) = {}
  BY <1>1, <1>4, QuietMeansNoEvidence DEF EvaluateAnalysis, Evaluation
<1>5. QED
  BY <1>2, <1>3, <1>4

-----------------------------------------------------------------------------
(* What is decided.                                                        *)

\* The external action needs its event type and a person, whatever the analysis.
LEMMA DecideNeedsAPerson ==
  ASSUME NEW q \in [event : Events, intelligence : Analyses]
  PROVE  /\ decide(q).action = "ADD_CONTACT_TAG" =>
              IsTagRequest(q) /\ decide(q).decision = "REQUIRE_HUMAN_APPROVAL"
         /\ IsTagRequest(q) => decide(q).decision # "ALLOW"
<1>1. CASE ~WellFormed(q)
  BY <1>1, DecideCases DEF Deny, Evaluation
<1>2. CASE WellFormed(q) /\ IsTagRequest(q)
  BY <1>2, DecideCases DEF Evaluation
<1>3. CASE WellFormed(q) /\ ~IsTagRequest(q)
  BY <1>3, DecideCases, AnalysisCases
<1>4. QED
  BY <1>1, <1>2, <1>3

\* ALLOW is for the well-formed and quiet.
LEMMA DecideAllowsTheQuiet ==
  ASSUME NEW q \in [event : Events, intelligence : Analyses]
  PROVE  /\ decide(q).decision = "ALLOW" <=>
              WellFormed(q) /\ ~IsTagRequest(q) /\ Quiet(q.intelligence)
         /\ decide(q).decision = "DENY" => decide(q).action = "NONE"
<1>1. CASE ~WellFormed(q)
  BY <1>1, DecideCases DEF Deny, Evaluation
<1>2. CASE WellFormed(q) /\ IsTagRequest(q)
  BY <1>2, DecideCases DEF Evaluation
<1>3. CASE WellFormed(q) /\ ~IsTagRequest(q)
  BY <1>3, DecideCases, AnalysisCases
<1>4. QED
  BY <1>1, <1>2, <1>3

\* One more code makes the evidence larger by at most one.
LEMMA AtMostOneMore ==
  ASSUME NEW T, NEW x, IsFiniteSet(T)
  PROVE  /\ IsFiniteSet(T \cup {x})
         /\ Cardinality(T) \in Nat
         /\ Cardinality(T \cup {x}) \in {Cardinality(T), Cardinality(T) + 1}
<1>1. Cardinality(T) \in Nat
  BY FS_CardinalityType
<1>2. /\ IsFiniteSet(T \cup {x})
      /\ Cardinality(T \cup {x}) = Cardinality(T) \/ Cardinality(T \cup {x}) = Cardinality(T) + 1
  BY FS_AddElement, Zenon
<1>3. QED
  BY <1>1, <1>2

\* A set of review codes that is not empty is within the bound of the evidence field.
LEMMA EvidenceBound ==
  ASSUME NEW S, S \subseteq ReviewCodes, S # {}
  PROVE  Cardinality(S) \in 1..MAX_POLICY_EVIDENCE
<1> DEFINE A == {"LOW_CONFIDENCE"}
           B == A \cup {"ELEVATED_PRIORITY"}
           C == B \cup {"HIGH_URGENCY"}
           D == C \cup {"UNKNOWN_INTENT"}
           E == D \cup {"ESCALATION_RECOMMENDED"}
           F == E \cup {"RECOMMENDATION_REQUIRES_REVIEW"}
<1>2. F = ReviewCodes
  BY DEF ReviewCodes
<1>3. IsFiniteSet(A) /\ Cardinality(A) = 1
  BY FS_Singleton, Zenon
<1> HIDE DEF A
<1>4. IsFiniteSet(B) /\ Cardinality(B) <= 2
  <2>1. /\ IsFiniteSet(B) /\ Cardinality(A) \in Nat
        /\ Cardinality(B) \in {Cardinality(A), Cardinality(A) + 1}
    BY <1>3, AtMostOneMore, Zenon
  <2>2. QED
    BY <1>3, <2>1
<1> HIDE DEF B
<1>5. IsFiniteSet(C) /\ Cardinality(C) <= 3
  <2>1. /\ IsFiniteSet(C) /\ Cardinality(B) \in Nat
        /\ Cardinality(C) \in {Cardinality(B), Cardinality(B) + 1}
    BY <1>4, AtMostOneMore, Zenon
  <2>2. QED
    BY <1>4, <2>1
<1> HIDE DEF C
<1>6. IsFiniteSet(D) /\ Cardinality(D) <= 4
  <2>1. /\ IsFiniteSet(D) /\ Cardinality(C) \in Nat
        /\ Cardinality(D) \in {Cardinality(C), Cardinality(C) + 1}
    BY <1>5, AtMostOneMore, Zenon
  <2>2. QED
    BY <1>5, <2>1
<1> HIDE DEF D
<1>7. IsFiniteSet(E) /\ Cardinality(E) <= 5
  <2>1. /\ IsFiniteSet(E) /\ Cardinality(D) \in Nat
        /\ Cardinality(E) \in {Cardinality(D), Cardinality(D) + 1}
    BY <1>6, AtMostOneMore, Zenon
  <2>2. QED
    BY <1>6, <2>1
<1> HIDE DEF E
<1>8. IsFiniteSet(F) /\ Cardinality(F) <= 6
  <2>1. /\ IsFiniteSet(F) /\ Cardinality(E) \in Nat
        /\ Cardinality(F) \in {Cardinality(E), Cardinality(E) + 1}
    BY <1>7, AtMostOneMore, Zenon
  <2>2. QED
    BY <1>7, <2>1
<1> HIDE DEF F
<1>9. IsFiniteSet(S) /\ Cardinality(S) <= Cardinality(F)
  BY <1>2, <1>8, FS_Subset
<1>10. Cardinality(F) \in Nat /\ Cardinality(S) \in Nat /\ Cardinality(S) # 0
  BY <1>8, <1>9, FS_CardinalityType, FS_EmptySet
<1>11. QED
  BY <1>8, <1>9, <1>10 DEF MAX_POLICY_EVIDENCE

\* Every decision carries evidence, and no more than the model's bound.
LEMMA DecideHasEvidence ==
  ASSUME NEW q \in [event : Events, intelligence : Analyses]
  PROVE  Cardinality(decide(q).evidence) \in 1..MAX_POLICY_EVIDENCE
<1>1. ASSUME NEW c
      PROVE  Cardinality({c}) \in 1..MAX_POLICY_EVIDENCE
  <2>1. Cardinality({c}) = 1
    BY FS_Singleton, Zenon
  <2>2. QED
    BY <2>1 DEF MAX_POLICY_EVIDENCE
<1>2. CASE ~WellFormed(q)
  <2>1. PICK code : decide(q) = Deny(code)
    BY <1>2, DecideCases
  <2>2. decide(q).evidence = {code}
    BY <2>1 DEF Deny, Evaluation
  <2>3. QED
    BY <1>1, <2>2
<1>3. CASE WellFormed(q) /\ IsTagRequest(q)
  <2>1. decide(q).evidence = {"EXTERNAL_MUTATION_REQUIRES_APPROVAL"}
    BY <1>3, DecideCases DEF Evaluation
  <2>2. QED
    BY <1>1, <2>1
<1>4. CASE WellFormed(q) /\ ~IsTagRequest(q)
  <2> DEFINE i == q.intelligence
  <2>1. i \in Analyses
    OBVIOUS
  <2>2. decide(q) = EvaluateAnalysis(i)
    BY <1>4, DecideCases
  <2> HIDE DEF i
  <2>3. ReviewEvidence(i) \subseteq ReviewCodes
    BY <2>1, EvidenceHasASignal
  <2>4. \/ decide(q).evidence = ReviewEvidence(i) /\ ReviewEvidence(i) # {}
        \/ \E c : decide(q).evidence = {c}
    BY <2>1, <2>2, AnalysisCases
  <2>5. QED
    BY <1>1, <2>3, <2>4, EvidenceBound
<1>5. QED
  BY <1>2, <1>3, <1>4

-----------------------------------------------------------------------------
(* A more alarming analysis.                                               *)

\* The ranks of the three scales, as numbers.
LEMMA Ranks ==
  /\ PriorityRank["LOW"] = 1 /\ PriorityRank["MEDIUM"] = 2
  /\ PriorityRank["HIGH"] = 3 /\ PriorityRank["CRITICAL"] = 4
  /\ OutcomeRank["ALLOW"] = 1 /\ OutcomeRank["REQUIRE_HUMAN_APPROVAL"] = 2
  /\ OutcomeRank["DENY"] = 3
BY DEF PriorityRank, OutcomeRank

\* Analysis j is of the same event and step as i and in no respect better.
Worse(i, j) ==
  /\ j.event_id = i.event_id
  /\ j.category = i.category
  /\ j.recommended_next_step = i.recommended_next_step
  /\ j.reasons \in {i.reasons, 0}
  /\ i.priority \in {"HIGH", "CRITICAL"} => j.priority \in {"HIGH", "CRITICAL"}
  /\ i.priority = "CRITICAL" => j.priority = "CRITICAL"
  /\ i.urgency = "HIGH" => j.urgency = "HIGH"
  /\ i.intent = "UNKNOWN" => j.intent = "UNKNOWN"
  /\ j.confidence <= i.confidence

\* An analysis changed for the worse in one field is valid, and worse as a whole.
LEMMA MoreAlarmingIsWorse ==
  ASSUME NEW i \in Analyses, NEW j \in MoreAlarming(i)
  PROVE  j \in Analyses /\ Worse(i, j)
<1>1. \A c \in Confidences : c \in 0..100
  BY InputsAssumption
<1>2. i.confidence \in 0..100 /\ i.priority \in Priorities /\ i.urgency \in Urgencies
  BY DEF Analyses
<1>3. i.confidence <= i.confidence
  BY <1>2
<1>4. ASSUME NEW p \in Priorities, PriorityRank[p] > PriorityRank[i.priority],
             j = [i EXCEPT !.priority = p]
      PROVE  j \in Analyses /\ Worse(i, j)
  <2>1. /\ i.priority \in {"HIGH", "CRITICAL"} => p \in {"HIGH", "CRITICAL"}
        /\ i.priority # "CRITICAL"
    BY <1>2, <1>4, Ranks DEF Priorities
  <2>2. QED
    BY <1>3, <1>4, <2>1 DEF Analyses, Worse
<1>5. ASSUME NEW u \in Urgencies, PriorityRank[u] > PriorityRank[i.urgency],
             j = [i EXCEPT !.urgency = u]
      PROVE  j \in Analyses /\ Worse(i, j)
  <2>1. i.urgency # "HIGH"
    BY <1>2, <1>5, Ranks DEF Urgencies
  <2>2. QED
    BY <1>3, <1>5, <2>1 DEF Analyses, Worse
<1>6. ASSUME NEW c \in Confidences, c < i.confidence, j = [i EXCEPT !.confidence = c]
      PROVE  j \in Analyses /\ Worse(i, j)
  <2>1. c \in 0..100 /\ c <= i.confidence
    BY <1>1, <1>2, <1>6
  <2>2. QED
    BY <1>6, <2>1 DEF Analyses, Worse
<1>7. ASSUME j = [i EXCEPT !.intent = "UNKNOWN"]
      PROVE  j \in Analyses /\ Worse(i, j)
  BY <1>3, <1>7 DEF Analyses, Worse, Intents
<1>8. ASSUME j = [i EXCEPT !.reasons = 0]
      PROVE  j \in Analyses /\ Worse(i, j)
  BY <1>3, <1>8 DEF Analyses, Worse
<1>9. QED
  BY <1>4, <1>5, <1>6, <1>7, <1>8 DEF MoreAlarming

\* What is worse is not quiet unless the other is, and a contradiction stays one.
LEMMA WorseIsNotQuieter ==
  ASSUME NEW i \in Analyses, NEW j \in Analyses, Worse(i, j)
  PROVE  /\ Quiet(j) => Quiet(i)
         /\ Conflicting(i) => Conflicting(j)
<1>1. /\ i.confidence \in 0..100 /\ j.confidence \in 0..100
      /\ i.priority \in Priorities /\ j.priority \in Priorities
  BY DEF Analyses
<1>2. j.confidence >= ConfidenceThreshold => i.confidence >= ConfidenceThreshold
  BY <1>1, ThresholdAssumption DEF Worse
<1>3. i.priority \in {"LOW", "MEDIUM"} <=> i.priority \notin {"HIGH", "CRITICAL"}
  BY <1>1 DEF Priorities
<1>4. j.priority \in {"LOW", "MEDIUM"} <=> j.priority \notin {"HIGH", "CRITICAL"}
  BY <1>1 DEF Priorities
<1>5. QED
  BY <1>2, <1>3, <1>4 DEF Worse, Quiet, Conflicting, ElevatedPriority

\* The risk of a review grows with the analysis; it is never below MEDIUM.
LEMMA WorseIsRiskier ==
  ASSUME NEW i \in Analyses, NEW j \in Analyses, Worse(i, j)
  PROVE  /\ OutcomeRank[EvaluateAnalysis(j).decision] >= OutcomeRank[EvaluateAnalysis(i).decision]
         /\ PriorityRank[EvaluateAnalysis(j).risk] >= PriorityRank[EvaluateAnalysis(i).risk]
<1> DEFINE R(k) == EvaluateAnalysis(k)
<1>1. /\ Quiet(j) => Quiet(i)
      /\ Conflicting(i) => Conflicting(j)
      /\ Quiet(i) => ~Conflicting(i)
      /\ Quiet(j) => ~Conflicting(j)
  BY WorseIsNotQuieter, ConflictIsNotQuiet
<1>2. ASSUME NEW k \in Analyses
      PROVE  /\ OutcomeRank[R(k).decision] =
                  IF Quiet(k) THEN 1 ELSE IF Conflicting(k) THEN 3 ELSE 2
             /\ PriorityRank[R(k).risk] =
                  IF Quiet(k) THEN 1
                  ELSE IF k.priority = "CRITICAL" THEN 4
                  ELSE IF \/ Conflicting(k)
                          \/ k.priority = "HIGH"
                          \/ k.urgency = "HIGH"
                          \/ k.recommended_next_step = "ESCALATE" THEN 3
                  ELSE 2
  BY AnalysisCases, Ranks DEF RiskForReview
<1> HIDE DEF R
<1>3. OutcomeRank[R(j).decision] >= OutcomeRank[R(i).decision]
  BY <1>1, <1>2
<1>4. PriorityRank[R(j).risk] >= PriorityRank[R(i).risk]
  BY <1>1, <1>2 DEF Worse
<1>5. QED
  BY <1>3, <1>4 DEF R

\* Re-deciding a request with a worse analysis relaxes nothing: what was malformed
\* stays so, a tag request is answered alike, and the rest follows the analysis.
LEMMA WorseIsDecidedWorse ==
  ASSUME NEW q \in [event : Events, intelligence : Analyses],
         NEW p \in [event : Events, intelligence : Analyses],
         p.event = q.event, Worse(q.intelligence, p.intelligence)
  PROVE  /\ OutcomeRank[decide(p).decision] >= OutcomeRank[decide(q).decision]
         /\ p.intelligence.reasons = q.intelligence.reasons =>
              PriorityRank[decide(p).risk] >= PriorityRank[decide(q).risk]
<1>1. WellFormed(p) => WellFormed(q)
  <2>1. q.intelligence.reasons \in Nat
    BY DEF Analyses
  <2>2. p.intelligence.reasons > 0 => q.intelligence.reasons > 0
    BY <2>1 DEF Worse
  <2>3. QED
    BY <2>2 DEF Worse, WellFormed
<1>2. /\ p.intelligence.reasons = q.intelligence.reasons => (WellFormed(q) <=> WellFormed(p))
      /\ IsTagRequest(p) <=> IsTagRequest(q)
  BY DEF Worse, WellFormed, IsTagRequest
<1>3. ASSUME NEW d \in [event : Events, intelligence : Analyses]
      PROVE  OutcomeRank[decide(d).decision] \in 1..3
  BY DecideCases, AnalysisCases, Ranks DEF Deny, Evaluation
<1>4. ASSUME NEW d \in [event : Events, intelligence : Analyses], ~WellFormed(d)
      PROVE  OutcomeRank[decide(d).decision] = 3 /\ PriorityRank[decide(d).risk] = 3
  BY <1>4, DecideCases, Ranks DEF Deny, Evaluation
<1>5. CASE ~WellFormed(p)
  BY <1>2, <1>3, <1>4, <1>5
<1>6. CASE WellFormed(p) /\ IsTagRequest(p)
  <2>1. decide(p) = decide(q)
    BY <1>1, <1>2, <1>6, DecideCases
  <2>2. PriorityRank[decide(q).risk] = 2
    BY <1>1, <1>2, <1>6, DecideCases, Ranks DEF Evaluation
  <2>3. QED
    BY <1>3, <2>1, <2>2
<1>7. CASE WellFormed(p) /\ ~IsTagRequest(p)
  BY <1>1, <1>2, <1>7, DecideCases, WorseIsRiskier
<1>8. QED
  BY <1>5, <1>6, <1>7

-----------------------------------------------------------------------------
(* The theorems.                                                           *)

\* The requests of the instance are valid ones.
LEMMA DecidedInit == Init => DecidedInv
<1> SUFFICES ASSUME Init PROVE DecidedInv
  OBVIOUS
<1>1. /\ Types \subseteq EventTypes /\ Intentions \subseteq Intents
      /\ Confidences \subseteq 0..100 /\ ReasonCounts \subseteq Nat
  BY InputsAssumption
<1>2. [event_id : EventIds, event_type : Types] \subseteq Events
  BY <1>1 DEF Events
<1>3. [event_id : EventIds, category : Categories, reasons : ReasonCounts,
       priority : Priorities, urgency : Urgencies, intent : Intentions,
       confidence : Confidences, recommended_next_step : NextSteps] \subseteq Analyses
  BY <1>1 DEF Analyses
<1>4. request \in [event : Events, intelligence : Analyses]
  BY <1>2, <1>3 DEF Init
<1>5. QED
  BY <1>4 DEF Init, DecidedInv

\* A request that is decided again is a valid one with a worse analysis.
LEMMA DecidedStep ==
  ASSUME DecidedInv, Next
  PROVE  /\ DecidedInv'
         /\ request'.event = request.event
         /\ Worse(request.intelligence, request'.intelligence)
<1>1. PICK i \in MoreAlarming(request.intelligence) :
             /\ request' = [request EXCEPT !.intelligence = i]
             /\ decision' = decide(request')
  BY DEF Next, DecideAgain
<1>2. i \in Analyses /\ Worse(request.intelligence, i)
  BY MoreAlarmingIsWorse DEF DecidedInv
<1>3. /\ request' \in [event : Events, intelligence : Analyses]
      /\ request'.event = request.event /\ request'.intelligence = i
  BY <1>1, <1>2 DEF DecidedInv
<1>4. QED
  BY <1>1, <1>2, <1>3 DEF DecidedInv

\* Whatever was asked, the decision is the one decide takes on the present request.
THEOREM DecisionsAreCurrent == Spec => []DecidedInv
<1>1. DecidedInv /\ UNCHANGED vars => DecidedInv'
  BY DEF DecidedInv, vars
<1>2. DecidedInv /\ Next => DecidedInv'
  BY DecidedStep
<1>3. QED
  BY <1>1, <1>2, DecidedInit, PTL DEF Spec

\* The contact-tag action is recommended only for a contact-tag request and only to a
\* person, and no analysis gets such a request allowed.
THEOREM ExternalActionsNeedAPerson == Spec => []ExternalActionNeedsAPerson
<1>1. DecidedInv => ExternalActionNeedsAPerson
  BY DecideNeedsAPerson DEF DecidedInv, ExternalActionNeedsAPerson, IsTagRequest
<1>2. QED
  BY <1>1, DecisionsAreCurrent, PTL

\* ALLOW is given exactly to what is well-formed and quiet; a denied request has no
\* action; the evidence is within the bound of PolicyDecision.
THEOREM OnlyTheQuietIsAllowed == Spec => []AllowOnlyWhatIsQuiet
<1>1. DecidedInv => AllowOnlyWhatIsQuiet
  BY DecideAllowsTheQuiet, DecideHasEvidence
     DEF DecidedInv, AllowOnlyWhatIsQuiet, IsTagRequest, WellFormed, Quiet
<1>2. QED
  BY <1>1, DecisionsAreCurrent, PTL

\* A worse analysis of the same event never gets a more permissive outcome, nor a lower
\* risk while it has reasons.
THEOREM AlarmsNeverRelax == Spec => AlarmNeverRelaxes
<1> DEFINE A == /\ OutcomeRank[decision'.decision] >= OutcomeRank[decision.decision]
                /\ request'.intelligence.reasons = request.intelligence.reasons =>
                     PriorityRank[decision'.risk] >= PriorityRank[decision.risk]
<1>1. DecidedInv /\ Next => A
  BY DecidedStep, WorseIsDecidedWorse DEF DecidedInv
<1>2. DecidedInv /\ [Next]_vars => [A]_vars
  BY <1>1
<1> HIDE DEF A
<1>3. Spec => [][A]_vars
  BY <1>2, DecisionsAreCurrent, PTL DEF Spec
<1>4. QED
  BY <1>3 DEF A, AlarmNeverRelaxes
=============================================================================
