------------------------------- MODULE Policy -------------------------------
(***************************************************************************)
(* The deterministic policy engine, version 1.0 (services/policy.py,       *)
(* services/classification.py): a pure function from one canonical event   *)
(* and one advisory analysis to a decision, an action, a risk and the set  *)
(* of evidence codes.  Texts, evidence values and sources are left out:    *)
(* no decision depends on them.  Confidence is a number of hundredths.     *)
(***************************************************************************)
EXTENDS Integers, FiniteSets

CONSTANT ConfidenceThreshold   \* hundredths; the code's default is 85

ASSUME ThresholdAssumption == ConfidenceThreshold \in 0..100

POLICY_VERSION == "1.0"
MAX_POLICY_EVIDENCE == 8

-----------------------------------------------------------------------------
(* The closed enumerations.                                                *)

EventTypes ==
  {"CUSTOMER_REQUEST", "CUSTOMER_MESSAGE", "CUSTOMER_CREATED",
   "CUSTOMER_UPDATED", "ORDER_CREATED", "ORDER_UPDATED", "PAYMENT_RECEIVED",
   "SUPPORT_REQUEST", "INTERNAL_TASK", "SYSTEM_ALERT",
   "GHL_CONTACT_TAG_REQUEST"}
Categories == {"CUSTOMER", "COMMERCE", "SUPPORT", "INTERNAL", "SYSTEM"}
Priorities == {"LOW", "MEDIUM", "HIGH", "CRITICAL"}
Urgencies == {"LOW", "MEDIUM", "HIGH"}
Intents == {"INFORMATION", "PURCHASE", "SUPPORT", "COMPLAINT", "PAYMENT",
            "ACCOUNT", "INTERNAL", "UNKNOWN"}
NextSteps == {"NO_ACTION", "REVIEW", "CONTACT_HUMAN", "REQUEST_INFORMATION",
              "ESCALATE", "SCHEDULE_CONSULTATION", "NURTURE"}
RecommendedActions == (NextSteps \ {"NO_ACTION"}) \cup {"NONE", "ADD_CONTACT_TAG"}
DecisionOutcomes == {"ALLOW", "REQUIRE_HUMAN_APPROVAL", "DENY"}
RiskLevels == {"LOW", "MEDIUM", "HIGH", "CRITICAL"}

\* EventClassifier.classify: a complete map from event types to categories.
classify ==
  [t \in EventTypes |->
     CASE t \in {"ORDER_CREATED", "ORDER_UPDATED", "PAYMENT_RECEIVED"} -> "COMMERCE"
       [] t = "SUPPORT_REQUEST" -> "SUPPORT"
       [] t \in {"INTERNAL_TASK", "GHL_CONTACT_TAG_REQUEST"} -> "INTERNAL"
       [] t = "SYSTEM_ALERT" -> "SYSTEM"
       [] OTHER -> "CUSTOMER"]

\* _action_for: every advisory step but NO_ACTION has an action of its name.
ActionFor(step) == IF step = "NO_ACTION" THEN "NONE" ELSE step

REVIEW_ACTIONS == {"CONTACT_HUMAN", "REQUEST_INFORMATION", "ESCALATE",
                   "SCHEDULE_CONSULTATION", "NURTURE"}

-----------------------------------------------------------------------------
(* evaluate and the steps it is made of.                                   *)

Evaluation(decision, action, risk, evidence) ==
  [decision |-> decision, action |-> action, risk |-> risk, evidence |-> evidence]

Deny(code) == Evaluation("DENY", "NONE", "HIGH", {code})

ElevatedPriority(i) == i.priority \in {"HIGH", "CRITICAL"}

\* Mutant: a confidence equal to the threshold counts as low.
SignalsAtThreshold(i) ==
  [LOW_CONFIDENCE |-> i.confidence <= ConfidenceThreshold,
   ELEVATED_PRIORITY |-> ElevatedPriority(i),
   HIGH_URGENCY |-> i.urgency = "HIGH",
   UNKNOWN_INTENT |-> i.intent = "UNKNOWN",
   ESCALATION_RECOMMENDED |-> i.recommended_next_step = "ESCALATE",
   RECOMMENDATION_REQUIRES_REVIEW |->
     ActionFor(i.recommended_next_step) \in REVIEW_ACTIONS \ {"ESCALATE"}]

\* What asks for a person to look at the analysis, one code for each signal.
Signals(i) ==
  [LOW_CONFIDENCE |-> i.confidence < ConfidenceThreshold,
   ELEVATED_PRIORITY |-> ElevatedPriority(i),
   HIGH_URGENCY |-> i.urgency = "HIGH",
   UNKNOWN_INTENT |-> i.intent = "UNKNOWN",
   ESCALATION_RECOMMENDED |-> i.recommended_next_step = "ESCALATE",
   RECOMMENDATION_REQUIRES_REVIEW |->
     ActionFor(i.recommended_next_step) \in REVIEW_ACTIONS \ {"ESCALATE"}]

ReviewEvidence(i) == {c \in DOMAIN Signals(i) : Signals(i)[c]}

\* Mutant: the case of a critical priority is forgotten.
RiskForReviewNotCritical(i) ==
  IF i.priority = "HIGH" \/ i.urgency = "HIGH" \/ i.recommended_next_step = "ESCALATE"
  THEN "HIGH" ELSE "MEDIUM"

RiskForReview(i) ==
  IF i.priority = "CRITICAL" THEN "CRITICAL"
  ELSE IF \/ i.priority = "HIGH"
          \/ i.urgency = "HIGH"
          \/ i.recommended_next_step = "ESCALATE"
       THEN "HIGH"
       ELSE "MEDIUM"

\* A recommendation to do nothing contradicts an elevated priority or urgency.
Conflicting(i) ==
  /\ ActionFor(i.recommended_next_step) = "NONE"
  /\ ElevatedPriority(i) \/ i.urgency = "HIGH"

\* The event and the analysis are judged on the signals of the analysis.
EvaluateAnalysis(i) ==
  LET action == ActionFor(i.recommended_next_step) IN
  IF Conflicting(i)
  THEN Evaluation("DENY", "NONE",
                  IF i.priority = "CRITICAL" THEN "CRITICAL" ELSE "HIGH",
                  {"CONFLICTING_NO_ACTION_SIGNALS"})
  ELSE IF ReviewEvidence(i) # {}
  THEN Evaluation("REQUIRE_HUMAN_APPROVAL", action, RiskForReview(i), ReviewEvidence(i))
  ELSE Evaluation("ALLOW", action, "LOW",
                  {IF action = "NONE" THEN "NO_ACTION_RECOMMENDED"
                                      ELSE "POLICY_CONDITIONS_SATISFIED"})

\* Mutant: the analysis is judged first, and an external mutation needs approval
\* only when the analysis does.
evaluateAnalysisFirst(e, i, version) ==
  IF version # POLICY_VERSION THEN Deny("INVALID_POLICY_VERSION")
  ELSE IF e.event_id # i.event_id THEN Deny("IDENTITY_MISMATCH")
  ELSE IF classify[e.event_type] # i.category THEN Deny("CATEGORY_MISMATCH")
  ELSE IF i.reasons = 0 THEN Deny("MISSING_AI_EVIDENCE")
  ELSE EvaluateAnalysis(i)

\* The fail-closed checks come first, in the code's order, then the one event
\* type that stands for an external mutation, then the analysis.
evaluate(e, i, version) ==
  IF version # POLICY_VERSION THEN Deny("INVALID_POLICY_VERSION")
  ELSE IF e.event_id # i.event_id THEN Deny("IDENTITY_MISMATCH")
  ELSE IF classify[e.event_type] # i.category THEN Deny("CATEGORY_MISMATCH")
  ELSE IF i.reasons = 0 THEN Deny("MISSING_AI_EVIDENCE")
  ELSE IF e.event_type = "GHL_CONTACT_TAG_REQUEST"
  THEN Evaluation("REQUIRE_HUMAN_APPROVAL", "ADD_CONTACT_TAG", "MEDIUM",
                  {"EXTERNAL_MUTATION_REQUIRES_APPROVAL"})
  ELSE EvaluateAnalysis(i)

\* PolicyDecisionService.decide always asks for the current version.
decide(request) == evaluate(request.event, request.intelligence, POLICY_VERSION)
=============================================================================
