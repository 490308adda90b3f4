------------------------------ MODULE MCPolicy ------------------------------
(***************************************************************************)
(* The policy engine over every combination of the inputs its branches     *)
(* tell apart: every member of the enumerations, matching and foreign      *)
(* identities, empty and non-empty reasons, and confidences below, at and  *)
(* above the threshold.  A decided request may come again with an analysis *)
(* that is more alarming in one respect.                                   *)
(***************************************************************************)
EXTENDS Policy

CONSTANTS
  EventIds,       \* identities of events
  Types,          \* event types the policy is given
  Intentions,     \* intents of an analysis
  Confidences,    \* confidences of an analysis, in hundredths
  ReasonCounts    \* numbers of reasons in an analysis

ASSUME InputsAssumption ==
  /\ Types \subseteq EventTypes
  /\ Intentions \subseteq Intents
  /\ Confidences \subseteq 0..100
  /\ ReasonCounts \subseteq Nat

VARIABLES
  request,    \* what PolicyDecisionService.decide is given
  decision    \* what it returned

vars == <<request, decision>>

Init ==
  /\ request \in
       [event : [event_id : EventIds, event_type : Types],
        intelligence :
          [event_id : EventIds, category : Categories, reasons : ReasonCounts,
           priority : Priorities, urgency : Urgencies, intent : Intentions,
           confidence : Confidences, recommended_next_step : NextSteps]]
  /\ decision = decide(request)

PriorityRank == [LOW |-> 1, MEDIUM |-> 2, HIGH |-> 3, CRITICAL |-> 4]
OutcomeRank == [ALLOW |-> 1, REQUIRE_HUMAN_APPROVAL |-> 2, DENY |-> 3]

\* The analyses that differ from i in one field, for the worse.
MoreAlarming(i) ==
  {[i EXCEPT !.priority = p] : p \in {q \in Priorities : PriorityRank[q] > PriorityRank[i.priority]}}
    \cup {[i EXCEPT !.urgency = u] : u \in {v \in Urgencies : PriorityRank[v] > PriorityRank[i.urgency]}}
    \cup {[i EXCEPT !.confidence = c] : c \in {d \in Confidences : d < i.confidence}}
    \cup {[i EXCEPT !.intent = "UNKNOWN"]}
    \cup {[i EXCEPT !.reasons = 0]}

DecideAgain ==
  \E i \in MoreAlarming(request.intelligence) :
    /\ request' = [request EXCEPT !.intelligence = i]
    /\ decision' = decide(request')

Next == DecideAgain

Spec == Init /\ [][Next]_vars

-----------------------------------------------------------------------------

\* A more alarming analysis never gets a more permissive outcome, nor, as long as
\* the analysis has reasons at all, a lower risk: the precedence of the checks in
\* evaluate opens no way around one of them.
AlarmNeverRelaxes ==
  [][/\ OutcomeRank[decision'.decision] >= OutcomeRank[decision.decision]
     /\ request'.intelligence.reasons = request.intelligence.reasons =>
          PriorityRank[decision'.risk] >= PriorityRank[decision.risk]]_vars

\* The one action with an outside effect is recommended only for the event type
\* that asks for it and only to a person, and no analysis gets it allowed outright.
ExternalActionNeedsAPerson ==
  /\ decision.action = "ADD_CONTACT_TAG" =>
       /\ request.event.event_type = "GHL_CONTACT_TAG_REQUEST"
       /\ decision.decision = "REQUIRE_HUMAN_APPROVAL"
  /\ request.event.event_type = "GHL_CONTACT_TAG_REQUEST" => decision.decision # "ALLOW"

\* ALLOW is given exactly to a well-formed request about which nothing is alarming,
\* at a confidence of the threshold or more, for a step nobody has to review; a
\* denied request carries no action, and every outcome carries evidence within the
\* bound of the model.
AllowOnlyWhatIsQuiet ==
  LET e == request.event
      i == request.intelligence IN
  /\ decision.decision = "ALLOW" <=>
       /\ i.event_id = e.event_id
       /\ i.category = classify[e.event_type]
       /\ i.reasons > 0
       /\ e.event_type # "GHL_CONTACT_TAG_REQUEST"
       /\ i.confidence >= ConfidenceThreshold
       /\ i.priority \in {"LOW", "MEDIUM"}
       /\ i.urgency # "HIGH"
       /\ i.intent # "UNKNOWN"
       /\ i.recommended_next_step \in {"NO_ACTION", "REVIEW"}
  /\ decision.decision = "DENY" => decision.action = "NONE"
  /\ Cardinality(decision.evidence) \in 1..MAX_POLICY_EVIDENCE
=============================================================================
