----------------------- MODULE MCControlledExecution -----------------------
(* Approval and execution together: runners race over one approval while a *)
(* client decides it and the provider settles requests when it likes.      *)
EXTENDS ContractRefinement, DocumentedClaims, TLC

Analysis(step, confidence, category) ==
  [event_id |-> "e", category |-> category, reasons |-> 1, priority |-> "LOW",
   urgency |-> "LOW", intent |-> "PURCHASE", confidence |-> confidence,
   recommended_next_step |-> step]

\* A contact-tag request, and a request a person must review that stands for no
\* external action.
MCRequests ==
  {[event |-> [event_id |-> "e", event_type |-> "GHL_CONTACT_TAG_REQUEST"],
    intelligence |-> Analysis("REVIEW", 90, "INTERNAL")],
   [event |-> [event_id |-> "e", event_type |-> "ORDER_CREATED"],
    intelligence |-> Analysis("NURTURE", 90, "COMMERCE")]}

\* The contact-tag request alone.
MCTagRequests == {q \in MCRequests : q.event.event_type = "GHL_CONTACT_TAG_REQUEST"}

Symmetry == Permutations(Runners)
============================================================================
