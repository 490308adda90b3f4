---------------------------- MODULE MCApprovals ----------------------------
(* The approval boundary alone: two clients race over one approval.        *)
EXTENDS ApprovalLifecycle, TLC

Analysis(step, confidence, category) ==
  [event_id |-> "e", category |-> category, reasons |-> 1, priority |-> "LOW",
   urgency |-> "LOW", intent |-> "PURCHASE", confidence |-> confidence,
   recommended_next_step |-> step]

\* One request the policy sends to a person, one it allows outright.
MCRequests ==
  {[event |-> [event_id |-> "e", event_type |-> "GHL_CONTACT_TAG_REQUEST"],
    intelligence |-> Analysis("REVIEW", 90, "INTERNAL")],
   [event |-> [event_id |-> "e", event_type |-> "ORDER_CREATED"],
    intelligence |-> Analysis("REVIEW", 90, "COMMERCE")]}

Symmetry == Permutations(Clients)
============================================================================
