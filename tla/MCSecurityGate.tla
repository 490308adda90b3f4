--------------------------- MODULE MCSecurityGate ---------------------------
(* Instances of SecurityGate for TLC. *)
EXTENDS SecurityGate, TLC

CONSTANTS r1, r2, r3, r4

TwoRequests == {r1, r2}
FourRequests == {r1, r2, r3, r4}
LimitOfOne == [b \in Buckets |-> 1]
RequestSymmetry == Permutations(Requests)
=============================================================================
