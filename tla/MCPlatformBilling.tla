--------------------------- MODULE MCPlatformBilling ---------------------------
(* Instances of PlatformBilling for TLC. *)
EXTENDS PlatformBilling, TLC
CONSTANTS o1, p1, r1, r2

OneOrder == {o1}
OnePlan == {p1}
TwoRequests == {r1, r2}

ShortCycle == p1 :> 1
=============================================================================
