--------------------------- MODULE MCHostedTablet ---------------------------
(* Two or three batches, and attempts under up to three lock generations.  *)
EXTENDS HostedTablet, TLC

CONSTANTS L1, L2, L3, o1, o2, o3

TwoLocks == {L1, L2}
ThreeLocks == {L1, L2, L3}
TwoServers == 1 :> L1 @@ 2 :> L2
ThreeServers == 1 :> L1 @@ 2 :> L2 @@ 3 :> L3
Reassigned == 1 :> L1 @@ 2 :> L1 @@ 3 :> L2
TwoOps == {o1, o2}
ThreeOps == {o1, o2, o3}
TakeoverFaults == {"crash", "lockloss", "io"}
HandoffFaults == {"unload", "crash", "io"}
DegradedFaults == {"lockloss", "cancel", "manager", "ambiguous", "late"}
=============================================================================
