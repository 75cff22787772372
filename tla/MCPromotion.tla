----------------------------- MODULE MCPromotion ----------------------------
(* Both modes, with and without something to import.                       *)
EXTENDS Promotion

AllFaults == FaultClasses
OnlyTear == {"tear"}
=============================================================================
