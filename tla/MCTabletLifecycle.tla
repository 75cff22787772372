------------------------- MODULE MCTabletLifecycle -------------------------
(* One tablet, two or three assignments, one or two lock generations.      *)
EXTENDS TabletLifecycle

AllFaults == FaultClasses
NoFaults == {}
=============================================================================
