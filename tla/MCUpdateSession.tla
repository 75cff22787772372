-------------------------- MODULE MCUpdateSession --------------------------
EXTENDS UpdateSession

\* The second mutation does not fit beside the third; three make a batch each.
UnevenSizes == <<1, 1, 1, 2>>
EveryFault == FaultClasses
CommitFault == {"commit"}
=============================================================================
