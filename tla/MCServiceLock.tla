--------------------------- MODULE MCServiceLock ---------------------------
(* Two or three candidates for one lock, one or two watchers each.         *)
EXTENDS ServiceLock

CONSTANTS c1, c2, c3, w1, w2

TwoCandidates == {c1, c2}
ThreeCandidates == {c1, c2, c3}
OneWatcher == {w1}
TwoWatchers == {w1, w2}
AllFaults == FaultClasses
=============================================================================
