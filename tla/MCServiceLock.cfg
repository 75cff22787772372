SPECIFICATION Spec
CONSTANTS
  c1 = c1  c2 = c2  c3 = c3
  w1 = w1  w2 = w2
  NoNode = NoNode
  Candidates <- TwoCandidates
  Watchers <- TwoWatchers
  Main <- w1
  Faults <- AllFaults
  MaxFaults = 1
INVARIANTS
  HolderIsLowest
  SweptLeavesNothing
PROPERTIES
  WaitEnds
  LossEndsHosting
  WatchersReturn
CHECK_DEADLOCK FALSE
