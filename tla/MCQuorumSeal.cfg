SPECIFICATION FairSpec
CONSTANTS
  p1 = p1  p2 = p2
  Peers <- OnePeer
  MaxEntries = 1
  BreakerThreshold = 1
  SerialHandlers = FALSE
  HasBucket = TRUE
  Faults <- AllFaults
  MaxFaults = 1
INVARIANTS
  
  PurgedIsUploaded
PROPERTIES
  CloseFinishes
CHECK_DEADLOCK FALSE
