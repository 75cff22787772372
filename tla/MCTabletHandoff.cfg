SPECIFICATION FairSpec
CONSTANTS
  NoLock = NoLock
  NoOp = NoOp
  L1 = L1  L2 = L2  L3 = L3
  o1 = o1  o2 = o2  o3 = o3
  Locks <- TwoLocks
  LockOf <- Reassigned
  Ops <- TwoOps
  MaxWals = 4
  FlushCells = 1
  Faults <- HandoffFaults
  MaxFaults = 3
  Retries = TRUE
PROPERTIES
  ImplementsContract
  CallsEnd
CHECK_DEADLOCK FALSE
