SPECIFICATION Spec
CONSTANTS
  NoLock = NoLock
  NoOp = NoOp
  L1 = L1  L2 = L2  L3 = L3
  o1 = o1  o2 = o2  o3 = o3
  Locks <- TwoLocks
  LockOf <- TwoServers
  Ops <- TwoOps
  MaxWals = 3
  FlushCells = 2
  Faults <- DegradedFaults
  MaxFaults = 3
  Retries = TRUE
INVARIANTS
  TypeOK
  FlushedOnce
CHECK_DEADLOCK FALSE
