SPECIFICATION Spec
CONSTANTS
  NoLock = NoLock
  NoOp = NoOp
  L1 = L1  L2 = L2  L3 = L3
  o1 = o1  o2 = o2  o3 = o3
  Locks <- ThreeLocks
  LockOf <- ThreeServers
  Ops <- TwoOps
  MaxWals = 4
  FlushCells = 2
  Faults <- TakeoverFaults
  MaxFaults = 3
  Retries = TRUE
INVARIANTS
  
  
  FlushedOnce

  
CHECK_DEADLOCK FALSE
