SPECIFICATION Spec
CONSTANTS
  NoRow = NoRow
  NoLock = NoLock
  T1 = T1  T2 = T2
  L1 = L1  L2 = L2  L3 = L3
  M1 = M1  M2 = M2
  Tables <- TwoTables
  Extents <- SplitExtents
  ServerLocks <- ThreeServerLocks
  ManagerLocks <- TwoManagerLocks
  Sequence <- MCSequence
  MaxAttempts = 3
INVARIANTS
  TypeOK
  OverlapCheckExact
  HostedWasLoaded
PROPERTIES
  AttemptNeverRevived
  SupersededManagerNeverReturns
  ImplementsContract
CHECK_DEADLOCK FALSE
