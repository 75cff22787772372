SPECIFICATION FairSpec
CONSTANTS
  MaxFates = 5
  Faults <- AllFaults
  MaxFaults = 4
INVARIANTS
  OneTransaction
  GivenUpIsImported
  StagedForImport
PROPERTIES
  PromotionEnds
CHECK_DEADLOCK FALSE
