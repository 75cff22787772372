SPECIFICATION FairSpec
CONSTANTS
  MaxAttempts = 2
  MaxGenerations = 2
  Faults <- AllFaults
  MaxFaults = 1
INVARIANTS
  ServedIsExposed
  ExposedIsTracked
  ServedOwnsRow
PROPERTIES
  LoadSettles
CHECK_DEADLOCK FALSE
