SPECIFICATION FairSpec
CONSTANTS
    Sizes <- UnevenSizes
    MaxMemoryBytes = 3
    MaxBatchBytes = 1
    MaxRetries = 1
    MaxSessionBytes = 2
    Faults <- EveryFault
    MaxFaults = 3
INVARIANTS
  InOrderFlushIsApplied
  AppliedOnce
  NothingVanishes
  DrainedIsQuiet
PROPERTIES
  FlushReturns
CHECK_DEADLOCK FALSE
