SPECIFICATION Spec
CONSTANTS
    Sizes <- UnevenSizes
    MaxMemoryBytes = 3
    MaxBatchBytes = 1
    MaxRetries = 1
    MaxSessionBytes = 2
    Faults <- CommitFault
    MaxFaults = 1
INVARIANTS FlushedIsApplied
CHECK_DEADLOCK FALSE
