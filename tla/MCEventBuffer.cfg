SPECIFICATION Spec
CONSTANTS
    QueueMax = 3
    BatchSize = 2
    MaxEvents = 6
    MaxFaults = 2
    CanTimeout = TRUE
INVARIANTS
    RowsInOrder
    DuplicatesOnlyLastBatch
    NothingVanishes
    KillLosesAtMost
PROPERTIES
    ShutdownCompletes
    EventuallyStored
