SPECIFICATION Spec
CONSTANTS
    PipeSize = 1
    HighWater = 2
    MaxReplies = 2
    ServerReads = TRUE
    CanFail = TRUE
INVARIANTS
    ReturnsClean
    NoRecordAfterShutdown
    NoReplyLost
    SignalOnlyAfterEof
PROPERTIES
    ShutdownEnds
