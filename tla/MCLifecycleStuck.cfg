SPECIFICATION Spec
CONSTANTS
    PipeSize = 1
    HighWater = 2
    MaxReplies = 0
    ServerReads = FALSE
    CanFail = FALSE
PROPERTIES
    SignalEscalates
