SPECIFICATION Spec
CONSTANTS
    Frames <- MCFrames
    MaxFrames <- MCMaxFrames
    Allowlist = TRUE
    Detector = FALSE
    CanAbort = FALSE
    QueueMax = 2
    BatchSize = 2
    MaxEvents = 5
    MaxFaults = 1
    CanTimeout = FALSE
INVARIANTS
    AuditTrail
PROPERTIES
    SessionEnds
    LogSpec
