SPECIFICATION Spec
CONSTANTS
    Frames <- MCFrames
    MaxFrames <- MCMaxFrames
    Allowlist = TRUE
    Detector = TRUE
    CanAbort = TRUE
INVARIANTS
    EachMessageOnce
    BlockedNotDelivered
    FailOpenIsAudited
    AuditComplete
    LogOrderIsClientOrder
