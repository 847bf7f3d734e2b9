CONSTANTS
    Writers = {w1, w2}
    Own = w1
    MaxRows = 4
    MaxTime = 4
    Tails = {0, 1, 2}
    PollLimit = 1
    MaxRequests = 3
    TTL = 1
    RequestTimeout = 2
    WarmUp = 1
    Day = 2
    ProbeRows = 1
    ProbeTime = 2
    ReportRows = 2
SPECIFICATION Spec
INVARIANTS
    AnswersFresh
    ScansSpaced
    CountedOnce
    SentIsLogged
PROPERTIES
    FollowsLog
CONSTRAINT Explored
CHECK_DEADLOCK FALSE
