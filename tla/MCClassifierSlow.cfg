SPECIFICATION Spec
CONSTANTS
    Texts = {t1}
    Threshold = 3
    OpenFor = 2
    Ttl = 1
    CanTimeout = TRUE
INVARIANTS
    UnansweredCallsOpen
