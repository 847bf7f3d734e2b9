SPECIFICATION Spec
CONSTANTS
    Texts = {t1, t2}
    Threshold = 2
    OpenFor = 2
    Ttl = 1
    CanTimeout = TRUE
INVARIANTS
    LabelIsRecent
    OutageCostBounded
PROPERTIES
    BreakerRecloses
