CONSTANTS
    Pack <- MCPack
    ShortCircuit = 90
    Frames <- MCFrames
SPECIFICATION Spec
INVARIANTS
    MoreEvidenceNeverMilder
    ShortCircuitIsHarmless
    RelayAgrees
CHECK_DEADLOCK FALSE
