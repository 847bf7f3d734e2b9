CONSTANTS
    Inputs <- MCInputs
SPECIFICATION ConfigSpec
INVARIANTS
    ValidatedLoads
    ValidatedApplies
CHECK_DEADLOCK FALSE
