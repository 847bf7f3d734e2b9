CONSTANTS
    Process = {p, q}
    Base <- MCBase
    Statements <- MCStatements
    Columns = {"det_verdict", "det_action"}
    Databases <- MCDatabases
    MaxFaults = 2
    MaxOpens = 3
SPECIFICATION Spec
INVARIANTS
    SchemaIsWhole
    RaceIsHarmless
    FailedMigrationReleases
PROPERTY
    OpenCompletes
CHECK_DEADLOCK FALSE
