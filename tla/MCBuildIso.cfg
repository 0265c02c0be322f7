CONSTANTS
    MaxRuns = 2
SPECIFICATION Spec
INVARIANTS
    TypeOK
    RootTrimmed
PROPERTIES
    TreePreparedFirst
    ImplementsOutput
CHECK_DEADLOCK FALSE
