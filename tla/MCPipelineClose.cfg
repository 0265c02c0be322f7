CONSTANTS
    MaxImage = 1
    Outs <- MCOut
    MaxRuns = 1
SPECIFICATION Spec
INVARIANTS
    WroteMeansWritten
CHECK_DEADLOCK FALSE
