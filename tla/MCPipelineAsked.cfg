CONSTANTS
    MaxImage = 2
    Outs <- MCOut
    MaxRuns = 2
SPECIFICATION Spec
INVARIANTS
    OutputIsAskedImage
CHECK_DEADLOCK FALSE
