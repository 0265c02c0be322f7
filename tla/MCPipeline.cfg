CONSTANTS
    MaxImage = 2
    Outs <- MCOuts
    MaxRuns = 2
SPECIFICATION Spec
INVARIANTS
    TypeOK
    SuccessMeansWhole
    FreshRunGivesAskedImage
    IsoHoldsThisRunsWims
    ExportsCleaned
    OutputsHaveExports
CHECK_DEADLOCK FALSE
