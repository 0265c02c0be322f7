CONSTANTS
    Missing <- MCMissing
    MaxLeft = 2
SPECIFICATION CleanupSpec
INVARIANTS
    CleanupTypeOK
    EssentialsStay
CHECK_DEADLOCK FALSE
