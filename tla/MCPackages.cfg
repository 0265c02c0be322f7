CONSTANTS
    h1 = h1
    h2 = h2
    Hash <- MCHash
    Zero = Zero
    Absent = Absent
    Language <- MCLanguage
    Package <- MCPackage
    Path <- MCPath
    MaxPresent = 2
SYMMETRY Symmetry
SPECIFICATION Spec
INVARIANTS
    TypeOK
    NeverUnreadable
    KeptAsSaid
CHECK_DEADLOCK FALSE
