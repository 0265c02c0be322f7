CONSTANTS
    a = a
    b = b
    f = f
    hv = hv
    d = d
    h1 = h1
    h2 = h2
    Path <- MCPath
    HivePath <- MCHivePath
    Subtree <- MCSubtree
    Hash <- MCHash
    Zero = Zero
    Absent = Absent
    Untouched = Untouched
    Damaged = Damaged
SPECIFICATION Spec
INVARIANTS
    TypeOK
    RefsNeverExceedTree
    RefsExact
    TreeReadable
PROPERTIES
    OutputLate
    ImplementsFileStore
CHECK_DEADLOCK FALSE
