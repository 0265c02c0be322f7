CONSTANTS
    e = e
    p = p
    n = n
    s = s
    l = l
    a = a
    b = b
    g = g
    k = k
    v = v
    hv = hv
    h1 = h1
    h2 = h2
    Path <- MCPath
    Hash <- MCHash
    Zero = Zero
    Absent = Absent
    Untouched = Untouched
    Damaged = Damaged
    Dir <- MCDir
    Inside <- MCInside
    SxsDir <- MCSxsDir
    HivePath <- MCHivePath
    Engines <- MCEngines
    Fonts <- MCFonts
    Storage <- MCStorage
SYMMETRY Symmetry
SPECIFICATION Spec
INVARIANTS
    TypeOK
    NeverPanics
    RefsExact
    OutputIsTrimmed
    ForeignPayloadDropped
PROPERTIES
    ImplementsFileStore
CHECK_DEADLOCK FALSE
