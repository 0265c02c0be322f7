CONSTANTS
    BytesPerSector = 8
    RootEntries = 5
    DirEntryBytes = 2
    MinDataClusters = 16
    Word = 64
    MinFAT16 = 14
    MaxLen = 416
SPECIFICATION Spec
INVARIANTS
    TypeOK
    ExtentsDisjoint
    ChainReadsFile
    CountsAsFAT16
    ReaderFindsFile
CHECK_DEADLOCK FALSE
