SPECIFICATION Spec
CONSTANTS
    Key = {1}
    MaxSequence = 2
    MaxGeneration = 1
    OutputLimit = 1
    HeaderSize = 3
    ValueSize = 1
    MaxRecordSize = 6
    MaxCrashes = 2
    MaxFailures = 1
    MaxDamage = 2
    Detectable = TRUE
INVARIANTS
    TypeOK
    StrictSurvives
    AnsweredInFile
    RecoversPrefix
    MemtableIsLog
    NeverCorrupt
    OpenedUndamaged
PROPERTIES
    RecordsKept
    ImplementsLog
