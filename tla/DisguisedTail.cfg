SPECIFICATION Spec
CONSTANTS
    Key = {1}
    MaxSequence = 2
    MaxGeneration = 1
    OutputLimit = 1
    HeaderSize = 3
    ValueSize = 1
    MaxRecordSize = 6
    MaxCrashes = 0
    MaxFailures = 0
    MaxDamage = 2
    Detectable = FALSE
PROPERTIES
    RecordsKept
