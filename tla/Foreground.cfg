CONSTANTS
  Key = {1, 2}
  MaxSequence = 3
  MaxGeneration = 5
  OutputLimit = 1
  Background = FALSE
  MemTableLimit = 2
  Level0Trigger = 2
  Calls = {"flush", "compact"}
  Deletable = {1}
  SyncModes = {TRUE}
  Ordered = TRUE
  MaxCrashes = 1
  MaxFailures = 1
SPECIFICATION Spec
INVARIANTS TypeOK ReadsMatchHistory AckedDurable DirectoryOpens FrontierIsComplete PendingEditAccepted
PROPERTIES FileNumbersKept
