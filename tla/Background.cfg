CONSTANTS
  Key = {1, 2}
  MaxSequence = 3
  MaxGeneration = 4
  OutputLimit = 2
  Background = TRUE
  MemTableLimit = 1
  Level0Trigger = 2
  Calls = {"flush"}
  Deletable = {1}
  SyncModes = {TRUE}
  Ordered = TRUE
  MaxCrashes = 1
  MaxFailures = 1
SPECIFICATION Spec
INVARIANTS ReadsMatchHistory AckedDurable DirectoryOpens FrontierIsComplete PendingEditAccepted
