CONSTANTS
  Key = {1, 2, 3}
  MaxSequence = 3
  MaxGeneration = 9
  OutputLimit = 2
  Background = FALSE
  MemTableLimit = 3
  Level0Trigger = 2
  Calls = {"flush", "compact"}
  Deletable = {1}
  SyncModes = {TRUE, FALSE}
  Ordered = TRUE
  MaxCrashes = 1
  MaxFailures = 0
SPECIFICATION Spec
INVARIANTS ReadsMatchHistory AckedDurable DirectoryOpens FrontierIsComplete PendingEditAccepted
