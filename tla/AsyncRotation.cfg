CONSTANTS
  Key = {1, 2}
  MaxSequence = 2
  MaxGeneration = 4
  OutputLimit = 2
  Background = TRUE
  MemTableLimit = 1
  Level0Trigger = 3
  Calls = {}
  Deletable = {1}
  SyncModes = {TRUE, FALSE}
  Ordered = TRUE
  MaxCrashes = 0
  MaxFailures = 0
SPECIFICATION Spec
INVARIANTS DirectoryOpens
