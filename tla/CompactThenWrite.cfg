CONSTANTS
  Key = {1, 2}
  MaxSequence = 3
  MaxGeneration = 5
  OutputLimit = 2
  Background = TRUE
  MemTableLimit = 2
  Level0Trigger = 3
  Calls = {"compact"}
  Deletable = {1}
  SyncModes = {TRUE}
  Ordered = TRUE
  MaxCrashes = 0
  MaxFailures = 1
SPECIFICATION Spec
INVARIANTS AckedDurable
