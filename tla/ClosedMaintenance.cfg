CONSTANTS
  Caller = {c1, c2}
  Calls = {"put", "flush", "close"}
  MemTableLimit = 1
  Level0Trigger = 2
  MaxWrites = 2
  MaxFailures = 1
SPECIFICATION Spec
PROPERTIES DirectoryOwned
