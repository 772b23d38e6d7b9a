CONSTANTS
  Caller = {c1, c2}
  Calls = {"put", "flush", "compact", "wait", "close"}
  MemTableLimit = 1
  Level0Trigger = 1
  MaxWrites = 2
  MaxFailures = 2
SPECIFICATION Spec
INVARIANTS TypeOK PublishingAlone CloseComplete
PROPERTIES FlushIsDue CallsReturn RequestsServed
