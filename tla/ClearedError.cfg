SPECIFICATION Spec
CONSTANTS
    Caller = {c1}
    Calls = {"put", "compact"}
    MemTableLimit = 1
    Level0Trigger = 2
    MaxWrites = 3
    MaxFailures = 2
PROPERTIES
    WritesReturn
