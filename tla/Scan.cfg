CONSTANTS
    MaxByte = 1
    MaxKeySize = 2
    MaxValueSize = 1
    RecordHeader = 1
    BlockHeader = 1
    BlockSize = 7
    BloomEnabled = TRUE
    BitsPerKey = 3
    MinimumBits = 4
    MaximumHashes = 2
    HashWidth = 3
    FirstHash <- MCFirstHash
    SecondHash <- MCSecondHash
    Key <- MCKey
    Call <- MCCall
    Limit = {1, 2}
    MaximumScanEntries = 4
    MaxWrites = 3
    MaxFailures = 1
SPECIFICATION Spec
INVARIANTS TypeOK TablesOpen GetMatchesHistory ScanListsAll PagesConsistent PagesComplete
