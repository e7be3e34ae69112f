SPECIFICATION Spec
CONSTANTS
    TagBits = 4
    HashBits = 2
    InitialFreq = 1
    MaxChainLen = 2
    PageSize = 2
    Bytes <- MCBytes
    HashIndex <- MCHashIndex
    Chunks <- MCChunks
    MinimumMatch = 3
    GreatMatch = 4
    MaxToken = 4
    MmapSize = 100
INVARIANTS RoundTrip Findable TableSound
