SPECIFICATION Spec
CONSTANTS
    TagBits = 4
    HashBits = 2
    InitialFreq = 1
    MaxChainLen = 2
    PageSize = 2
    Bytes <- MCBytes
    HashIndex <- MCHashIndex
    Chunks <- MCSlideChunks
    MinimumMatch = 3
    GreatMatch = 4
    MaxToken = 4
    MmapSize = 4
INVARIANTS RoundTrip
