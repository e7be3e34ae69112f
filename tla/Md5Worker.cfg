SPECIFICATION FairSpec
CONSTANTS
  Capacity = 2
  MaxChunks = 2
  MaxChunk = 5
INVARIANTS TypeOK BufferOwned DigestInOrder DigestComplete
PROPERTIES Terminates
