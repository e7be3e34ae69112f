SPECIFICATION Spec
CONSTANTS
  Backends = {"lzma", "lzo", "bzip2", "gzip", "zpaq", "none"}
  Chunks = 2
  PerChunk = 2
  MaxLevel = 2
  UltraDict = 4
  MinDict = 1
  DicMin = 1
  Filters = {0, 2}
INVARIANTS BlockRestored FileDictCovers
PROPERTIES Terminates
