SPECIFICATION FairSpec
CONSTANTS
  Threads = 2
  BufSize = 2
  MaxRam = 3
  Window = 3
  Framed = FALSE
  MaxFull = 5
  MaxFaults = 2
INVARIANTS InOrder ClosedIsComplete RamBounded
PROPERTIES Terminates
