SPECIFICATION Spec
CONSTANTS
  Cpus = 2
  NoCompress = FALSE
  Encrypt = TRUE
  Stdout = TRUE
  MinThreads = 2
  Start = 0
  MaxChunks = 2
  MaxFlush = 1
  MaxFaults = 1
INVARIANTS EofIsLast
PROPERTIES Immutable
