SPECIFICATION FairSpec
CONSTANTS
  Cpus = 2
  NoCompress = FALSE
  Encrypt = FALSE
  Stdout = FALSE
  MinThreads = 2
  Start = 1
  MaxChunks = 2
  MaxFlush = 1
  MaxFaults = 1
INVARIANTS TypeOK OneWriter BlocksInOrder StreamChains SuccessIsComplete
PROPERTIES Terminates ImplementsOrderedOutput
