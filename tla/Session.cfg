SPECIFICATION Spec
CONSTANTS
  Dirs = {"x", "y"}
  Bases = {"a"}
  Programs = {"lrzip", "lrzcat", "lrz"}
  Configs <- MCConfigs
  Inits <- MCInits
  ArgLists <- MCArgLists
  Options <- MCOptions
  MaxOptions = 3
  Signals = TRUE
INVARIANTS LossIsKnown SuccessIsDone NothingLeft
