CONSTANTS
  HistorySize = 4
  MatchMaxLen = 5
  CutValue = 4
  KeepSizeAfter = 8
  MaxAvail = 9
  NormSt = 8
  HashBlock = 3
  HashBlocks = 2
  BtLimit = 4
  BtBlocks = 2
  NormMt = 9
  NormLz = 6
  Inputs <- MCInputs
SPECIFICATION Spec
INVARIANTS MatchesReal NearestFound PipelineSound
PROPERTIES Ends
