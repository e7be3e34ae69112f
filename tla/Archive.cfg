SPECIFICATION Spec
CONSTANTS
  Scenarios <- MCScenarios
  Sizes = {0, 3, 5}
  Comaxes = {17, 99}
  Doutmaxes = {2, 99}
  Dinmaxes = {15, 99}
  ThreadCounts = {1, 2}
  Window = 3
  BufSize = 2
  MaxToken = 2
  S0Win = 3
  PageSize = 2
INVARIANTS SuccessIsRight FailureIsKnown InfoAgrees
