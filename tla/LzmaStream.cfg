CONSTANTS
  ByteBits = 2
  ProbBits = 2
  MoveBits = 1
  LowBits = 1
  HighBits = 1
  SlotBits = 3
  EndSlot = 6
  AlignBits = 1
  LenStates = 2
  Lc = 1
  Lp = 0
  Pb = 1
  DictSize = 11
  DictLogMin = 1
  RcBufSize = 4
  RequiredMax = 10
  NumFastBytes = 4
  NumOpts = 8
  OptMargin = 2
  ChangeShift = 1
  FarPair = 4
  FarRep2 = 5
  FarRep3 = 7
  BlockMax = 5
  Rooms = {8, 99}
  Texts <- MCTexts
  Modes <- MCModes
  PriceTables <- MCPriceTables
  Damaged <- MCDamaged
SPECIFICATION Spec
INVARIANTS ParseLegal InStep RoundTrip DecoderSound
