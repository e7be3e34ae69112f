SPECIFICATION Spec
CONSTANTS
  MinTrial = 3
  MinChunkPick = 5
  MaxSampled = 100
  Failed = 1000
  BlockLen = 4
  WordMod = 8
  ByteBits = 2
  CbcLen = 3
  Aes <- MCAes
  Iv <- MCIv
  Jobs <- MCJobs
  Probes <- MCProbes
  Slice = 8
  MinChunk = 4
  HeadLen = 3
  X86Len = 9
  X86Bytes = {232, 0, 255}
  Words <- MCWords
  MaxWords = 3
  MsgLen = 13
  CryptLen = 9
CHECK_DEADLOCK FALSE
INVARIANTS Restores DigestCutFree
