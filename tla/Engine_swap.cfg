SPECIFICATION Spec
CONSTANTS
  r1 = r1  r2 = r2  r3 = r3  Nobody = Nobody  NoPrefix = NoPrefix
  SeqId <- Three
  BestOf <- TwoTwo
  GpuBlock = {b1, b2, b3}
  CpuBlock = {c1, c2, c3}
  Prefix = {}
  PrefixLen <- NoLengths
  PrefixOf <- NoPrefixes
  BlockSlidingWindow = 0
  Watermark = 0
  BlockSize = 2
  MaxModelLen = 7
  MaxNumBatchedTokens = 8
  MaxNumSeqs = 4
  ImgTokens = 0
  PromptLens = {1, 3}
  MaxTokens = 4
SYMMETRY BlockSymmetry
INVARIANTS QueuesMatchStatus BlocksMatchStatus RefCounts BatchLimits
CHECK_DEADLOCK FALSE
