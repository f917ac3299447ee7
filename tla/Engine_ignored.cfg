SPECIFICATION Spec
CONSTANTS
  r1 = r1  r2 = r2  r3 = r3  Nobody = Nobody  NoPrefix = NoPrefix
  SeqId <- Two
  BestOf <- AllOne
  GpuBlock = {b1, b2, b3}
  CpuBlock = {c1}
  Prefix = {}
  PrefixLen <- NoLengths
  PrefixOf <- NoPrefixes
  BlockSlidingWindow = 0
  Watermark = 0
  BlockSize = 2
  MaxModelLen = 7
  MaxNumBatchedTokens = 8
  MaxNumSeqs = 6
  ImgTokens = 0
  PromptLens = {1, 3}
  MaxTokens = 5
SYMMETRY AllSymmetry
INVARIANT OnlyLongPromptsIgnored
CHECK_DEADLOCK FALSE
