SPECIFICATION Spec
CONSTANTS
  r1 = r1  r2 = r2  r3 = r3  Nobody = Nobody  NoPrefix = NoPrefix
  SeqId <- Three
  BestOf <- AllOne
  GpuBlock = {b1, b2, b3, b4, b5}
  CpuBlock = {c1}
  Prefix = {}
  PrefixLen <- NoLengths
  PrefixOf <- NoPrefixes
  BlockSlidingWindow = 0
  Watermark = 20
  BlockSize = 2
  MaxModelLen = 6
  MaxNumBatchedTokens = 6
  MaxNumSeqs = 3
  ImgTokens = 0
  PromptLens = {1, 4, 6}
  MaxTokens = 3
SYMMETRY AllSymmetry
INVARIANTS WritesAreExclusive KvIntact NothingToCopy BatchLimits NoOvertaking NoSpareBlocks NoStepError
PROPERTIES LatestIsPreempted ImplementsService
CHECK_DEADLOCK FALSE
