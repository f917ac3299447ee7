SPECIFICATION FairDriverSpec
CONSTANTS
  r1 = r1  r2 = r2  r3 = r3  Nobody = Nobody  NoPrefix = NoPrefix
  BreakWhenEmpty = FALSE
  SeqId <- Three
  BestOf <- AllOne
  GpuBlock = {b1, b2}
  CpuBlock = {c1}
  Prefix = {}
  PrefixLen <- NoLengths
  PrefixOf <- NoPrefixes
  BlockSlidingWindow = 0
  Watermark = 0
  BlockSize = 2
  MaxModelLen = 5
  MaxNumBatchedTokens = 6
  MaxNumSeqs = 2
  ImgTokens = 0
  PromptLens = {1, 3, 5}
  MaxTokens = 3
INVARIANTS AnswersMatchPrompts EveryRequestCounted
PROPERTIES KeepsServing DriverEnds
CHECK_DEADLOCK FALSE
