SPECIFICATION Spec
CONSTANTS
  BatchSizes = {1, 2, 3}
  PromptLens = {1, 3, 4}
  GenLens = {1, 3, 5}
  Images = {0, 2}
  ExtraBlocks <- PoolSizes
  BlockSize = 2
  WatermarkPercent = 25
  MaxNumSeqs = 3
  MaxNumBatchedTokens = 6
  MaxModelLen = 4
INVARIANTS LauncherPoolSuffices TokensCounted KvIntact AnswersAreReal BenchmarkNeverFails
CHECK_DEADLOCK FALSE
