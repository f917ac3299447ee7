SPECIFICATION Spec
CONSTANTS
  s1 = s1  s2 = s2
  SeqIds = {s1, s2}
  Prompts <- MCPrompts
  NumLayers = 2
  Sizes <- MCSizes
  Images = {0, 1, 2}  ImagesPerSeq = {1, 2}
  TokensPerImage = 2
  BlockSize = 2
  Tables <- MCTables
  MaxGenerated = 3
INVARIANTS ViewsFit HiddenIsTheModels CacheIsComplete SampledFromLast
CHECK_DEADLOCK FALSE
