SPECIFICATION Spec
CONSTANTS
  GpuBlock = {b1, b2, b3, b4, b5}
  CpuBlock = {c1, c2, c3}
  g1 = g1  g2 = g2  g3 = g3  sys = sys
  g1p = g1p  g1c = g1c  g2p = g2p  g2c = g2c  g3p = g3p  g3c = g3c
  SeqId <- MCSeqId
  Group = {g1, g2}
  Parent <- MCParent
  Child <- MCChild
  Prefix = {}
  PrefixLen <- NoLengths
  PrefixOf <- NoPrefixes
  NoPrefix = NoPrefix
  BlockSlidingWindow = 0
  Watermark = 20
  BlockSize = 2
  PromptLens = {2, 3}
  MaxTokens = 5
  WithFork = TRUE
  WithSwap = TRUE
  RecomputesForks = FALSE
SYMMETRY BlockSymmetry
INVARIANTS NoError RefCounts TablesMatchStatus
PROPERTY SoleWriter
CHECK_DEADLOCK FALSE
