SPECIFICATION Spec
CONSTANTS
  GpuBlock = {b1, b2, b3, b4, b5}
  CpuBlock = {c1}
  g1 = g1  g2 = g2  g3 = g3  sys = sys
  g1p = g1p  g1c = g1c  g2p = g2p  g2c = g2c  g3p = g3p  g3c = g3c
  SeqId <- MCSeqId
  Group = {g1, g2}
  Parent <- MCParent
  Child <- MCChild
  Prefix = {}
  PrefixLen <- NoLengths
  PrefixOf <- NoPrefixes
  NoPrefix = NoPrefix
  BlockSlidingWindow = 2
  Watermark = 0
  BlockSize = 2
  PromptLens = {1, 3, 6}
  MaxTokens = 10
  WithFork = FALSE
  WithSwap = FALSE
  RecomputesForks = FALSE
SYMMETRY BlockSymmetry
INVARIANTS RefCounts WindowIsARing
CHECK_DEADLOCK FALSE
