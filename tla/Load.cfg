SPECIFICATION Spec
CONSTANTS
  RowFine = 2  ColMid = 2  ColFine = 1
  Sizes <- MCSizes
  NumExperts = 2
  VocabSize = 4  CkptVocabSize = 3
  Orders <- MCOrders
INVARIANTS FusedAsPacked OthersLoaded OnlyOddSizesFail
CHECK_DEADLOCK FALSE
