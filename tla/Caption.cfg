SPECIFICATION Spec
CONSTANTS
  NumKeys = 3
  BatchSize = 2
  MaxRuns = 3
INVARIANTS CaptionsOnlyGrow ExitMeansComplete FirstRunKeepsACopy
PROPERTY RunEnds
CHECK_DEADLOCK FALSE
