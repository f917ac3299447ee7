SPECIFICATION Spec
CONSTANTS
  NumKeys = 3
  BatchSize = 2
  MaxRuns = 3
INVARIANT ACopySurvives
CHECK_DEADLOCK FALSE
