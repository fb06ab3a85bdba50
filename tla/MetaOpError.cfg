SPECIFICATION Spec
CONSTANTS
  MaxOps = 5
  MaxStarts = 4
INVARIANTS OkMeansSuccess
CHECK_DEADLOCK FALSE
