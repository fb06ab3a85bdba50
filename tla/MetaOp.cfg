SPECIFICATION FairSpec
CONSTANTS
  MaxOps = 5
  MaxStarts = 4
INVARIANTS TypeOK CompleteRanAll OneAtATime
PROPERTIES Ends
CHECK_DEADLOCK FALSE
