SPECIFICATION FairSpec
CONSTANTS
  Ops = {o1}
  Reqs = {q1, q2, q3}
  NbxOutcomes <- AllOutcomes
  DoneStatus <- AnyStatus
  MaxPosts = 3
  Nil = Nil
INVARIANTS
  TypeOK
  CountersAreOutstanding
  CompletedIsQuiet
  SingleOwner
  ErrorsReachTheOp
PROPERTY OpEnds
CHECK_DEADLOCK FALSE
