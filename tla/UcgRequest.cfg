SPECIFICATION FairSpec
CONSTANTS
  Threads = {t1, t2}
  Requests = {r1, r2, r3}
  HasCb = {r2, r3}
  CbFrees = {r3}
  Nil = Nil
  BASE_REQ_ID = 0
  END_REQ_ID = 4
  TriggerOutcomes <- AllOutcomes
  MaxStarts = 4
INVARIANTS
  TypeOK
  LockDiscipline
  PlistIsInProgress
  CursorLinked
  CallbackExactlyOnce
  NoForeignDiscard
  ReqIdFollowsStarts
  ReqIdsDistinctInWindow
PROPERTY StartedCompletes
CHECK_DEADLOCK FALSE
