SPECIFICATION Spec
CONSTANTS
  Threads = {t1, t2}
  Requests = {r1, r2}
  HasCb = {r2}
  CbFrees = {r2}
  Nil = Nil
  BASE_REQ_ID = 0
  END_REQ_ID = 4
  TriggerOutcomes <- RegularOutcomes
  MaxStarts = 3
INVARIANT NoUseAfterDiscard
