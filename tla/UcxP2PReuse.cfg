CHECK_DEADLOCK FALSE
SPECIFICATION Spec
CONSTANTS
  Ops = {o1, o2}
  Reqs = {q1, q2}
  NbxOutcomes <- AllOutcomes
  DoneStatus <- AnyStatus
  MaxPosts = 2
  Nil = Nil
SYMMETRY Sym
INVARIANT NoCallbackIntoReusedOp
