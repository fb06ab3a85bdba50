SPECIFICATION FairSpec
CONSTANTS
  Collectives <- Barriers
  Window = 2
  IdCycle = 2
INVARIANTS SchedulesInform
PROPERTIES ImplementsBarrier AllEnd
CHECK_DEADLOCK FALSE
