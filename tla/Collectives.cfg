SPECIFICATION FairSpec
CONSTANTS
  Collectives <- AllCollectives
  Window = 2
  IdCycle = 2
INVARIANTS SchedulesDetermine NoCrossMatch ResultCorrect NothingLeft
PROPERTIES AllEnd
CHECK_DEADLOCK FALSE
