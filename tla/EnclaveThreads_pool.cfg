SPECIFICATION FairSpec
CONSTANTS
  MaxThreads = 4
  Ids = {101, 102}
CHECK_DEADLOCK FALSE
INVARIANTS
  ArgsAlive
  NeverAborts
  RoutinesTakenOnce
  PoolHasStopped
PROPERTIES
  ThreadCallsReturn
