SPECIFICATION FairSpec
CONSTANTS
  NumWorkers = 3
  NumTasks = 3
INVARIANTS
  PoolInv
  TakeFindsTask
  RunsOnce
  NobodySleeps
PROPERTIES
  TasksRun
  AllWorkersLeave
CHECK_DEADLOCK FALSE
