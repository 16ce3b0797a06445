CONSTANTS
  NumWorkers = 2
  NumTasks = 3
SPECIFICATION MysqlFairSpec
INVARIANTS
  TaskFindsReadyWorker
  DestroyTouchesLiveWorker
PROPERTIES
  ImplementsPool
  WorkersLeave
