CONSTANTS
  NumWorkers = 3
  NumTasks = 3
SPECIFICATION FairSpec
INVARIANTS
  NoNullTask
  NoLostWakeup
  TaskConservation
  FlagsLiveWorker
  NoSleeperAfterBroadcast
PROPERTIES
  Implements
  ListedTaskRuns
  DestroyReturns
