SPECIFICATION FairSpec
CONSTANTS
  t1 = t1
  t2 = t2
  t3 = t3
  k1 = k1
  k2 = k2
  NoKey = NoKey
  NoPromise = NoPromise
  Tasks <- MCTasks
  Keys <- MCKeys
  MaxCrashes = 1
INVARIANTS
  TypeOK
  FifoPerKey
  ReadyTaskMayStart
PROPERTIES
  EveryTaskEnds
  ImplementsSerialExecutor
CHECK_DEADLOCK FALSE
