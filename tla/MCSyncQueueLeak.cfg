SPECIFICATION Spec
CONSTANTS
  t1 = t1
  t2 = t2
  t3 = t3
  k1 = k1
  k2 = k2
  NoKey = NoKey
  NoPromise = NoPromise
  Tasks <- MCTasks
  Keys <- MCKeys
  MaxCrashes = 0
INVARIANT IdleKeyHasNoEntry
CHECK_DEADLOCK FALSE
