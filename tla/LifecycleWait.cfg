SPECIFICATION LifeSpec
CONSTANTS
  owner = owner
  t1 = t1
  t2 = t2
  Threads <- MCTwoThreads
  Owner = owner
INVARIANT WaitSeesEnd
CHECK_DEADLOCK FALSE
