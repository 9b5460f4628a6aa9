SPECIFICATION LifeFairSpec
CONSTANTS
  owner = owner
  t1 = t1
  t2 = t2
  Threads <- MCOneThread
  Owner = owner
PROPERTY StartReturns
CHECK_DEADLOCK FALSE
