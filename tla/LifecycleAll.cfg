SPECIFICATION LifeFairSpec
CONSTANTS
  owner = owner
  t1 = t1
  t2 = t2
  Threads <- MCThreads
  Owner = owner
INVARIANTS LifeTypeOK DestroyedIsQuiet StartedMeansRan WaitMeansQuit
PROPERTY DestroyEnds
CHECK_DEADLOCK FALSE
