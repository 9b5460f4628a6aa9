SPECIFICATION MutexFairSpec
CONSTANTS
  c1 = c1
  c2 = c2
  c3 = c3
  c4 = c4
  here = here
  there = there
  None = None
  Users <- MCCoros
  Loops <- MCLoops
  LoopOf <- MCLoopOf
INVARIANTS MutexTypeOK MutualExclusion
PROPERTIES LockSpec LockIsGranted
