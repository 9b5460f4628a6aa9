SPECIFICATION FairSpec
CONSTANTS
  p1 = p1
  p2 = p2
  Producers <- MCProducers
  Loop = loop
  MaxPost = 2
  MaxNested = 1
  EventFdMax = 3
INVARIANTS NoLostWakeup QuitRunsAccepted
PROPERTIES RunnerSpec PostedTaskRuns QuitEndsLoop
CHECK_DEADLOCK FALSE
