CONSTANTS
  Loops = 2
  Conns = {c1, c2}
  MaxRequests = 1
  Limits <- MCLimits
  Idle = Idle
SPECIFICATION FairSpec
INVARIANTS TypeOK CountIsStored LimitHolds CloseFindsStarted SameLoopIsSafe StopReports StoppedIsEmpty
PROPERTIES StopReported ClosedIsRemoved
CHECK_DEADLOCK FALSE
