CONSTANTS
  Loops = 2
  Conns = {c1, c2}
  MaxRequests = 1
  Limits <- MCLimits
  Idle = Idle
SPECIFICATION FairSpec
INVARIANTS CountIsStored LimitHolds CloseFindsStarted SameLoopIsSafe StopReports StoppedIsEmpty
PROPERTIES StopReported
CHECK_DEADLOCK FALSE
