SPECIFICATION Spec
CONSTANTS
  r1 = r1
  r2 = r2
  r3 = r3
  h1 = h1
  None = None
  Requests <- MCTwoRequests
  Heartbeats <- MCHeartbeats
INVARIANT ClosedByPeerOnly
CHECK_DEADLOCK FALSE
