SPECIFICATION FairSpec
CONSTANTS
  r1 = r1
  r2 = r2
  r3 = r3
  h1 = h1
  None = None
  Requests <- MCRequests
  Heartbeats <- MCHeartbeats
INVARIANTS TypeOK AnsweredOnce OwnResponse SentInOrder HeartbeatPending ClosedByPeerOrTimeout
PROPERTIES CloseAnswersAll RequestEnds
CHECK_DEADLOCK FALSE
