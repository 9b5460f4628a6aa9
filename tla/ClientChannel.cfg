SPECIFICATION FairSpec
CONSTANTS
  r1 = r1
  r2 = r2
  r3 = r3
  h1 = h1
  None = None
  Requests <- MCRequests
  Heartbeats <- MCHeartbeats
INVARIANTS AnsweredOnce OwnResponse
PROPERTIES CloseAnswersAll RequestEnds
CHECK_DEADLOCK FALSE
