SPECIFICATION FairSpec
CONSTANTS
  N = 2
  SndBuf = 2
  kBlockSize = 2
  kDefaultInitialSize = 1
INVARIANTS TypeOK StreamInOrder RequestsInOrder NotifiedOnce NoneAfterClosed ErrorIsStaleWrite FlushOutlivesEnded
PROPERTIES OnlyReplyTruncates OutDrains RequestIsHandled EndCloses ScheduledCloses
CHECK_DEADLOCK FALSE
