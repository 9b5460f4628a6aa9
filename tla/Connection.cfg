SPECIFICATION FairSpec
CONSTANTS
  N = 2
  SndBuf = 2
  kBlockSize = 2
  kDefaultInitialSize = 1
INVARIANTS StreamInOrder RequestsInOrder NotifiedOnce ErrorIsStaleWrite
PROPERTIES OnlyReplyTruncates OutDrains RequestIsHandled EndCloses
CHECK_DEADLOCK FALSE
