SPECIFICATION Spec
CONSTANTS
  N = 2
  SndBuf = 2
  kBlockSize = 2
  kDefaultInitialSize = 1
PROPERTY ClosesAfterResponse
CHECK_DEADLOCK FALSE
