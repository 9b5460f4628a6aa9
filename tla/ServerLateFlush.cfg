CONSTANTS
  Loops = 2
  Conns = {c1, c2}
  MaxRequests = 1
  Limits <- MCLimits
  Idle = Idle
SPECIFICATION FairSpec
INVARIANT FlushFindsCodec
CHECK_DEADLOCK FALSE
