SPECIFICATION Spec
CONSTANTS
  MaxFds = 3
  Required = 2
  kConnetBatchCount = 1
  Refuses = TRUE
  MaxReports = 3
INVARIANTS ChecksHoldUntilFinalize MissingIsDialled DialsAreBounded
CHECK_DEADLOCK FALSE
