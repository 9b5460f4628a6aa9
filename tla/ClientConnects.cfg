SPECIFICATION FairSpec
CONSTANTS
  MaxFds = 3
  Required = 2
  kConnetBatchCount = 2
  Refuses = FALSE
  MaxReports = 0
PROPERTY Connects
CHECK_DEADLOCK FALSE
