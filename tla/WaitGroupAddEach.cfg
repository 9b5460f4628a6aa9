SPECIFICATION GroupSpec
CONSTANTS
  w1 = w1
  w2 = w2
  w3 = w3
  Workers <- MCWorkers
  Timeouts = {FALSE}
  AddsFirst = {FALSE}
INVARIANT SuccessMeansDone
CHECK_DEADLOCK FALSE
