SPECIFICATION GroupFairSpec
CONSTANTS
  w1 = w1
  w2 = w2
  w3 = w3
  Workers <- MCWorkers
  Timeouts = {TRUE, FALSE}
  AddsFirst = {TRUE, FALSE}
INVARIANTS AddedFirstWaits
PROPERTIES WaitEnds LateTimeoutIsRace
CHECK_DEADLOCK FALSE
