SPECIFICATION Spec
CONSTANTS
  NumChan = 1
  BufSize = 3
  BurstSize = 2
  MaxTs = 4
  Overfill = FALSE
  MaxSets = 0
  MaxToggles = 3
  MaxFails = 0
  QuickTail = TRUE
INVARIANTS TypeOK NoOverlap CountMatchesBuffer OutIncreasing DoneWillCome
\* Once the pulses and the requests allowed by the bounds are used up the
\* system has nothing left to do.
CHECK_DEADLOCK FALSE
