SPECIFICATION Spec
CONSTANTS
  NumChan = 1
  BufSize = 2
  BurstSize = 2
  MaxTs = 3
  Overfill = TRUE
  MaxSets = 0
  MaxToggles = 1
  MaxFails = 0
  QuickTail = TRUE
INVARIANT CountMatchesBuffer
\* Once the pulses and the requests allowed by the bounds are used up the
\* system has nothing left to do.
CHECK_DEADLOCK FALSE
