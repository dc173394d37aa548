SPECIFICATION FairSpec
CONSTANTS
  NumChan = 1
  BufSize = 3
  BurstSize = 2
  MaxTs = 3
  Overfill = FALSE
  MaxSets = 0
  MaxToggles = 1
  MaxFails = 0
  QuickTail = TRUE
PROPERTIES ImplementsStream DeliversAll MaskRestored ArmFires
\* Once the pulses and the requests allowed by the bounds are used up the
\* system has nothing left to do.
CHECK_DEADLOCK FALSE
