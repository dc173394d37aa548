SPECIFICATION Spec
CONSTANTS
  NumChan = 2
  BufSize = 2
  BurstSize = 2
  MaxTs = 1
  Overfill = FALSE
  MaxSets = 1
  MaxToggles = 3
  MaxFails = 2
  QuickTail = FALSE
INVARIANTS NoIrqWhilePending MaskIsSaved PendingIsExact OneTransferPerInput
\* Once the pulses and the requests allowed by the bounds are used up the
\* system has nothing left to do.
CHECK_DEADLOCK FALSE
