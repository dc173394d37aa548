SPECIFICATION FairSpec
CONSTANTS
  NumChan = 2
  Depth = 8
  Capacity = 8
  MaxTs = 4
  Crowd = FALSE
  Redo = 2
  MaxEnables = 1
  MaxDisables = 0
  MaxFails = 1
INVARIANTS TransferredIsDelivered
PROPERTIES ImplementsStream DeliversAll HandlerEnds
\* Once the pulses and the requests allowed by the bounds are used up the
\* system has nothing left to do.
CHECK_DEADLOCK FALSE
