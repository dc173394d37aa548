SPECIFICATION FairSpec
CONSTANTS
  NumChan = 1
  Depth = 4
  Capacity = 4
  MaxTs = 3
  Crowd = TRUE
  Redo = 2
  MaxEnables = 1
  MaxDisables = 0
  MaxFails = 0
PROPERTIES HandlerEnds
\* Once the pulses and the requests allowed by the bounds are used up the
\* system has nothing left to do.
CHECK_DEADLOCK FALSE
