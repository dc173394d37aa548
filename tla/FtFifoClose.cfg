SPECIFICATION Spec
CONSTANTS
  NumChan = 1
  Depth = 4
  Capacity = 3
  MaxTs = 5
  Crowd = TRUE
  Redo = 2
  MaxEnables = 3
  MaxDisables = 2
  MaxFails = 1
INVARIANTS TypeOK CountStaysTrue OutIncreasing
\* Once the pulses and the requests allowed by the bounds are used up the
\* system has nothing left to do.
CHECK_DEADLOCK FALSE
