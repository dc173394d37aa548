SPECIFICATION Spec
CONSTANTS MaxLives = 2
INVARIANT WrModeKnown
CHECK_DEADLOCK FALSE
