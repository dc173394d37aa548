SPECIFICATION Spec
CONSTANTS MaxLives = 2
\* Probing, removing, failures, users and the acquisition, for two lives.
INVARIANTS TypeOK NothingLeaked OopsOnlyIf QuietWithoutDriver BoundWithoutDriver StartsFromItsSettings CellsAreCards
CHECK_DEADLOCK FALSE
