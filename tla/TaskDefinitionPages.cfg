CONSTANTS
    Images = {"a", "b"}
    PageSize = 1
    MaxLives = 1
    MaxEdits = 1
    MaxDrifts = 0
    MaxFaults = 0
SPECIFICATION Spec
INVARIANTS NoOrphan
CHECK_DEADLOCK FALSE
