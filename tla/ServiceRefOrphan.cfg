CONSTANTS
    Fields = {"DesiredCount"}
    Values = {0, 1}
    Nil = Nil
    ByRef = TRUE
    Unmanages = TRUE
    DriftFields = {"DesiredCount"}
    OthersDelete = FALSE
    MaxLives = 1
    MaxEdits = 1
    MaxDrifts = 1
    MaxFaults = 0
    MaxRefs = 2
SPECIFICATION Spec
INVARIANTS NoOrphan
CHECK_DEADLOCK FALSE
