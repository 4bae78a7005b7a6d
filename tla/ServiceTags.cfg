CONSTANTS
    Fields = {"DesiredCount", "Tags"}
    Values = {0, 1}
    Nil = Nil
    ByRef = FALSE
    Unmanages = FALSE
    DriftFields = {}
    OthersDelete = FALSE
    MaxLives = 1
    MaxEdits = 1
    MaxDrifts = 0
    MaxFaults = 0
    MaxRefs = 0
SPECIFICATION Spec
PROPERTIES TagEditIsKept
CHECK_DEADLOCK FALSE
