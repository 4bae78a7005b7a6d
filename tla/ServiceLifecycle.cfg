CONSTANTS
    Fields = {"DesiredCount", "CapacityProviderStrategy"}
    Values = {0, 1}
    Nil = Nil
    ByRef = FALSE
    Unmanages = TRUE
    DriftFields = {"DesiredCount", "CapacityProviderStrategy"}
    OthersDelete = FALSE
    MaxLives = 2
    MaxEdits = 2
    MaxDrifts = 1
    MaxFaults = 2
    MaxRefs = 0
SPECIFICATION Spec
INVARIANTS TypeOK SyncedMeansActive CleanAfterSuccess TerminalOnlyByDrift
PROPERTIES ImplementsLifecycle UserEditSurvives
CHECK_DEADLOCK FALSE
