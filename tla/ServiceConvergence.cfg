CONSTANTS
    Fields = {"DesiredCount", "CapacityProviderStrategy"}
    Values = {0, 1}
    Nil = Nil
    ByRef = TRUE
    Unmanages = FALSE
    DriftFields = {"DesiredCount", "CapacityProviderStrategy"}
    OthersDelete = TRUE
    MaxLives = 1
    MaxEdits = 2
    MaxDrifts = 1
    MaxFaults = 1
    MaxRefs = 2
SPECIFICATION FairSpec
INVARIANTS NothingInDefaultCluster
PROPERTIES SpecReachesECS DeletionCompletes
CHECK_DEADLOCK FALSE
