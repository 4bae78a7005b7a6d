CONSTANTS
    Images = {"a", "b"}
    PageSize = 8
    MaxLives = 2
    MaxEdits = 2
    MaxDrifts = 1
    MaxFaults = 2
SPECIFICATION FairSpec
INVARIANTS TypeOK NoSpuriousRevisions
PROPERTIES ImplementsLifecycle NewestRevisionIsDesired DeletionCompletes
CHECK_DEADLOCK FALSE
