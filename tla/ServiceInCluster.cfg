CONSTANTS
    Nil = Nil
    NoTag = NoTag
    Bare = Bare
    Huge = Huge
    MaxLives = 1
    MaxFaults = 1
    MaxEvents = 3
SPECIFICATION FairSpec
INVARIANTS ClusterOutlivesService
PROPERTIES InstallCompletes UninstallCompletes
CHECK_DEADLOCK FALSE
