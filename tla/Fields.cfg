CONSTANTS
    Nil = Nil
    Missing = Missing
    MaxInt32 = 3
    MaxEvents = 3
SPECIFICATION FairSpec
PROPERTIES Converges UserValueKept
CHECK_DEADLOCK FALSE
