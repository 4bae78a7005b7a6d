CONSTANTS
    UserKeys = {"team"}
    ControllerKey = "services.k8s.aws"
    AwsKey = "aws:stack"
    TagValues = {"v"}
    ControllerTag = "v"
    NoTag = NoTag
    Settings = {0, 1}
    Nil = Nil
    ByRef = TRUE
    RepliesWithoutTags = FALSE
    MaxEvents = 3
SPECIFICATION FairSpec
INVARIANTS TypeOK RefStaysDeclared
PROPERTIES OrphansHaveKnownCauses StaleReplyNotAdopted SettingsReachECS LateInitializationCompletes
CHECK_DEADLOCK FALSE
