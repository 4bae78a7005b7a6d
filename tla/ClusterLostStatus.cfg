CONSTANTS
    UserKeys = {"team"}
    ControllerKey = "services.k8s.aws"
    AwsKey = "aws:stack"
    TagValues = {"v"}
    ControllerTag = "v"
    NoTag = NoTag
    Settings = {0}
    Providers = {"p"}
    ByRef = FALSE
    Bare = Bare
    Huge = Huge
    Nil = Nil
    RepliesWithoutTags = FALSE
    Unmanages = TRUE
    MaxEvents = 3
SPECIFICATION FairSpec
PROPERTIES TagsReachECS
CHECK_DEADLOCK FALSE
