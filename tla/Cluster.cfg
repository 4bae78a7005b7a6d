CONSTANTS
    UserKeys = {"team"}
    ControllerKey = "services.k8s.aws"
    AwsKey = "aws:stack"
    TagValues = {"v"}
    ControllerTag = "v"
    NoTag = NoTag
    Settings = {0, 1}
    Providers = {"p", "q"}
    ByRef = TRUE
    Bare = Bare
    Huge = Huge
    Nil = Nil
    RepliesWithoutTags = FALSE
    Unmanages = FALSE
    MaxEvents = 3
SPECIFICATION FairSpec
INVARIANTS TypeOK LeavesAwsTagsAlone SpecHoldsUserTagsOnly NoPartialReference TerminalHasReason
PROPERTIES ImplementsLifecycle PatchKeepsEdits SpecReachesECS UpdatesStop DeletionCompletes
CHECK_DEADLOCK FALSE
