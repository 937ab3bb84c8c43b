SPECIFICATION Spec
CONSTANTS
    None = None
    JsonNull = "null"
    Merge <- MergeToObject
    Names <- GroupNames
    Def <- GroupDef
    Wirings <- Wired
    Json <- TwoValues
    DefaultRetry = 1
    MaxCrashes = 1
INVARIANTS
    TypeOK
    CompletedAsDefined
    HandlerSeesLastOutput
    ReplayIsFaithful
    GivenUpAfterAllAttempts
    RestartedOnlyByName
PROPERTIES
    ImplementsWorkflow
