SPECIFICATION FairSpec
CONSTANTS
    None = None
    JsonNull = "null"
    Merge <- MergeToObject
    Names <- BranchNames
    Def <- BranchDef
    Wirings <- Wired
    Json <- TwoValues
    DefaultRetry = 2
    MaxCrashes = 1
INVARIANTS
    SuccessMeansAllCompleted
PROPERTIES
    TerminalIsFinal
    ImplementsFairWorkflow
