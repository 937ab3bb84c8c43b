SPECIFICATION Spec
CONSTANTS
    None = None
    JsonNull = "null"
    Merge <- MergeToObject
    Names <- BranchNames
    Def <- BranchDef
    Wirings <- FullyWired
    Json <- TwoValues
    DefaultRetry = 1
    MaxCrashes = 0
INVARIANTS
    PausedCanBeResumed
