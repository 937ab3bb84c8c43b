CONSTANTS
    Names = {h1, h2}
    MaxSteps = 4
    Retries <- BoundaryRetries
SPECIFICATION FairSpec
INVARIANTS TypeOK PrefixInEffect CompensatesAfterRetries
PROPERTIES ExecuteTellsTheTruth EventuallyReturns
