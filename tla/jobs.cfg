CONSTANTS
    Jobs = {j1, j2}
    None = None
    Pairs <- Partners
SPECIFICATION Spec
INVARIANTS TypeOK ReleasedOnce TruthfulOutcome
