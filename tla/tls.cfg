SPECIFICATION FairSpec
CONSTANTS
    None = None
    Configs <- CheckedConfigs
    Capacity = 2
    MaxRecords = 3
    MaxWrites = 1
    MaxFaults = 1
INVARIANTS TypeOK EofIsReal NoLeak VerifiedPeer
PROPERTIES OperationsEnd
CHECK_DEADLOCK FALSE
