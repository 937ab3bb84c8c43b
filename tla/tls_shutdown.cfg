SPECIFICATION Spec
CONSTANTS
    None = None
    Configs <- OpensslConfigs
    Capacity = 2
    MaxRecords = 2
    MaxWrites = 1
    MaxFaults = 0
INVARIANT ShutdownIsSent
CHECK_DEADLOCK FALSE
