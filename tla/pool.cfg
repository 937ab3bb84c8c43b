CONSTANTS
    Main = t1
    Tasks = {t1, t2}
    Workers = {w1, w2}
    None = None
    IdBits = 4
    MaxJobs = 2
    Configs <- SmallPools
SPECIFICATION FairSpec
INVARIANTS TypeOK OneCompletionPerJob QueuedOnlyWhenSaturated JobAliveWhileRunning CleanShutdown
PROPERTIES ImplementsJobService CancelledEnds LoopReturns SignalEndsMain
