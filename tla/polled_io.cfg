SPECIFICATION FairSpec
CONSTANTS
    Pollers = {"epoll", "kqueue"}
    MaxReady = 1
    MaxUnits = 2
INVARIANTS TypeOK NoLostWakeup WokenForAReason
PROPERTIES WaitersResume
