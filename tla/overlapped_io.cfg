SPECIFICATION FairSpec
CONSTANTS
    Ops = {o1, o2}
    Kinds = {"read", "write", "connect", "accept", "watch"}
    Addrs = {a1, a2}
    None = None
INVARIANTS TypeOK KernelWritesLiveMemory ValueIsReal
PROPERTIES WaitersEnd
