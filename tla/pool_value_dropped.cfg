CONSTANTS
    Main = t1
    Tasks = {t1, t2}
    Workers = {w1, w2}
    None = None
    IdBits = 4
    MaxJobs = 2
    Configs <- LeakPool
SPECIFICATION Spec
INVARIANT NoValueDropped
