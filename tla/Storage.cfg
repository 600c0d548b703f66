SPECIFICATION FairSpec
CONSTANTS
    Threads = {t1, t2}
    Caches = {c1, c2}
    Meas = {m1, m2, m3}
    Old = {m3}
    CacheSize = 2
    PageCap = 1
    MaxBatch = 3
    Worker = Worker
    NoThread = NoThread
    NoCache = NoCache
INVARIANTS Inv ExactlyOnce ReadSeesAll ClosedIsComplete CacheOwnership
PROPERTIES CallReturns ReaderProceeds
CHECK_DEADLOCK FALSE
