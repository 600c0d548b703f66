SPECIFICATION LivePast
CONSTANTS
    Modulus = 8
    MaxTime = 3
    Pasts = {1, 2, 3}
    CacheSize = 2
    MaxBatch = 3
INVARIANTS RecentKept Fits
PROPERTY Returns
CHECK_DEADLOCK FALSE
