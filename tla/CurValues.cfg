SPECIFICATION CurSpec
CONSTANTS
    N = 10
    IndexGroup = 100
    Series <- MCSeries
    PageCaps = {2, 3}
    MaxBatch = 1
    MaxTime = 6
PROPERTIES CurStaysLatest LoadFinds
CHECK_DEADLOCK FALSE
