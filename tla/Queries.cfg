SPECIFICATION Spec
CONSTANTS
    N = 10
    IndexGroup = 3
    Series <- MCSeries
    PageCaps = {2, 3, 5}
    MaxBatch = 5
    MaxTime = 5
INVARIANTS TimesExact IntervalComplete WholeExact IntervalExact PointExact
CHECK_DEADLOCK FALSE
