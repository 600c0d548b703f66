SPECIFICATION Spec
CONSTANTS
    Meas = {a, b, c, d}
    Pool = 2
    Size = 1
    PoolSizes = {2}
    CacheSizes = {2}
    MaxHeap = 8
    EmptyMeas = EmptyMeas
    NoMeas = NoMeas
INVARIANTS NothingInvented OneOwner
PROPERTY NothingLost
CHECK_DEADLOCK FALSE
