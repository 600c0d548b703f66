SPECIFICATION JFairSpec
CONSTANTS
    Clients = {c1, c2}
    Items = {j1, j2}
    Worker = Worker
    NoThread = NoThread
    NoItem = NoItem
    MaxJobs = 3
INVARIANTS Fifo PausedAndEmptyIsDone JInv
PROPERTIES ImplementsJobQueue KillEnds
CHECK_DEADLOCK FALSE
