SPECIFICATION JFairSpec
CONSTANTS
    Clients = {c1}
    Items = {j1}
    Worker = Worker
    NoThread = NoThread
    NoItem = NoItem
    MaxJobs = 1
PROPERTY StopLoopEnds
CHECK_DEADLOCK FALSE
