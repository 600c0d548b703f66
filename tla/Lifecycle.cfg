SPECIFICATION Spec
CONSTANTS
    Handles = {a, b}
    Paths = {p, q}
    PageCap = 2
    MaxRecords = 4
    None = None
INVARIANTS OwnManager NothingLost
PROPERTY RecordsStay
CHECK_DEADLOCK FALSE
