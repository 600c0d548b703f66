SPECIFICATION Spec
CONSTANTS
    Pages = {p1, p2, p3}
    Ids = {a, b}
    MaxTime = 4
    PageCap = 2
    Readers = {r1, r2}
    MaxCrashes = 2
    NoPage = NoPage
INVARIANTS WindowIsLatest UnmarkedHasLatest RefusedOrComplete ClosedCanBeOpened
CHECK_DEADLOCK FALSE
