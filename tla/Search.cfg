SPECIFICATION LiveSearch
CONSTANTS
    MaxLen = 5
    Values = {0, 1, 2, 3, 5, 8, 9}
INVARIANTS InBounds Found
PROPERTY Ends
CHECK_DEADLOCK FALSE
