SPECIFICATION Spec
CONSTANTS
    HeaderSize = 224
    MeasSize = 56
    RecordSize = 48
    ValueSizes = {8}
    PageSizes <- CalcSizes
    Word = 1048576
    MaxN = 20
INVARIANTS NoOverlap HoldsN
CHECK_DEADLOCK FALSE
