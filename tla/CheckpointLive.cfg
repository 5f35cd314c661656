CONSTANTS
    Dest = {d1}
    Proc = {p1, p2}
    None = None
    RecordBound = 3
    DisruptionBound = 1
    TrimBound = 1
    RecreateBound = 1
SPECIFICATION FairSpec
INVARIANTS NoHole
PROPERTIES EventuallyDelivered
CHECK_DEADLOCK FALSE
