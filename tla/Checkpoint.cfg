CONSTANTS
    Dest = {d1, d2}
    Proc = {p1, p2}
    None = None
    RecordBound = 3
    DisruptionBound = 2
    TrimBound = 0
    RecreateBound = 0
SPECIFICATION Spec
INVARIANTS StateIsPrefix SnapshotCovered
PROPERTIES ReadersSeeOneProcess
CHECK_DEADLOCK FALSE
SYMMETRY Symmetry
