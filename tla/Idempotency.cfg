CONSTANTS
    Req = {r1, r2, r3}
    Key = {k1}
    Body = {b1, b2}
    Shard = {s1, s2}
    None = None
    MaxEntries = 2
    AgeBound = 1
    SnapshotBound = 2
    CrashBound = 1
SPECIFICATION Spec
INVARIANTS CountedOnce SavedTogether
CHECK_DEADLOCK FALSE
SYMMETRY Symmetry
