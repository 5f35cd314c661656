CONSTANTS
    Req = {r1, r2, r3}
    Key = {k1, k2}
    Body = {b1}
    Shard = {s1}
    None = None
    MaxEntries = 1
    AgeBound = 0
    SnapshotBound = 1
    CrashBound = 0
SPECIFICATION FairSpec
PROPERTY AlwaysAnswered
CHECK_DEADLOCK FALSE
