CONSTANTS
    NumSources = 1
    NumEntities = 2
    a1 = a1
    a2 = a2
    Agg = {a1, a2}
    Router = {r1, r2}
    None = None
    Routes <- SharedSplitOrAbsent
    InOrder = FALSE
    PosBound = 1
    RecordBound = 2
    DisruptionBound = 1
SPECIFICATION Spec
INVARIANTS AppliedOnce NothingSkipped
CHECK_DEADLOCK FALSE
SYMMETRY RouterSymmetry
