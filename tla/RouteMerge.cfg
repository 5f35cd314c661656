CONSTANTS
    NumSources = 2
    NumEntities = 1
    a1 = a1
    a2 = a2
    Agg = {a1}
    Router = {r1, r2}
    None = None
    Routes <- OneRoute
    InOrder = TRUE
    PosBound = 2
    RecordBound = 2
    DisruptionBound = 1
SPECIFICATION FairSpec
INVARIANTS NoLateEvent AppliedInOrder LowIsComplete
PROPERTIES EventuallyApplied
CHECK_DEADLOCK FALSE
