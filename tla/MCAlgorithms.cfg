SPECIFICATION Spec
CONSTANTS
    MaxTokens = 5
    Catalog <- MCCatalog
    Lists <- MCLists
    Rows <- MCRows
    NaN <- MCNaN
    UpperCase = 10
    WordRows = 2
    ChunkRows = 4
    SparseDensity = 4
    NoCard = NoCard
    Windows <- MCWindows
    DistinctWindow = 1
    TTL = 6
    Plan <- MCPlan
    DistinctCap = 1
    CardSlack = 0
    StoreKeys <- MCKeys
    Moments <- MCMoments
    Cards <- MCCards
    Amount <- MCAmount
    NoField = NoField
    NoValue = NoValue
    Junk = Junk
    Blank = Blank
    NoColumn = NoColumn
    Never = 1000
    MaxOps = 4
    MaxPayments = 3
    MaxRules = 2
    MaxKnots = 3
    MaxRows = 3
INVARIANTS RoundTrips Evaluates ExactReads BucketedBound MemoryBounded Restorable
    SketchKept TrainServe ReportsTrue ScoresExplained DataKept
PROPERTY UpkeepInvisible
