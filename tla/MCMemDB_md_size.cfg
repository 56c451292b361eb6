\* memoryDatabase.size against what the stores hold, with a writer, a flush and the evictor.
CONSTANTS
    EmptyMStoreSize = 8
    IndexSize = 4
    TStoreSize = 2
    SegmentSize = 1
    Metrics = {m1}
    Tags = {g1}
    Families = {1, 2}
    Writers = {w1}
    Resetters = {}
    Readers = {}
    QueryKinds = {"find"}
    MaxTagsLimit = 2
    FlushCanFail = FALSE
    SeriesCanExpire = TRUE
    MaxStores = 3
    MaxIndexes = 3
    MaxTStores = 3
    MaxWrites = 2
    MaxFlushes = 1
    MaxResets = 0
    MaxSyncs = 0
SPECIFICATION Spec
INVARIANT MemSizeMatches
\* Every goroutine ends parked once the bounded calls are spent.
CHECK_DEADLOCK FALSE
