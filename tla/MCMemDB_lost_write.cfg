\* A writer holds a metricStore or a series while the evictor removes it
\* (the stall past the eviction horizon makes the series case the shorter).
CONSTANTS
    EmptyMStoreSize = 8
    IndexSize = 4
    TStoreSize = 2
    SegmentSize = 1
    Metrics = {m1}
    Tags = {g1}
    Families = {1}
    Writers = {w1}
    Resetters = {}
    Readers = {}
    QueryKinds = {"find"}
    MaxTagsLimit = 2
    FlushCanFail = FALSE
    SeriesCanExpire = TRUE
    MaxStores = 2
    MaxIndexes = 2
    MaxTStores = 2
    MaxWrites = 1
    MaxFlushes = 1
    MaxResets = 0
    MaxSyncs = 0
SPECIFICATION Spec
INVARIANT NoLostWrite
CHECK_DEADLOCK FALSE
