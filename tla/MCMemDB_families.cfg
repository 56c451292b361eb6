\* Families() stays complete under two writers of two metrics, a flusher
\* whose FlushMetric may fail, the evictor and a FindSeriesIDsByExpr reader
\* (no ResetMetricStore callers: see MCMemDB_reset.cfg).
CONSTANTS
    EmptyMStoreSize = 8
    IndexSize = 4
    TStoreSize = 2
    SegmentSize = 1
    Metrics = {m1, m2}
    Tags = {g1}
    Families = {1, 2}
    Writers = {w1, w2}
    Resetters = {}
    Readers = {q1}
    QueryKinds = {"find"}
    MaxTagsLimit = 2
    FlushCanFail = TRUE
    SeriesCanExpire = FALSE
    MaxStores = 2
    MaxIndexes = 2
    MaxTStores = 2
    MaxWrites = 2
    MaxFlushes = 1
    MaxResets = 0
    MaxSyncs = 0
SYMMETRY WriterSymmetry
SPECIFICATION Spec
INVARIANT TypeOK
INVARIANT FamilyTracked
\* Every goroutine ends parked once the bounded calls are spent.
CHECK_DEADLOCK FALSE
