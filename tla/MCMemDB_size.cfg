\* metricStore.size under two writers racing to create series, flushes that
\* may fail, and the evictor; series do not expire (the lost-write race of
\* MCMemDB_lost_write.cfg would otherwise dominate) and nobody calls
\* ResetMetricStore (a write racing ResetVersion double-counts, see README).
CONSTANTS
    EmptyMStoreSize = 8
    IndexSize = 4
    TStoreSize = 2
    SegmentSize = 1
    Metrics = {m1}
    Tags = {g1, g2, g3}
    Families = {1, 2}
    Writers = {w1, w2}
    Resetters = {}
    Readers = {}
    QueryKinds = {"find"}
    MaxTagsLimit = 1
    FlushCanFail = TRUE
    SeriesCanExpire = FALSE
    MaxStores = 2
    MaxIndexes = 2
    MaxTStores = 3
    MaxWrites = 3
    MaxFlushes = 1
    MaxResets = 0
    MaxSyncs = 1
SYMMETRY WriterSymmetry
SPECIFICATION Spec
INVARIANT MStoreSizeExact TagsOvershootBounded
\* Every goroutine ends parked once the bounded calls are spent.
CHECK_DEADLOCK FALSE
