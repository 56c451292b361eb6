\* Two concurrent ResetMetricStore callers, a writer, a flusher whose
\* FlushMetric may fail and the evictor, under weak fairness for the
\* goroutines inside a call: the immutable slot is only ever handed to the
\* flusher, and every call returns.  The allocation bounds cover every call,
\* so no step is ever disabled by a bound.  No symmetry: TLC does not
\* combine it with liveness checking.
CONSTANTS
    EmptyMStoreSize = 8
    IndexSize = 4
    TStoreSize = 2
    SegmentSize = 1
    Metrics = {m1}
    Tags = {g1}
    Families = {1, 2}
    Writers = {w1}
    Resetters = {r1, r2}
    Readers = {}
    QueryKinds = {"find"}
    MaxTagsLimit = 2
    FlushCanFail = TRUE
    SeriesCanExpire = TRUE
    MaxStores = 2
    MaxIndexes = 3
    MaxTStores = 2
    MaxWrites = 1
    MaxFlushes = 1
    MaxResets = 2
    MaxSyncs = 0
SPECIFICATION FairSpec
PROPERTY ImmutableHandover CallsReturn
\* Every goroutine ends parked once the bounded calls are spent.
CHECK_DEADLOCK FALSE
