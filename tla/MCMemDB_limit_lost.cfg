\* One writer, the evictor, the flusher and the WithMaxTagsLimit goroutine:
\* a limitation received for a metric bounds its store's series.
CONSTANTS
    EmptyMStoreSize = 8
    IndexSize = 4
    TStoreSize = 2
    SegmentSize = 1
    Metrics = {m1}
    Tags = {g1, g2}
    Families = {1, 2}
    Writers = {w1}
    Resetters = {}
    Readers = {}
    QueryKinds = {"find"}
    MaxTagsLimit = 1
    FlushCanFail = FALSE
    SeriesCanExpire = TRUE
    MaxStores = 2
    MaxIndexes = 3
    MaxTStores = 2
    MaxWrites = 2
    MaxFlushes = 1
    MaxResets = 0
    MaxSyncs = 1
SPECIFICATION Spec
INVARIANT LimitationHonoured

