\* Flushing one family drops the immutable index with data of another.
CONSTANTS
    EmptyMStoreSize = 8
    IndexSize = 4
    TStoreSize = 2
    SegmentSize = 1
    Metrics = {m1}
    Tags = {g1}
    Families = {1, 2}
    Writers = {w1}
    Resetters = {r1}
    Readers = {}
    QueryKinds = {"find"}
    MaxTagsLimit = 2
    FlushCanFail = FALSE
    SeriesCanExpire = FALSE
    MaxStores = 2
    MaxIndexes = 2
    MaxTStores = 2
    MaxWrites = 2
    MaxFlushes = 1
    MaxResets = 1
    MaxSyncs = 0
SPECIFICATION Spec
PROPERTY DataLeavesOnlyByFlush
CHECK_DEADLOCK FALSE
