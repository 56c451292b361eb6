\* GetSeriesIDsForTag labels the immutable index bitmap with the mutable
\* index version.
CONSTANTS
    EmptyMStoreSize = 8
    IndexSize = 4
    TStoreSize = 2
    SegmentSize = 1
    Metrics = {m1}
    Tags = {g1, g2}
    Families = {1, 2}
    Writers = {w1}
    Resetters = {r1}
    Readers = {q1}
    QueryKinds = {"tag"}
    MaxTagsLimit = 2
    FlushCanFail = FALSE
    SeriesCanExpire = TRUE
    MaxStores = 2
    MaxIndexes = 3
    MaxTStores = 2
    MaxWrites = 2
    MaxFlushes = 1
    MaxResets = 1
    MaxSyncs = 0
SPECIFICATION Spec
INVARIANT QueryVersionsMatch

