\* Segments of one field: writes and flushes over three family times,
\* with sStore.Bytes allowed to fail; sizes reported track MemSize.
CONSTANTS
    Families = {1, 2, 3}
    Slots = {0, 1}
    Interval = 10
    SStoreSize = 5
    BytesCanFail = TRUE
    MaxOps = 8
SPECIFICATION Spec
\* Calls stop at MaxOps; the store then has nothing left to do.
CHECK_DEADLOCK FALSE
INVARIANT TypeOK SortedUnique SearchIsLowerBound TimeRangeMatches SizeAccounted
PROPERTY AbsSpec
