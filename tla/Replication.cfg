\* One channel with two targets: three records in segments of two, a window
\* of two, two connect/stream failures and one crash of the source node.
CONSTANTS
    Targets = {t1, t2}
    MaxAppends = 3
    Window = 2
    SegSize = 2
    MaxFailures = 2
    MaxCrashes = 1
SPECIFICATION FairSpec
INVARIANT TypeOK ReadableWhenSent
PROPERTY AppendOrder AllDelivered
CHECK_DEADLOCK FALSE
