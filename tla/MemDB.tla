-------------------------------- MODULE MemDB --------------------------------
(***************************************************************************)
(* The write, flush, evict and reset paths of lindb's in-memory metric     *)
(* store: memoryDatabase (database.go) and metricStore (metric_store.go),  *)
(* both in src/unnamed/part_003.                                           *)
(*                                                                         *)
(* Actors: a set of writer goroutines calling memoryDatabase.Write, one    *)
(* flusher calling FlushFamilyTo, the evictor goroutine woken by the       *)
(* flusher, and callers of ResetMetricStore.  Every critical section of a  *)
(* lock (bucket rwLock, metricStore mux) is one step; the unlocked code    *)
(* between them is where the actors interleave.                            *)
(*                                                                         *)
(* Data is abstracted to which (metric, tag combination, family) points a  *)
(* time-series store holds; slot values and field ids are left out.  Sizes *)
(* are kept as the deltas the code adds to memoryDatabase.size and          *)
(* metricStore.size: a fixed size per store, index, series and segment.    *)
(* Each metric sits in its own mStoresBucket, so a bucket is a metric.     *)
(***************************************************************************)
EXTENDS Integers, FiniteSets, FiniteSetsExt

CONSTANTS
    Metrics,        \* metric names (one bucket each)
    Tags,           \* tag combinations (series) of a metric
    Families,       \* family start times, positive integers
    Writers,        \* goroutines calling memoryDatabase.Write
    Resetters,      \* goroutines calling ResetMetricStore
    Readers,        \* goroutines querying series ids of a metric
    QueryKinds,     \* subset of {"find", "tag"}: the query methods called
    MaxTagsLimit,   \* the limitation WithMaxTagsLimit delivers for a metric
    FlushCanFail,   \* whether flusher.FlushMetric may return an error
    SeriesCanExpire, \* whether a writer can stall past the eviction horizon
    MaxStores,      \* bound: metricStore objects ever created
    MaxIndexes,     \* bound: tagIndex objects ever created
    MaxTStores,     \* bound: timeSeriesStore objects ever created
    MaxWrites,      \* bound: calls of memoryDatabase.Write
    MaxFlushes,     \* bound: calls of FlushFamilyTo
    MaxResets,      \* bound: calls of ResetMetricStore
    MaxSyncs,       \* bound: limitations received by the WithMaxTagsLimit goroutine
    EmptyMStoreSize, \* emptyMStoreSize
    IndexSize,      \* MemSize() of a new tagIndex
    TStoreSize,     \* MemSize() of a timeSeriesStore holding no segment
    SegmentSize     \* bytes a series grows by for a new family segment

ASSUME /\ Families \subseteq Nat \ {0}
       /\ QueryKinds \subseteq {"find", "tag"}
       /\ MaxTagsLimit \in Nat
       /\ FlushCanFail \in BOOLEAN /\ SeriesCanExpire \in BOOLEAN
       /\ {MaxStores, MaxIndexes, MaxTStores, MaxWrites, MaxFlushes, MaxResets,
           MaxSyncs}
            \subseteq Nat
       /\ {EmptyMStoreSize, IndexSize, TStoreSize, SegmentSize} \subseteq Nat

StoreIds  == 1..MaxStores
IndexIds  == 1..MaxIndexes
TStoreIds == 1..MaxTStores
NoStore   == 0   \* absent key of hash2MStore
Nop       == 0   \* staticNopTagIndex: the version-0 placeholder
NoTStore  == 0   \* absent seriesID of a tagIndex

\* constants.DefaultMStoreMaxTagsCount: the limit newMetricStore starts with
DefaultMStoreMaxTagsCount == 10000000

VARIABLES
    hash2MStore,         \* metric -> metricStore (union of the buckets)
    mutable,             \* metricStore -> its mutable tagIndex
    immutable,           \* metricStore -> its immutable tagIndex or Nop
    tStores,             \* tagIndex -> tag combination -> timeSeriesStore
    tagsUsed,            \* tagIndex -> TagsUsed() counter
    data,                \* timeSeriesStore -> families it holds segments of
    expired,             \* timeSeriesStores whose IsExpired() is true
    familyTimes,         \* memoryDatabase.familyTimes
    lastWroteFamilyTime, \* memoryDatabase.lastWroteFamilyTime (0 = reset)
    abandoned,           \* ghost: <<metric, family>> a failed flush never reached
    nStores, nIndexes, nTStores,  \* objects allocated so far
    wr,                  \* writer -> its place in Write and its locals
    fl,                  \* the flusher's place in FlushFamilyTo
    ev,                  \* the evictor's place in evictor/evict
    rs,                  \* resetter -> its place in ResetMetricStore
    rd,                  \* reader -> its place in a series-id query
    mdSize,              \* memoryDatabase.size
    msSize,              \* metricStore -> metricStore.size
    limit,               \* metricStore -> metricStore.maxTagsLimit
    usedAtSync,          \* ghost: store -> its TagsUsed() when its limit was last set
    limitSent,           \* ghost: metrics a limitation has been received for
    unflushed,           \* ghost: points written and not yet flushed
    notifyOwed,          \* ghost: a flush has ended since the last sweep began
    nWrites, nFlushes, nResets, nSyncs    \* bound counters

storeVars == <<hash2MStore, mutable, immutable, tStores, tagsUsed, data, expired>>
familyVars == <<familyTimes, lastWroteFamilyTime, abandoned>>
allocVars == <<nStores, nIndexes, nTStores>>
actorVars == <<wr, fl, ev, rs, rd>>
boundVars == <<nWrites, nFlushes, nResets, nSyncs>>
limitVars == <<limit, usedAtSync, limitSent>>
sizeVars == <<mdSize, msSize>>
vars == <<storeVars, familyVars, allocVars, actorVars, sizeVars, limitVars,
          unflushed, notifyOwed, boundVars>>

Points == Metrics \X Tags \X Families

WriterPCs == {"idle", "create_mstore", "check_full", "get_tstore",
              "create_tstore", "write_tstore", "swap_family", "store_family"}
FlusherPCs == {"idle", "reset_last", "snapshot", "flush_mutable",
               "flush_immutable"}
EvictorPCs == {"waiting", "snapshot", "evict_check", "evict_remove",
               "check_empty", "delete_store"}
ResetterPCs == {"idle", "check", "locked"}
ReaderPCs == {"idle", "unlocked", "done"}

-----------------------------------------------------------------------------
(* Derived views of the state, named after the code they stand for.        *)

\* tagIndex.TagsInUse(): series currently linked in the index
TagsInUse(i) == Cardinality({g \in Tags : tStores[i][g] # NoTStore})

\* metricStore.IsEmpty(): GetTagsInUse() == 0 && atomicGetImmutable() == nil
IsEmpty(s) == TagsInUse(mutable[s]) = 0 /\ immutable[s] = Nop

\* Mutant of IsFull: the store is full only past its limit.
IsFullOffByOne(s) == tagsUsed[mutable[s]] > limit[s]

\* metricStore.isFull(): GetTagsUsed() >= getMaxTagsLimit()
IsFull(s) == tagsUsed[mutable[s]] >= limit[s]

\* the tag combinations of index i whose series holds data of family f
SeriesWithFamily(i, f) ==
    {g \in Tags : tStores[i][g] # NoTStore /\ f \in data[tStores[i][g]]}

\* tagIndex.FlushVersionDataTo(flusher, familyTime): every series of index
\* i hands its segment of family f to the flusher and drops it
FlushVersionData(i, f) ==
    data' = [t \in TStoreIds |->
               IF \E g \in Tags : tStores[i][g] = t /\ t # NoTStore
               THEN data[t] \ {f} ELSE data[t]]

\* a point is reachable when the store the bucket maps its metric to holds it
Reachable(m, g, f) ==
    LET s == hash2MStore[m] IN
    /\ s # NoStore
    /\ \E i \in {mutable[s], immutable[s]} \ {Nop} : g \in SeriesWithFamily(i, f)

\* ... or when the flusher has taken its immutable index out of the slot and
\* is about to flush it
Retained(m, g, f) ==
    \/ Reachable(m, g, f)
    \/ /\ fl.pc = "flush_immutable" /\ fl.m = m /\ fl.imm # Nop
       /\ g \in SeriesWithFamily(fl.imm, f)

\* the locals of a goroutine that is not inside a call
WriterIdle == [pc |-> "idle", m |-> CHOOSE m \in Metrics : TRUE,
               tag |-> CHOOSE g \in Tags : TRUE, f |-> CHOOSE f \in Families : TRUE,
               s |-> NoStore, t |-> NoTStore]
FlusherIdle == [pc |-> "idle", f |-> CHOOSE f \in Families : TRUE, todo |-> {},
                m |-> CHOOSE m \in Metrics : TRUE, s |-> NoStore, imm |-> Nop,
                sz |-> 0]
EvictorWaiting == [pc |-> "waiting", todo |-> {}, m |-> CHOOSE m \in Metrics : TRUE,
                   s |-> NoStore, list |-> {}]
ResetterIdle == [pc |-> "idle", m |-> CHOOSE m \in Metrics : TRUE, s |-> NoStore]
ReaderIdle == [pc |-> "idle", kind |-> "find", s |-> NoStore, imm |-> Nop, res |-> {}]

\* timeSeriesStore.MemSize(): the series and its family segments
SeriesSize(t) == TStoreSize + SegmentSize * Cardinality(data[t])

\* tagIndex.MemSize(): the index and the series linked in it
IndexMemSize(i) ==
    IndexSize + MapThenSumSet(LAMBDA g : SeriesSize(tStores[i][g]),
                              {g \in Tags : tStores[i][g] # NoTStore})

\* metricStore.MemSize(): emptyMStoreSize + size + the immutable's MemSize()
MStoreMemSize(s) ==
    EmptyMStoreSize + msSize[s]
    + (IF immutable[s] # Nop THEN IndexMemSize(immutable[s]) ELSE 0)

\* what store s really holds: its two indexes and their series
HeldSize(s) ==
    EmptyMStoreSize + IndexMemSize(mutable[s])
    + (IF immutable[s] # Nop THEN IndexMemSize(immutable[s]) ELSE 0)

\* bytes FlushVersionDataTo(f) of index i releases: one segment per series
FlushedSize(i, f) == SegmentSize * Cardinality(SeriesWithFamily(i, f))

-----------------------------------------------------------------------------
Init ==
    /\ hash2MStore = [m \in Metrics |-> NoStore]
    /\ mutable = [s \in StoreIds |-> Nop]
    /\ immutable = [s \in StoreIds |-> Nop]
    /\ tStores = [i \in IndexIds |-> [g \in Tags |-> NoTStore]]
    /\ tagsUsed = [i \in IndexIds |-> 0]
    /\ data = [t \in TStoreIds |-> {}]
    /\ expired = {}
    /\ familyTimes = {}
    /\ lastWroteFamilyTime = 0
    /\ abandoned = {}
    /\ nStores = 0 /\ nIndexes = 0 /\ nTStores = 0
    /\ wr = [x \in Writers |-> WriterIdle]
    /\ fl = FlusherIdle
    /\ ev = EvictorWaiting
    /\ rs = [r \in Resetters |-> ResetterIdle]
    /\ rd = [q \in Readers |-> ReaderIdle]
    /\ mdSize = 0
    /\ msSize = [s \in StoreIds |-> 0]
    \* store ids not yet allocated: newMetricStore gives each this limit
    /\ limit = [s \in StoreIds |-> DefaultMStoreMaxTagsCount]
    /\ usedAtSync = [s \in StoreIds |-> 0]
    /\ limitSent = {}
    /\ unflushed = {}
    /\ notifyOwed = FALSE
    /\ nWrites = 0 /\ nFlushes = 0 /\ nResets = 0 /\ nSyncs = 0

-----------------------------------------------------------------------------
(***************************************************************************)
(* memoryDatabase.Write(metric) and the calls it makes.                    *)
(***************************************************************************)

\* Write: getOrCreateMStore's fast path, getMStoreByMetricHash under the
\* bucket's read lock.  The inputs are the point's metric, tags and family.
WriterLookup(x) ==
    /\ wr[x].pc = "idle"
    /\ nWrites < MaxWrites
    /\ \E m \in Metrics, g \in Tags, f \in Families :
         wr' = [wr EXCEPT ![x] =
                  [pc |-> IF hash2MStore[m] = NoStore THEN "create_mstore"
                                                      ELSE "check_full",
                   m |-> m, tag |-> g, f |-> f, s |-> hash2MStore[m],
                   t |-> NoTStore]]
    /\ nWrites' = nWrites + 1
    /\ UNCHANGED <<storeVars, familyVars, allocVars, fl, ev, rs, unflushed,
                   nFlushes, nResets, sizeVars, notifyOwed, rd, limitVars, nSyncs>>

\* Mutant of WriterCreateMStore: the allocation counter is not advanced.
WriterCreateMStoreNoCount(x) ==
    LET m == wr[x].m IN
    /\ wr[x].pc = "create_mstore"
    /\ \/ /\ hash2MStore[m] # NoStore
          /\ wr' = [wr EXCEPT ![x].pc = "check_full", ![x].s = hash2MStore[m]]
          /\ UNCHANGED <<hash2MStore, mutable, nIndexes, sizeVars>>
       \/ /\ hash2MStore[m] = NoStore
          /\ nStores < MaxStores /\ nIndexes < MaxIndexes
          /\ hash2MStore' = [hash2MStore EXCEPT ![m] = nStores + 1]
          /\ mutable' = [mutable EXCEPT ![nStores + 1] = nIndexes + 1]
          /\ nIndexes' = nIndexes + 1
          /\ msSize' = [msSize EXCEPT ![nStores + 1] = IndexSize]
          /\ mdSize' = mdSize + EmptyMStoreSize + IndexSize
          /\ wr' = [wr EXCEPT ![x].pc = "check_full", ![x].s = nStores + 1]
    /\ UNCHANGED <<immutable, tStores, tagsUsed, data, expired, familyVars,
                   nStores, nTStores, fl, ev, rs, unflushed, notifyOwed, boundVars, rd, limitVars>>

\* getOrCreateMStore's slow path under the bucket's write lock: re-check,
\* else newMetricStore(metricID) with a fresh mutable tagIndex, its size
\* set to the index's MemSize() and its MemSize() added to md.size.
WriterCreateMStore(x) ==
    LET m == wr[x].m IN
    /\ wr[x].pc = "create_mstore"
    /\ \/ /\ hash2MStore[m] # NoStore
          /\ wr' = [wr EXCEPT ![x].pc = "check_full", ![x].s = hash2MStore[m]]
          /\ UNCHANGED <<hash2MStore, mutable, nStores, nIndexes, sizeVars>>
       \/ /\ hash2MStore[m] = NoStore
          /\ nStores < MaxStores /\ nIndexes < MaxIndexes
          /\ hash2MStore' = [hash2MStore EXCEPT ![m] = nStores + 1]
          /\ mutable' = [mutable EXCEPT ![nStores + 1] = nIndexes + 1]
          /\ nStores' = nStores + 1
          /\ nIndexes' = nIndexes + 1
          /\ msSize' = [msSize EXCEPT ![nStores + 1] = IndexSize]
          /\ mdSize' = mdSize + EmptyMStoreSize + IndexSize
          /\ wr' = [wr EXCEPT ![x].pc = "check_full", ![x].s = nStores + 1]
    /\ UNCHANGED <<immutable, tStores, tagsUsed, data, expired, familyVars,
                   nTStores, fl, ev, rs, unflushed, notifyOwed, boundVars, rd, limitVars>>

\* metricStore.Write: the isFull() early return with ErrTooManyTags.  Write
\* then returns the error without adding the family.
WriterCheckFull(x) ==
    /\ wr[x].pc = "check_full"
    /\ wr' = IF IsFull(wr[x].s) THEN [wr EXCEPT ![x] = WriterIdle]
                                  ELSE [wr EXCEPT ![x].pc = "get_tstore"]
    /\ UNCHANGED <<storeVars, familyVars, allocVars, fl, ev, rs, unflushed,
                   boundVars, sizeVars, notifyOwed, rd, limitVars>>

\* metricStore.Write: mutable.GetTStore(tags) under the read lock.
WriterGetTStore(x) ==
    LET t == tStores[mutable[wr[x].s]][wr[x].tag] IN
    /\ wr[x].pc = "get_tstore"
    /\ wr' = [wr EXCEPT ![x].pc = IF t = NoTStore THEN "create_tstore"
                                                  ELSE "write_tstore",
                        ![x].t = t]
    /\ UNCHANGED <<storeVars, familyVars, allocVars, fl, ev, rs, unflushed,
                   boundVars, sizeVars, notifyOwed, rd, limitVars>>

\* Mutant of WriterCreateTStore: createdSize is counted also when the
\* re-check under the lock finds the series another writer created.
WriterCreateTStoreCountsFound(x) ==
    LET i == mutable[wr[x].s]
        g == wr[x].tag
    IN
    /\ wr[x].pc = "create_tstore"
    /\ \/ /\ tStores[i][g] # NoTStore
          /\ wr' = [wr EXCEPT ![x].pc = "write_tstore", ![x].t = tStores[i][g]]
          /\ UNCHANGED <<tStores, tagsUsed, nTStores>>
       \/ /\ tStores[i][g] = NoTStore
          /\ nTStores < MaxTStores
          /\ tStores' = [tStores EXCEPT ![i][g] = nTStores + 1]
          /\ tagsUsed' = [tagsUsed EXCEPT ![i] = @ + 1]
          /\ nTStores' = nTStores + 1
          /\ wr' = [wr EXCEPT ![x].pc = "write_tstore", ![x].t = nTStores + 1]
    /\ msSize' = [msSize EXCEPT ![wr[x].s] = @ + TStoreSize]
    /\ mdSize' = mdSize + TStoreSize
    /\ UNCHANGED <<hash2MStore, mutable, immutable, data, expired, familyVars,
                   nStores, nIndexes, fl, ev, rs, unflushed, notifyOwed, boundVars, rd, limitVars>>

\* metricStore.Write: mutable.GetOrCreateTStore(tags) under the write lock,
\* on whatever index is mutable now; a new series counts in TagsUsed and
\* its createdSize is added to ms.size (and, by Write's return value, to
\* md.size: md.size is only ever added to and subtracted from, never read
\* by the code modelled, so its additions are taken where they are known).
WriterCreateTStore(x) ==
    LET i == mutable[wr[x].s]
        g == wr[x].tag
    IN
    /\ wr[x].pc = "create_tstore"
    /\ \/ /\ tStores[i][g] # NoTStore
          /\ wr' = [wr EXCEPT ![x].pc = "write_tstore", ![x].t = tStores[i][g]]
          /\ UNCHANGED <<tStores, tagsUsed, nTStores, sizeVars>>
       \/ /\ tStores[i][g] = NoTStore
          /\ nTStores < MaxTStores
          /\ tStores' = [tStores EXCEPT ![i][g] = nTStores + 1]
          /\ tagsUsed' = [tagsUsed EXCEPT ![i] = @ + 1]
          /\ nTStores' = nTStores + 1
          /\ msSize' = [msSize EXCEPT ![wr[x].s] = @ + TStoreSize]
          /\ mdSize' = mdSize + TStoreSize
          /\ wr' = [wr EXCEPT ![x].pc = "write_tstore", ![x].t = nTStores + 1]
    /\ UNCHANGED <<hash2MStore, mutable, immutable, data, expired, familyVars,
                   nStores, nIndexes, fl, ev, rs, unflushed, notifyOwed, boundVars, rd, limitVars>>

\* metricStore.Write: tStore.Write(metric, writeCtx), outside the lock; the
\* series' field store gets (or inserts) the family's segment and the series
\* is used again.  UpdateIndexTimeRange under the read lock changes nothing
\* modelled.  The writtenSize (a new segment, see FieldStore) is added to
\* ms.size, and to md.size by Write.
WriterWriteTStore(x) ==
    LET t == wr[x].t
        writtenSize == IF wr[x].f \in data[t] THEN 0 ELSE SegmentSize
    IN
    /\ wr[x].pc = "write_tstore"
    /\ data' = [data EXCEPT ![t] = @ \union {wr[x].f}]
    /\ expired' = expired \ {t}
    /\ unflushed' = unflushed \union {<<wr[x].m, wr[x].tag, wr[x].f>>}
    /\ msSize' = [msSize EXCEPT ![wr[x].s] = @ + writtenSize]
    /\ mdSize' = mdSize + writtenSize
    /\ wr' = [wr EXCEPT ![x].pc = "swap_family"]
    /\ UNCHANGED <<hash2MStore, mutable, immutable, tStores, tagsUsed,
                   familyVars, allocVars, fl, ev, rs, notifyOwed, boundVars, rd, limitVars>>

\* addFamilyTime: lastWroteFamilyTime.Swap(familyTime); return when the old
\* value was the same family.
WriterSwapFamily(x) ==
    /\ wr[x].pc = "swap_family"
    /\ lastWroteFamilyTime' = wr[x].f
    /\ wr' = IF lastWroteFamilyTime = wr[x].f THEN [wr EXCEPT ![x] = WriterIdle]
             ELSE [wr EXCEPT ![x].pc = "store_family"]
    /\ UNCHANGED <<storeVars, familyTimes, abandoned, allocVars, fl, ev, rs, unflushed,
                   boundVars, sizeVars, notifyOwed, rd, limitVars>>

\* addFamilyTime: familyTimes.Store(familyTime); Write returns nil.
WriterStoreFamily(x) ==
    /\ wr[x].pc = "store_family"
    /\ familyTimes' = familyTimes \union {wr[x].f}
    /\ wr' = [wr EXCEPT ![x] = WriterIdle]
    /\ UNCHANGED <<storeVars, lastWroteFamilyTime, abandoned, allocVars, fl, ev, rs,
                   unflushed, boundVars, sizeVars, notifyOwed, rd, limitVars>>

-----------------------------------------------------------------------------
(***************************************************************************)
(* memoryDatabase.FlushFamilyTo(flusher, familyTime).                      *)
(***************************************************************************)

\* the deferred non-blocking send on the unbuffered evictNotifier: it is
\* received only when the evictor is parked in its select, else dropped
\* (notifyOwed records that no sweep has begun since this flush ended)
NotifyEvictor ==
    IF ev.pc = "waiting"
      THEN /\ ev' = [EvictorWaiting EXCEPT !.pc = "snapshot", !.todo = Metrics]
           /\ notifyOwed' = FALSE
      ELSE /\ notifyOwed' = TRUE
           /\ UNCHANGED ev

\* FlushFamilyTo: familyTimes.Delete(familyTime).  The family is any family:
\* the method takes it as an argument.
FlushStart ==
    /\ fl.pc = "idle"
    /\ nFlushes < MaxFlushes
    /\ \E f \in Families :
         /\ familyTimes' = familyTimes \ {f}
         /\ abandoned' = abandoned \ (Metrics \X {f})
         /\ fl' = [fl EXCEPT !.pc = "reset_last", !.f = f, !.todo = Metrics]
    /\ nFlushes' = nFlushes + 1
    /\ UNCHANGED <<storeVars, lastWroteFamilyTime, allocVars, wr, ev, rs,
                   unflushed, nWrites, nResets, sizeVars, notifyOwed, rd, limitVars, nSyncs>>

\* Mutant of FlushResetLast: lastWroteFamilyTime is not reset.
FlushResetLastKeepsLast ==
    /\ fl.pc = "reset_last"
    /\ fl' = [fl EXCEPT !.pc = "snapshot"]
    /\ UNCHANGED <<storeVars, familyVars, allocVars, wr, ev, rs, unflushed,
                   boundVars, sizeVars, notifyOwed, rd, limitVars>>

\* FlushFamilyTo: lastWroteFamilyTime.Store(0).
FlushResetLast ==
    /\ fl.pc = "reset_last"
    /\ lastWroteFamilyTime' = 0
    /\ fl' = [fl EXCEPT !.pc = "snapshot"]
    /\ UNCHANGED <<storeVars, familyTimes, abandoned, allocVars, wr, ev, rs, unflushed,
                   boundVars, sizeVars, notifyOwed, rd, limitVars>>

\* FlushFamilyTo: bkt.allMetricStores() of the next bucket, under its read
\* lock; a bucket without a store is passed over.
FlushSnapshot ==
    /\ fl.pc = "snapshot"
    /\ \E m \in fl.todo :
         LET s == hash2MStore[m] IN
         fl' = IF s = NoStore THEN [fl EXCEPT !.todo = @ \ {m}]
               ELSE [fl EXCEPT !.pc = "flush_mutable", !.m = m, !.s = s]
    /\ UNCHANGED <<storeVars, familyVars, allocVars, wr, ev, rs, unflushed,
                   boundVars, sizeVars, notifyOwed, rd, limitVars>>

\* FlushFamilyTo returns nil after the last bucket; its deferred function
\* notifies the evictor.
FlushDone ==
    /\ fl.pc = "snapshot"
    /\ fl.todo = {}
    /\ fl' = FlusherIdle
    /\ NotifyEvictor
    /\ UNCHANGED <<storeVars, familyVars, allocVars, wr, rs, unflushed,
                   boundVars, sizeVars, rd, limitVars>>

\* metricStore.FlushMetricsDataTo, the read-locked part: flush the mutable
\* index's data of the family, take the immutable index and store the
\* nopTagIndex in its place.
FlushMutable ==
    LET i == mutable[fl.s] IN
    /\ fl.pc = "flush_mutable"
    /\ FlushVersionData(i, fl.f)
    /\ unflushed' = unflushed \ {<<fl.m, g, fl.f>> : g \in SeriesWithFamily(i, fl.f)}
    /\ immutable' = [immutable EXCEPT ![fl.s] = Nop]
    /\ fl' = [fl EXCEPT !.pc = "flush_immutable", !.imm = immutable[fl.s],
                        !.sz = FlushedSize(i, fl.f)]
    /\ UNCHANGED <<hash2MStore, mutable, tStores, tagsUsed, expired, familyVars,
                   allocVars, wr, ev, rs, boundVars, sizeVars, notifyOwed, rd, limitVars>>

\* metricStore.FlushMetricsDataTo, after the unlock: flush the former
\* immutable index's data of the family, subtract the flushed size of both
\* parts from ms.size (and md.size), then flusher.FlushMetric.  On
\* success FlushFamilyTo goes on with the next store; an error is returned
\* at once, and the deferred notify still runs.
FlushImmutable ==
    LET i == fl.imm IN
    /\ fl.pc = "flush_immutable"
    /\ IF i = Nop THEN UNCHANGED <<data, unflushed>>
       ELSE /\ FlushVersionData(i, fl.f)
            /\ unflushed' = unflushed \ {<<fl.m, g, fl.f>> : g \in SeriesWithFamily(i, fl.f)}
    /\ LET flushedSize == fl.sz + (IF i = Nop THEN 0 ELSE FlushedSize(i, fl.f))
       IN /\ msSize' = [msSize EXCEPT ![fl.s] = @ - flushedSize]
          /\ mdSize' = mdSize - flushedSize
    /\ \/ /\ fl' = [FlusherIdle EXCEPT !.pc = "snapshot", !.f = fl.f,
                                         !.todo = fl.todo \ {fl.m}]
          /\ UNCHANGED <<ev, notifyOwed, abandoned>>
       \/ /\ FlushCanFail
          /\ abandoned' = abandoned \union ((fl.todo \ {fl.m}) \X {fl.f})
          /\ fl' = FlusherIdle
          /\ NotifyEvictor
    /\ UNCHANGED <<hash2MStore, mutable, immutable, tStores, tagsUsed, expired,
                   familyTimes, lastWroteFamilyTime, allocVars, wr, rs, boundVars, rd, limitVars>>

-----------------------------------------------------------------------------
(***************************************************************************)
(* The evictor goroutine: memoryDatabase.evictor, evict(bucket) and        *)
(* metricStore.Evict / IsEmpty.                                            *)
(***************************************************************************)

\* evict(bucket): bucket.allMetricStores() under the bucket's read lock.
EvictSnapshot ==
    /\ ev.pc = "snapshot"
    /\ \E m \in ev.todo :
         LET s == hash2MStore[m] IN
         ev' = IF s = NoStore THEN [ev EXCEPT !.todo = @ \ {m}]
               ELSE [ev EXCEPT !.pc = "evict_check", !.m = m, !.s = s]
    /\ UNCHANGED <<storeVars, familyVars, allocVars, wr, fl, rs, unflushed,
                   boundVars, sizeVars, notifyOwed, rd, limitVars>>

\* evictor: after the last bucket, back to the select on evictNotifier.
EvictSweepDone ==
    /\ ev.pc = "snapshot"
    /\ ev.todo = {}
    /\ ev' = EvictorWaiting
    /\ UNCHANGED <<storeVars, familyVars, allocVars, wr, fl, rs, unflushed,
                   boundVars, sizeVars, notifyOwed, rd, limitVars>>

\* a series is evictable when IsExpired() && IsNoData()
Evictable(t) == t # NoTStore /\ t \in expired /\ data[t] = {}

\* metricStore.Evict, first check under the read lock: collect the series
\* of the mutable index that are expired and hold no data.
EvictCheck ==
    LET i == mutable[ev.s] IN
    /\ ev.pc = "evict_check"
    /\ ev' = [ev EXCEPT !.pc = "evict_remove",
                        !.list = {g \in Tags : Evictable(tStores[i][g])}]
    /\ UNCHANGED <<storeVars, familyVars, allocVars, wr, fl, rs, unflushed,
                   boundVars, sizeVars, notifyOwed, rd, limitVars>>

\* metricStore.Evict, double check under the write lock on the index that
\* is mutable now, then RemoveTStores; the removed series' MemSize() is
\* subtracted from ms.size and, by evict, from md.size.
EvictRemove ==
    LET i == mutable[ev.s]
        removed == {g \in ev.list : Evictable(tStores[i][g])}
        evictedSize == MapThenSumSet(LAMBDA g : SeriesSize(tStores[i][g]), removed)
    IN
    /\ ev.pc = "evict_remove"
    /\ tStores' = [tStores EXCEPT ![i] =
                     [g \in Tags |-> IF g \in removed THEN NoTStore ELSE tStores[i][g]]]
    /\ msSize' = [msSize EXCEPT ![ev.s] = @ - evictedSize]
    /\ mdSize' = mdSize - evictedSize
    /\ ev' = [ev EXCEPT !.pc = "check_empty", !.list = {}]
    /\ UNCHANGED <<hash2MStore, mutable, immutable, tagsUsed, data, expired,
                   familyVars, allocVars, wr, fl, rs, unflushed, notifyOwed, boundVars, rd, limitVars>>

\* Mutant of EvictCheckEmpty: a store that is not empty is visited again
\* instead of the loop moving on to the next one.
EvictCheckEmptyNoAdvance ==
    /\ ev.pc = "check_empty"
    /\ ev' = IF IsEmpty(ev.s) THEN [ev EXCEPT !.pc = "delete_store"]
             ELSE [EvictorWaiting EXCEPT !.pc = "snapshot", !.todo = ev.todo]
    /\ UNCHANGED <<storeVars, familyVars, allocVars, wr, fl, rs, unflushed,
                   boundVars, sizeVars, notifyOwed, rd, limitVars>>

\* evict: if mStore.IsEmpty(), take the bucket's write lock.
EvictCheckEmpty ==
    /\ ev.pc = "check_empty"
    /\ ev' = IF IsEmpty(ev.s) THEN [ev EXCEPT !.pc = "delete_store"]
             ELSE [EvictorWaiting EXCEPT !.pc = "snapshot", !.todo = ev.todo \ {ev.m}]
    /\ UNCHANGED <<storeVars, familyVars, allocVars, wr, fl, rs, unflushed,
                   boundVars, sizeVars, notifyOwed, rd, limitVars>>

\* evict, under the bucket's write lock: IsEmpty() again, then delete the
\* metric's entry from hash2MStore; mStore.MemSize() is subtracted from
\* md.size after the inner check, whether or not the store was deleted.
EvictDeleteStore ==
    /\ ev.pc = "delete_store"
    /\ hash2MStore' = IF IsEmpty(ev.s) THEN [hash2MStore EXCEPT ![ev.m] = NoStore]
                      ELSE hash2MStore
    /\ mdSize' = mdSize - MStoreMemSize(ev.s)
    /\ ev' = [EvictorWaiting EXCEPT !.pc = "snapshot", !.todo = ev.todo \ {ev.m}]
    /\ UNCHANGED <<mutable, immutable, tStores, tagsUsed, data, expired,
                   familyVars, allocVars, wr, fl, rs, msSize, unflushed,
                   notifyOwed, boundVars, rd, limitVars>>

-----------------------------------------------------------------------------
(***************************************************************************)
(* memoryDatabase.ResetMetricStore(metricName) and metricStore.ResetVersion *)
(***************************************************************************)

\* ResetMetricStore: getMStore(metricName); an unknown metric is an error.
ResetLookup(r) ==
    /\ rs[r].pc = "idle"
    /\ nResets < MaxResets
    /\ \E m \in Metrics :
         rs' = [rs EXCEPT ![r] =
                  IF hash2MStore[m] = NoStore THEN ResetterIdle
                  ELSE [pc |-> "check", m |-> m, s |-> hash2MStore[m]]]
    /\ nResets' = nResets + 1
    /\ UNCHANGED <<storeVars, familyVars, allocVars, wr, fl, ev, unflushed,
                   nWrites, nFlushes, sizeVars, notifyOwed, rd, limitVars, nSyncs>>

\* ResetVersion: an occupied immutable slot returns
\* ErrResetVersionUnavailable before taking the lock.
ResetCheck(r) ==
    /\ rs[r].pc = "check"
    /\ rs' = [rs EXCEPT ![r] = IF immutable[rs[r].s] # Nop THEN ResetterIdle
                                ELSE [@ EXCEPT !.pc = "locked"]]
    /\ UNCHANGED <<storeVars, familyVars, allocVars, wr, fl, ev, unflushed,
                   boundVars, sizeVars, notifyOwed, rd, limitVars>>

\* Mutant of ResetLocked: no double check of the immutable slot.
ResetLockedNoDoubleCheck(r) ==
    LET s == rs[r].s IN
    /\ rs[r].pc = "locked"
    /\ nIndexes < MaxIndexes
    /\ immutable' = [immutable EXCEPT ![s] = mutable[s]]
    /\ mutable' = [mutable EXCEPT ![s] = nIndexes + 1]
    /\ nIndexes' = nIndexes + 1
    /\ msSize' = [msSize EXCEPT ![s] = IndexSize]
    /\ mdSize' = mdSize + IndexSize
    /\ rs' = [rs EXCEPT ![r] = ResetterIdle]
    /\ UNCHANGED <<hash2MStore, tStores, tagsUsed, data, expired, familyVars,
                   nStores, nTStores, wr, fl, ev, unflushed, notifyOwed, boundVars, rd, limitVars>>

\* ResetVersion under the write lock: double check, then the mutable index
\* becomes the immutable one, a new tagIndex becomes mutable and ms.size is
\* set to its MemSize(); ResetMetricStore adds that createdSize to md.size.
ResetLocked(r) ==
    LET s == rs[r].s IN
    /\ rs[r].pc = "locked"
    /\ \/ /\ immutable[s] # Nop
          /\ UNCHANGED <<mutable, immutable, nIndexes, sizeVars>>
       \/ /\ immutable[s] = Nop
          /\ nIndexes < MaxIndexes
          /\ immutable' = [immutable EXCEPT ![s] = mutable[s]]
          /\ mutable' = [mutable EXCEPT ![s] = nIndexes + 1]
          /\ nIndexes' = nIndexes + 1
          /\ msSize' = [msSize EXCEPT ![s] = IndexSize]
          /\ mdSize' = mdSize + IndexSize
    /\ rs' = [rs EXCEPT ![r] = ResetterIdle]
    /\ UNCHANGED <<hash2MStore, tStores, tagsUsed, data, expired, familyVars,
                   nStores, nTStores, wr, fl, ev, unflushed, notifyOwed, boundVars, rd, limitVars>>

-----------------------------------------------------------------------------
\* Time passes beyond the eviction horizon of a series since it was last
\* written: its timeSeriesStore.IsExpired() becomes true.
Expire(t) ==
    /\ SeriesCanExpire
    /\ t \in 1..nTStores \ expired
    /\ expired' = expired \union {t}
    /\ UNCHANGED <<hash2MStore, mutable, immutable, tStores, tagsUsed, data,
                   familyVars, allocVars, actorVars, unflushed, boundVars, sizeVars, notifyOwed, limitVars>>

-----------------------------------------------------------------------------
\* The WithMaxTagsLimit goroutine receives a limitation for metric m (a nil
\* map is skipped and changes nothing) and setLimitations applies it:
\* getMStore under the bucket's read lock, and when no store is found the
\* metric is skipped; else SetMaxTagsLimit stores the limit atomically.  The
\* lookup and the store are folded into one step: a store deleted between
\* them only gets a limit nobody reads.
SetLimitations(m) ==
    LET s == hash2MStore[m] IN
    /\ nSyncs < MaxSyncs
    /\ nSyncs' = nSyncs + 1
    /\ limitSent' = limitSent \union {m}
    /\ IF s = NoStore
         THEN UNCHANGED <<limit, usedAtSync>>
         ELSE /\ limit' = [limit EXCEPT ![s] = MaxTagsLimit]
              /\ usedAtSync' = [usedAtSync EXCEPT ![s] = tagsUsed[mutable[s]]]
    /\ UNCHANGED <<storeVars, familyVars, allocVars, actorVars, sizeVars,
                   unflushed, notifyOwed, nWrites, nFlushes, nResets>>

-----------------------------------------------------------------------------
(* Series-id queries: FindSeriesIDsByExpr and GetSeriesIDsForTag.  A       *)
(* bitmap is the set of series an index links for the queried tag key, and *)
(* nil when it is empty; an index id stands for its version.  A result     *)
(* entry records the version label Add was given and the index the bitmap *)
(* came from.                                                              *)

\* tagIndex.GetSeriesIDsForTag / FindSeriesIDsByExpr: the matching bitmap
Bitmap(i) == {g \in Tags : tStores[i][g] # NoTStore}

\* the entry added for index i, or none when its bitmap is nil
Entry(label, i) == IF Bitmap(i) = {} THEN {} ELSE {[ver |-> label, of |-> i]}

\* The version label each method gives a bitmap of index i of store s:
\* FindSeriesIDsByExpr uses tagIdx.Version(), GetSeriesIDsForTag reads
\* ms.mutable.Version() whichever index the bitmap came from.
Label(kind, s, i) == IF kind = "find" THEN i ELSE mutable[s]

\* md.getMStoreByMetricID finds the store (the not-found branch returns
\* ErrNotFound and changes nothing); under ms.mux.RLock the mutable index
\* is queried and the immutable one loaded (atomicGetImmutable, nil for the
\* nop index).
QueryLocked(q) ==
    /\ rd[q].pc = "idle"
    /\ \E m \in Metrics, kind \in QueryKinds :
         LET s == hash2MStore[m] IN
         /\ s # NoStore
         /\ rd' = [rd EXCEPT ![q] = [pc |-> "unlocked", kind |-> kind, s |-> s,
                                     imm |-> immutable[s],
                                     res |-> Entry(Label(kind, s, mutable[s]),
                                                   mutable[s])]]
    /\ UNCHANGED <<storeVars, familyVars, allocVars, wr, fl, ev, rs, sizeVars,
                   unflushed, notifyOwed, boundVars, limitVars>>

\* After RUnlock: the immutable index loaded under the lock is queried.
\* GetSeriesIDsForTag's label reads ms.mutable here, without the lock.
QueryUnlocked(q) ==
    LET r == rd[q] IN
    /\ r.pc = "unlocked"
    /\ rd' = [rd EXCEPT ![q].pc = "done",
                        ![q].res = r.res \union
                           (IF r.imm = Nop THEN {}
                            ELSE Entry(Label(r.kind, r.s, r.imm), r.imm))]
    /\ UNCHANGED <<storeVars, familyVars, allocVars, wr, fl, ev, rs, sizeVars,
                   unflushed, notifyOwed, boundVars, limitVars>>

\* The caller takes the returned MultiVerSeriesIDSet.
QueryReturn(q) ==
    /\ rd[q].pc = "done"
    /\ rd' = [rd EXCEPT ![q] = ReaderIdle]
    /\ UNCHANGED <<storeVars, familyVars, allocVars, wr, fl, ev, rs, sizeVars,
                   unflushed, notifyOwed, boundVars, limitVars>>

Next ==
    \/ \E x \in Writers :
         \/ WriterLookup(x) \/ WriterCreateMStore(x) \/ WriterCheckFull(x)
         \/ WriterGetTStore(x) \/ WriterCreateTStore(x) \/ WriterWriteTStore(x)
         \/ WriterSwapFamily(x) \/ WriterStoreFamily(x)
    \/ FlushStart \/ FlushResetLast \/ FlushSnapshot \/ FlushDone
    \/ FlushMutable \/ FlushImmutable
    \/ EvictSnapshot \/ EvictSweepDone \/ EvictCheck \/ EvictRemove
    \/ EvictCheckEmpty \/ EvictDeleteStore
    \/ \E r \in Resetters : ResetLookup(r) \/ ResetCheck(r) \/ ResetLocked(r)
    \/ \E t \in TStoreIds : Expire(t)
    \/ \E m \in Metrics : SetLimitations(m)
    \/ \E q \in Readers : QueryLocked(q) \/ QueryUnlocked(q) \/ QueryReturn(q)

Spec == Init /\ [][Next]_vars

(* The steps of a call already under way: a goroutine that is inside      *)
(* Write, FlushFamilyTo, an evictor sweep or ResetMetricStore is runnable  *)
(* (its locks are held only for the length of one step) and the Go        *)
(* scheduler runs it again.  Starting a new call is up to the callers and  *)
(* gets no fairness.                                                       *)
WriterInCall(x) ==
    \/ WriterCreateMStore(x) \/ WriterCheckFull(x) \/ WriterGetTStore(x)
    \/ WriterCreateTStore(x) \/ WriterWriteTStore(x)
    \/ WriterSwapFamily(x) \/ WriterStoreFamily(x)

FlusherInCall ==
    \/ FlushResetLast \/ FlushSnapshot \/ FlushDone
    \/ FlushMutable \/ FlushImmutable

EvictorSweep ==
    \/ EvictSnapshot \/ EvictSweepDone \/ EvictCheck \/ EvictRemove
    \/ EvictCheckEmpty \/ EvictDeleteStore

ResetterInCall(r) == ResetCheck(r) \/ ResetLocked(r)

FairSpec ==
    /\ Spec
    /\ \A x \in Writers : WF_vars(WriterInCall(x))
    /\ WF_vars(FlusherInCall)
    /\ WF_vars(EvictorSweep)
    /\ \A r \in Resetters : WF_vars(ResetterInCall(r))

-----------------------------------------------------------------------------
(***************************************************************************)
(* Properties                                                              *)
(***************************************************************************)

TypeOK ==
    /\ hash2MStore \in [Metrics -> 0..nStores]
    /\ \A s \in 1..nStores : mutable[s] \in 1..nIndexes
    /\ immutable \in [StoreIds -> 0..nIndexes]
    /\ \A s \in 1..nStores : immutable[s] # mutable[s]
    /\ tStores \in [IndexIds -> [Tags -> 0..nTStores]]
    /\ tagsUsed \in [IndexIds -> 0..MaxTStores]
    /\ data \in [TStoreIds -> SUBSET Families]
    /\ expired \subseteq 1..nTStores
    /\ familyTimes \subseteq Families
    /\ lastWroteFamilyTime \in Families \union {0}
    /\ abandoned \subseteq Metrics \X Families
    /\ \A x \in Writers : wr[x].pc \in WriterPCs
    /\ fl.pc \in FlusherPCs /\ ev.pc \in EvictorPCs
    /\ \A r \in Resetters : rs[r].pc \in ResetterPCs
    /\ \A q \in Readers : rd[q].pc \in ReaderPCs
    /\ unflushed \subseteq Points
    /\ mdSize \in Int /\ msSize \in [StoreIds -> Int]
    /\ notifyOwed \in BOOLEAN
    /\ limit \in [StoreIds -> {DefaultMStoreMaxTagsCount, MaxTagsLimit}]
    /\ usedAtSync \in [StoreIds -> Nat] /\ limitSent \subseteq Metrics

\* Families() lists every family that still has data in memory: a point a
\* store holds is of a family in familyTimes, or a writer is still inside
\* addFamilyTime for it, or FlushFamilyTo is running for that family and
\* has not reached the point's metric yet.  This is what the order of
\* familyTimes.Delete, lastWroteFamilyTime.Store(0) and the bucket walk in
\* FlushFamilyTo, against Swap-then-Store in addFamilyTime, must ensure.
\* The one other way out is a FlushMetric error (part_003:387): the flush
\* returns after familyTimes.Delete, and the metrics it never reached keep
\* data of a family Families() no longer lists, until a write of that
\* family or a new FlushFamilyTo of it.
FamilyTracked ==
    \A m \in Metrics, g \in Tags, f \in Families :
        Reachable(m, g, f) =>
            \/ f \in familyTimes
            \/ \E x \in Writers : wr[x].pc \in {"swap_family", "store_family"}
                                  /\ wr[x].f = f
            \/ fl.pc \in {"reset_last", "snapshot", "flush_mutable",
                          "flush_immutable"} /\ fl.f = f /\ m \in fl.todo
            \/ <<m, f>> \in abandoned

\* No write is lost: every point a Write put into a time-series store is
\* flushed or still held by a store that the metric's bucket maps to (or by
\* the immutable index the flusher is flushing).  Evicting an empty
\* metricStore while a writer holds it, or dropping an immutable index with
\* data of other families, breaks it.
NoLostWrite ==
    \A p \in unflushed : Retained(p[1], p[2], p[3])

\* The immutable slot of a metricStore is never overwritten by another
\* index: once ResetVersion has put an index there, it leaves only when
\* FlushMetricsDataTo takes it for flushing (ResetVersion's double check
\* under the lock against a concurrent ResetVersion).
ImmutableHandover ==
    [][\A s \in StoreIds :
          immutable[s] # Nop /\ immutable'[s] # immutable[s] =>
              /\ immutable'[s] = Nop
              /\ fl'.pc = "flush_immutable" /\ fl'.imm = immutable[s]]_immutable

\* Data leaves memory only by being flushed: a step after which a store no
\* longer retains a point that it retained before has handed that point to
\* the flusher.
DataLeavesOnlyByFlush ==
    [][\A p \in Points :
          Retained(p[1], p[2], p[3]) /\ ~Retained(p[1], p[2], p[3])' =>
              p \notin unflushed']_vars

\* No goroutine is inside a call.
Quiescent ==
    /\ \A x \in Writers : wr[x].pc = "idle"
    /\ fl.pc = "idle" /\ ev.pc = "waiting"
    /\ \A r \in Resetters : rs[r].pc = "idle"

\* Once every call has returned, metricStore.MemSize() of each store in a
\* bucket equals what the store holds: ms.size is the mutable index's size,
\* kept by the created, written, flushed and evicted sizes Write,
\* FlushMetricsDataTo and Evict add and subtract, and reset by ResetVersion.
MStoreSizeExact ==
    Quiescent =>
        \A m \in Metrics : hash2MStore[m] # NoStore =>
            MStoreMemSize(hash2MStore[m]) = HeldSize(hash2MStore[m])

\* Once every call has returned, memoryDatabase.MemSize() is the sum of
\* what the stores in the buckets hold (the spec's "equals the sum of the
\* live components' MemSize" with no pending deltas): the additions of
\* getOrCreateMStore, Write and ResetMetricStore and the subtractions of
\* FlushFamilyTo and evict balance.
MemSizeMatches ==
    Quiescent =>
        mdSize = MapThenSumSet(LAMBDA m : HeldSize(hash2MStore[m]),
                               {m \in Metrics : hash2MStore[m] # NoStore})

\* Every call of Write, FlushFamilyTo and ResetMetricStore returns, and an
\* evictor sweep that has begun ends with the evictor back in its select:
\* no loop of the sweep or the flush fails to advance, no step waits
\* forever.
CallsReturn ==
    /\ \A x \in Writers : wr[x].pc # "idle" ~> wr[x].pc = "idle"
    /\ fl.pc # "idle" ~> fl.pc = "idle"
    /\ ev.pc # "waiting" ~> ev.pc = "waiting"
    /\ \A r \in Resetters : rs[r].pc # "idle" ~> rs[r].pc = "idle"

\* The evictor sweeps after every flush: FlushFamilyTo's notification
\* (the spec's single-slot signal, dropped only when one is already
\* pending) is followed by a sweep that begins after the flush ended.
SweepAfterFlush ==
    notifyOwed ~> ~notifyOwed


\* A series-id query (FindSeriesIDsByExpr, GetSeriesIDsForTag) returns a
\* MultiVerSeriesIDSet whose every bitmap is labelled with the version of the
\* tag index it was read from, even when a ResetVersion or a flush runs
\* between the locked read of the mutable index and the unlocked read of
\* the immutable one.
QueryVersionsMatch ==
    \A q \in Readers : rd[q].pc = "done" =>
        \A e \in rd[q].res : e.ver = e.of


\* isFull is checked without ms.mux and the series is created later under
\* Lock, so writers that passed the check together may each add a series:
\* a store holds at most limit + |Writers| - 1 series, counted from what it
\* held when its limit was set (writers in flight then had passed the check
\* against the old limit).
TagsOvershootBounded ==
    \A s \in 1..nStores :
        tagsUsed[mutable[s]]
            <= Max({usedAtSync[s] + 1, limit[s]}) + Cardinality(Writers) - 1

\* The limitation WithMaxTagsLimit received for a metric bounds the series
\* of the metric's store in the same way, whatever store the bucket holds
\* now: one created after the limitation arrived, or one recreated after
\* the evictor deleted the limited one.
LimitationHonoured ==
    \A m \in limitSent : hash2MStore[m] # NoStore =>
        LET s == hash2MStore[m] IN
        tagsUsed[mutable[s]]
            <= Max({usedAtSync[s] + 1, MaxTagsLimit}) + Cardinality(Writers) - 1

=============================================================================
