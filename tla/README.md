# TLA+ models of the LinDB memory database

This directory holds TLA+ models of the storage-side memory database of
LinDB: `memoryDatabase` and `metricStore` (in `src/unnamed/part_003`) and
`fieldStore` (in `src/tsdb/memdb/field_store.go`). It also holds the TLC
configurations that check them: safety invariants, action properties,
a refinement and liveness under weak fairness. Each run is
listed in `PROJECT.json`, together with its expected result, the mutants
that show each property can fail, the line map from definitions to source,
the findings and the hazards.

## The system and how its parts interact

A write goes through these steps:

1. `memoryDatabase.Write` hashes the metric name.
2. It finds or creates the metric's `metricStore` in one of the sharded
   buckets (`getOrCreateMStore`, under the bucket's RWMutex).
3. It calls `metricStore.Write`. That call checks the tag limit
   (`isFull`), then looks the series up in the *mutable* tag index under
   `ms.mux.RLock`. If the series is missing, it creates it under
   `ms.mux.Lock`. It then writes the point into the series (time-series
   store, field store, segment store).
4. On success, `addFamilyTime` records the point's family. A
   `lastWroteFamilyTime.Swap` avoids the `sync.Map` store when the family
   is the same as last time.

Three other goroutines run against the write path:

- **The flusher.** `FlushFamilyTo(f)` deletes `f` from `familyTimes`,
  resets `lastWroteFamilyTime`, and walks every store. For each one,
  `FlushMetricsDataTo` flushes `f` from the mutable index, takes the
  immutable index, stores the nop index in its place, and flushes `f`
  from the taken one. On the way out, FlushFamilyTo makes a non-blocking
  send on the unbuffered `evictNotifier`.
- **The evictor.** It waits on `evictNotifier`. On each notification it
  sweeps every bucket. For each store, `Evict` removes the series that
  are expired and hold no data. This is a two-pass check: an RLock pass,
  then a double check under Lock. The evictor then deletes the stores
  that became empty, again with a double check under the bucket lock.
- **Resetters.** `ResetMetricStore` makes the mutable index the
  immutable one and installs a fresh mutable index. This is
  `ResetVersion`: a check without the lock, then a double check under
  `ms.mux.Lock`.
- **Readers.** `FindSeriesIDsByExpr` and `GetSeriesIDsForTag` query the
  mutable index under `ms.mux.RLock`, load the immutable one, and query
  it after `RUnlock`. Each bitmap goes into a `MultiVerSeriesIDSet` under
  a version label.

Two byte counters run beside this. `md.size` (int32) is the database's
size: writes add what they allocate, flushes and evictions subtract
what they free. Each store has `ms.size`. `ms.MemSize()` is
`emptyMStoreSize + ms.size + immutable.MemSize()`, so `ms.size` is meant
to count the mutable index only.

Each store keeps its field segments in a `fieldStore`. That is a slice of
segment stores kept sorted by family time. It is searched with
`sort.Search`, grown by append and then `sort.Sort`, and shrunk by a copy
down when `FlushFieldTo` pops a segment.

Replication sits beside the memory database: ChannelManager routes a
write to the Channel of its (database, shard), which appends it to a
FanOutQueue and returns. One Replicator per target streams the queue
from its consumer cursor to the target's write service and advances
the cursor as acks come back; a background task removes segments every
cursor has passed.

## Modules

| Module | Models | State | Actions |
|---|---|---|---|
| `MemDB` | memoryDatabase + metricStore (part_003) | see below | see below |
| `MCMemDB` | TLC instance of MemDB | — | — |
| `FieldStore` | fieldStore (field_store.go) | see below | see below |
| `AbsFieldStore` | what a field store promises | `points`, `out` | `AbsWrite`, `AbsFlush`, `AbsDrop` |
| `FieldMeta` | metricStore.GetFieldIDOrGenerate (part_003:667-712) | `metas`, `gen`, `cl`, `results` | `GetFieldLoad`, `GetFieldLocked` |
| `Replication` | one replication channel: FanOutQueue, a Replicator per target, the target's write service (spec 4.6-4.8, spec_modelled) | see below | see below |
| `AbsReplication` | what a channel promises: in-order, exactly-once application | `appended`, `delivered` | `AbsAppend`, `AbsDeliver` |

### MemDB

`MemDB` has the following state.

- **The bucket map:** `hash2MStore`.
- **Per store:** the current `mutable` and `immutable` index ids (0 is
  the nop index of version 0).
- **Per index:** `tStores` (tag → series id) and `tagsUsed`.
- **Per series:** `data` (the families it holds) and `expired`.
- **Family tracking:** `familyTimes` and `lastWroteFamilyTime`, and the
  ghost `abandoned`: the (metric, family) pairs a flush that failed on an
  earlier store never reached. A new FlushFamilyTo of the family clears them.
- **Actor records:** `wr`, `fl`, `ev`, `rs` and `rd`, holding each
  goroutine's pc and its locals.
- **Size counters:** `mdSize` and `msSize` (per store). Sizes come from
  the constants `EmptyMStoreSize`, `IndexSize`, `TStoreSize` and
  `SegmentSize` (one segment per family a series holds). `SeriesSize`,
  `IndexMemSize` and `MStoreMemSize` are the MemSize methods. Each
  atomic `Add`/`Sub` is folded into the step that computes its delta.
  `md.size` is only read through MemSize, so folding cannot hide a race.
  The `ms.size.Sub` of FlushMetricsDataTo stays in `FlushImmutable`,
  with the mutable part carried in `fl.sz`.
- **The ghost `notifyOwed`:** a flush's notification that was dropped
  and that no sweep has answered yet.
- **The ghost `unflushed`:** the points written and not yet flushed.
- **Tag limits:** `limit` (per store `maxTagsLimit`, starting at
  `DefaultMStoreMaxTagsCount` as newMetricStore sets it), the ghost
  `usedAtSync` (`TagsUsed()` when the limit was last set) and the ghost
  `limitSent` (metrics a limitation was received for).
- **Bound counters:** `nWrites`, `nFlushes`, `nResets` and `nSyncs`.

Every critical section of the code is one action. The steps of a
goroutine that the code separates by unlocks or atomics are separate
actions, with a pc that tells which step comes next:

- **Writer:**
  - `WriterLookup` (Write and getMStoreByMetricHash)
  - `WriterCreateMStore` (getOrCreateMStore)
  - `WriterCheckFull`
  - `WriterGetTStore`
  - `WriterCreateTStore`
  - `WriterWriteTStore`
  - `WriterSwapFamily` and `WriterStoreFamily` (addFamilyTime)
- **Flusher:**
  - `FlushStart`
  - `FlushResetLast`
  - `FlushSnapshot`
  - `FlushMutable` and `FlushImmutable` (FlushMetricsDataTo, including
    the FlushMetric error that ends the flush)
  - `FlushDone`
  - `NotifyEvictor` (the deferred non-blocking send)
- **Evictor:**
  - `EvictSnapshot`
  - `EvictCheck` and `EvictRemove` (the two passes of Evict)
  - `EvictCheckEmpty` and `EvictDeleteStore`
  - `EvictSweepDone`
- **Resetter:** `ResetLookup`, `ResetCheck` and `ResetLocked`.
- **Reader:** `QueryLocked` (the md-level lookup and the RLock section),
  `QueryUnlocked` (the immutable index, and GetSeriesIDsForTag's
  unlocked read of `ms.mutable`) and `QueryReturn`. `Label` gives each
  method's version label; an index id stands for its version.
- **Limitation syncer:** `SetLimitations(m)`, the WithMaxTagsLimit
  goroutine receiving a limitation of `MaxTagsLimit` for `m` and applying
  it through setLimitations, which skips a metric with no store.
- **Time:** `Expire(t)`, a series passing the eviction horizon.

The tag index, the series store and the segment store are not under
`src/`. Their modelling comes from the spec and is marked spec_modelled:
`SeriesWithFamily`, `FlushVersionData`, `Expire`, `SeriesSize`,
`IndexMemSize`, `FlushedSize` and `Bitmap`. Points are (metric, tag,
family) triples. Values and slots are left out of MemDB, and sizes are
per-object constants.

### FieldStore

`FieldStore` has the following state.

- `sStoreNodes`: a sequence of `[familyTime, slots]` records.
- `capacity`: the slice's cap. Go's append growth is kept (0, 1, 2, 4,
  ...) because Write reports it.
- Ghosts `out`, `written` and `flushed`: the points handed to the table
  flusher, and the sums of the sizes returned.

Its actions and operators are these.

- `Search` is a RECURSIVE translation of `sort.Search`.
- `GetSStore`, `removeSStore` and `insertSStore` are the helpers.
- The actions are `Write(f, s, kind)` (Sum or an unknown kind, which is
  dropped) and `FlushFieldTo(f)`. FlushFieldTo removes the segment
  before calling `Bytes`. That call may fail when `BytesCanFail`.
- `TimeRange` is a fold over the segments, with the code's 0 sentinel.

`sStore.MemSize()` is the constant `SStoreSize`, and `WriteFloat`'s
growth is 0. Segment internals are not under `src/`.

FieldStore refines `AbsFieldStore` through
`INSTANCE AbsFieldStore WITH points <- Held(sStoreNodes), out <- out`.
The run checks `AbsSpec` as a PROPERTY.

### FieldMeta

`metas` is `ms.fieldsMetas`, a copy-on-write list read without a lock, as
a set of (name, type). `gen` is the IDGenerator's record of the metric's
fields, which may already hold fields from an earlier store (Init chooses
any). `GetFieldLoad` is the lock-free part: the type check of a field
found, the full check, or on to the lock. `GetFieldLocked` is the section
under `ms.mux`: the double check, GenFieldID (spec_modelled: a known name
of another type is an error) and the store of the clone. The ghost
`results` records what each call returned. The field id is abstracted to
the name, since GenFieldID gives one id per (metric, name).

### Replication

Only the tests of the replication package are under `src/`
(part_000), so `Replication` is modelled from spec 4.6-4.8 and 5, and
every definition is marked spec_modelled. A record is its seq.

- **Queue:** `appendSeq` and `headSeq`, the first seq of the oldest
  segment (`SegSize` seqs each) not yet removed.
  `ChannelWrite` is the durable append. `RemoveSegment` is the
  background task, removing a segment once its last seq is below
  `MinCursor`.
- **Cursors:** `consumerSeq` in memory and `persistedSeq` in the index
  file; `PersistCursor` is a batched fsync.
- **Replicator:** `rstate` runs INIT → CONNECTING → SYNCING → STREAMING
  → FAILED → CONNECTING (`Start`, `ConnectFail`, `ConnectOk`, `Sync`,
  `Fail`, `Backoff`). `Sync` sets `consumerSeq = max(local, remote)`
  from Next and starts the sender at the seq after it. The sender
  (`Send`) and the receiver (`AckRecv`) are separate steps sharing the
  cursor; the window bounds unacked requests.
- **Streams:** `net` and `acks` are FIFO sequences per target (a gRPC
  stream is ordered); `Fail` tears one down and loses what is on it.
- **Target:** `TargetRecv` applies a seq above its cursor `tgtSeq`,
  skips one at or below it, and acks its cursor.
- **Crash:** the source node restarts; cursors fall back to the index
  file, streams vanish and every replicator starts again in INIT.

`Replication` refines `AbsReplication` through
`INSTANCE AbsReplication WITH appended <- appendSeq, delivered <- tgtSeq`;
`AppendOrder` is its spec, checked as a PROPERTY.

## Runs

| Run | Expect | Checks | What it shows |
|---|---|---|---|
| families | pass | TypeOK, FamilyTracked | Two writers of two metrics, a flusher whose FlushMetric may fail, and the evictor interleave. Every family with reachable data is in `familyTimes`, or is about to be stored by a writer, or is being flushed by the running flusher, or was abandoned by a failed flush before the metric's bucket (part_003:387): that is the only way data of a family drops out of Families(). The Swap/Store optimisation is safe against the flusher's Delete and Store(0). |
| reset | pass | ImmutableHandover, CallsReturn | Two resetters race, the flush may fail, a writer writes and the evictor sweeps, under `FairSpec`. An unflushed immutable index is only ever replaced by the flusher that captured it, and every Write, FlushFamilyTo, sweep and ResetMetricStore returns. |
| lost_write | violation | NoLostWrite | A write lands in an object the evictor removed. TLC shows a series evicted between GetTStore and tStore.Write. With `SeriesCanExpire = FALSE` it shows the other case: a flush of an empty database wakes the evictor, which deletes a store a writer has just created. |
| immutable_drop | violation | DataLeavesOnlyByFlush | FlushMetricsDataTo(f2) drops an immutable index that holds f1 data. |
| size | pass | MStoreSizeExact, TagsOvershootBounded | Two writers, a failing flush, the evictor and one limitation, without resets or expiry: whenever every goroutine is parked, `ms.MemSize()` equals the bytes of the store's indexes; and since `isFull` is checked outside `ms.mux` (part_003:865), a mutable index holds at most `max(usedAtSync+1, limit) + |Writers| - 1` series, no more. |
| md_size | violation | MemSizeMatches | evict subtracts the MemSize of a store its double check kept (part_003:304). `md.size` falls below what the stores hold. |
| sweep | violation | SweepAfterFlush | A flush that ends while the evictor sweeps drops its notification on the unbuffered channel, and no sweep follows it. The spec calls the channel a single-slot buffer. |
| limit_lost | violation | LimitationHonoured | setLimitations skips a metric without a store (part_003:211), and newMetricStore starts at the default limit (:660). A limitation received before the first write, or before the evictor deletes and a writer recreates the store, never applies: the store takes two series under a limit of one. |
| field_type | violation | FieldTypeRespected | Two writers ask GetFieldIDOrGenerate for the same new field, one as Sum and one as Max. Both miss on the lock-free read; the second, after the first created the field, takes the double check under `ms.mux` (part_003:696), which returns the Sum field's id with no error. |
| query_tag | violation | QueryVersionsMatch | GetSeriesIDsForTag labels the immutable index's bitmap with `ms.mutable.Version()` (part_003:1141). After one ResetVersion, a reader's MultiVerSeriesIDSet files the old index's series under the new index's version. FindSeriesIDsByExpr, which uses `tagIdx.Version()`, keeps `QueryVersionsMatch` (the families run has a reader on that path). |
| replication | pass | TypeOK, ReadableWhenSent, AppendOrder, AllDelivered | Two targets, two connect/stream failures and one crash: a streaming sender never reads a removed segment (after a crash only Next's remote seq restores the cursor past the removed ones), targets apply records in seq order exactly once, and under `FairSpec` every record reaches every target. |
| fieldstore_refines | pass | TypeOK, SortedUnique, SearchIsLowerBound, TimeRangeMatches, SizeAccounted, AbsSpec | The slice stays sorted with one segment per family, the binary search is the lower bound, TimeRange is exact, the sizes Write and FlushFieldTo return track MemSize (a segment a Bytes error dropped leaves MemSize but is reported as 0, counted by the ghost `dropped`), and the store implements its abstract spec (with the Bytes error allowed as `AbsDrop`). |

Earlier violations kept as prose and hazard notes in `PROJECT.json`,
not as runs:
- After ResetVersion, a write into a series of the now immutable index
  still adds to `ms.size` (part_003:889 against :993), and MemSize counts
  those bytes twice. With one resetter and one write, TLC violates
  `MStoreSizeExact`; the size run, which has no resets, checks it.

### Bounds

MemDB runs with one or two metrics (two in the families run, so that a
failed flush has a store after the failing one), one or two tags, two families, one
or two writers, no resetters or up to two, and no reader or one (the
families run has a FindSeriesIDsByExpr reader; with fairness the reader
made the reset run too slow, so the reset run has none and one write). The
families run sends no limitation, so stores keep the default limit and
every write can create its series. The size run lowers the limit to 1
once (`MaxSyncs = 1`) with three tags, so writers in flight across the
change and writers racing on `isFull` both occur. Allocation is capped by
`MaxStores = 2`, `MaxIndexes = 2` (3 in the reset run) and
`MaxTStores = 2`. The families run has no expiry and one flush: evicting
data only makes `FamilyTracked` easier, and a second flush multiplies the
states by thirty while the Swap/Store race and the failed flush each need
one. Calls are capped by `MaxWrites`, `MaxFlushes` and
`MaxResets`.

These bounds are enough for every race above. Each race needs at most two
goroutines of a kind and two families: one family for the data, and a
second one that is flushed or written. Allocation counters are never
reused, so a recreated store or series is visible as a new id.

Sizes are 8/4/2/1 bytes for a store, an index, a series and a segment.
These values are distinct enough that a miscount of any one object
changes the total.

Writers, resetters and readers are symmetric model values, and `MCMemDB` declares
the symmetry.

FieldStore uses three family times, two slots and up to 8 calls. That is
enough for insertions into the middle of the slice, a capacity growth to
4, and removals that shift later segments down.

Every passing cfg sets `CHECK_DEADLOCK FALSE`. Once the bounded calls are
spent, every goroutine is parked, which is the program's idle state. The
reset run uses no symmetry, because TLC cannot combine symmetry with
temporal properties.

### Fairness

`FairSpec` adds weak fairness for the steps of a call already under
way: `WriterInCall(x)`, `FlusherInCall`, `EvictorSweep` and
`ResetterInCall(r)`. Each lock is held for one step only, and no step
waits for another goroutine, so the Go scheduler keeps running a
goroutine that is inside a call. Starting a call (`WriterLookup`,
`FlushStart`, `ResetLookup`, `QueryLocked`) is up to the callers and
gets no fairness. `NotifyEvictor` is part of the flusher's steps.
`CallsReturn` is checked under `FairSpec`. `SweepAfterFlush` fails under
it: the dropped notification is a matter of the channel, not of
scheduling.

Replication runs with two targets, three records in segments of two
(so one segment is removed and a second is live), a window of two,
two failures and one crash. A crash after a segment is removed needs
three records; a full window needs two unacked requests.

The replication fairness is weak fairness on every replicator step but
the faults (`Start`, `ConnectOk`, `Sync`, `Send`, `TargetRecv`,
`AckRecv`, `Backoff`). Spec 4.7 has CONNECTING retry forever with a
capped backoff, and the sender and receiver tasks suspend only on I/O.
Failures and crashes are bounded, which is what makes "eventually"
meaningful.

## Not modelled, and the plan

The following parts are not modelled yet, with the plan for each.

- **int32 wrap of `md.size`** (part_003:114). A wrap needs about 2^31
  bytes, far past what TLC can explore, so the counters are unbounded.
- **The field limit** (part_003:686). `TStoreMaxFieldsCount` is read
  outside `ms.mux` like `isFull`, so concurrent creators can pass 1024;
  reaching it needs 1024 names, and `FieldMeta` keeps the constant.
- **GetTagValues, Suggest\*, and index flushes.**
  GetTagValues reads `ms.mutable` after an early `RUnlock` (part_003:817).
  The index it finds is always one that held the requested version, so
  no logical property fails; what remains is a Go data race on an
  interface value, below the granularity of the model's steps. The index flushes walk the tag entries and
  write files.
- **Replication, the rest.** CreateChannel's shard validation,
  ChannelManager routing, Report, Channel.Close (CLOSED) and LogSegment
  encoding and rotation are not modelled; they hold no state that the
  delivery properties depend on. The test `TestChannel_WriteSuccess`
  (part_000:274) expects `Pending() == 0` after a send whose ack never
  comes, which only a cursor advanced on send gives, while spec 4.7 says
  the cursor is not advanced beyond the last ack. The channel's code is
  not under src/, so `Replication` follows the spec and states no
  property about where the cursor stands; the test and the spec disagree,
  and a cursor advanced on send loses the unacked records after a
  stream failure, which `AppendOrder` would catch. Spec 8 also calls `consumerSeq`
  monotonic, while a crash sets it back to the fsynced value until the
  next Sync.
- **Write error paths.** metricStore.Write returns early when
  `GetOrCreateTStore` fails (part_003:875-878) and skips
  UpdateIndexTimeRange when `tStore.Write` fails (:884), still adding
  its `writtenSize`; memoryDatabase.Write then skips addFamilyTime
  (part_003:264). Neither error is
  modelled: every write of the model creates its series and stores its
  value, so the size and family properties are checked on successful
  writes only.
- **Query intermediate task** (part_002). It is planned as a small state
  machine.
- **Write API** (part_001). It is a pure conversion with no shared state.
- **Table flushers and mergers.** Only tests are present, and file
  encoding is out of TLC's reach.
