------------------------------ MODULE FieldStore ------------------------------
(***************************************************************************)
(* The fieldStore of src/tsdb/memdb/field_store.go: the segments (sStores) *)
(* of one field, kept as a slice sorted by family time, found by binary    *)
(* search, grown by append + sort.Sort, shrunk by copy-down on flush.      *)
(*                                                                         *)
(* An sStore is abstracted to its family time and the set of slots it      *)
(* holds; its bytes and its aggregation are left out.  Go's append growth  *)
(* (capacity 0, 1, 2, 4, ...) is kept because Write reports it in the     *)
(* size it returns.  The store is used under the metric store's lock, so   *)
(* every operation is one atomic step.                                     *)
(***************************************************************************)
EXTENDS Integers, Sequences, SequencesExt, FiniteSets

CONSTANTS Families,      \* family times (positive integers)
          Slots,         \* slot indexes within a family
          Interval,      \* the interval passed to TimeRange
          SStoreSize,    \* sStore.MemSize() of a segment
          BytesCanFail,  \* whether sStore.Bytes may return an error
          MaxOps         \* bound on the number of Write/FlushFieldTo calls

ASSUME Families \subseteq Nat \ {0} /\ Slots \subseteq Nat
ASSUME Interval \in Nat \ {0} /\ SStoreSize \in Nat /\ MaxOps \in Nat
ASSUME BytesCanFail \in BOOLEAN

(* The kinds of pb.Field a Write may carry: only Sum is handled. *)
FieldKinds == {"sum", "unknown"}

(* emptyFieldStoreSize: fieldID (2) + slice header (24). *)
emptyFieldStoreSize == 2 + 24

VARIABLES sStoreNodes,  \* the slice, a sequence of [familyTime, slots]
          capacity,     \* cap(fs.sStoreNodes)
          out,          \* ghost: points handed to tableFlusher.FlushField
          written,      \* ghost: sum of the sizes Write returned
          flushed,      \* ghost: sum of the sizes FlushFieldTo returned
          dropped,      \* ghost: sizes of segments a Bytes error dropped
          ops           \* calls made, bounded by MaxOps

vars == <<sStoreNodes, capacity, out, written, flushed, dropped, ops>>

SStore == [familyTime : Families, slots : SUBSET Slots]

(* sStoreNodes.Less: order by family time. *)
Less(a, b) == a.familyTime < b.familyTime

(* sort.Search(n, pred): the least i in 0..n with pred(i) (pred is    *)
(* monotone), by the same halving as Go's loop.  Here pred(i) is      *)
(* nodes[i].GetFamilyTime() >= f, indexes are 0-based as in Go.       *)
(* Mutant: the search predicate tests > instead of >=. *)
RECURSIVE SearchInStrict(_, _, _, _)
SearchInStrict(nodes, f, i, j) ==
    IF i >= j THEN i
    ELSE LET h == (i + j) \div 2
         IN IF nodes[h + 1].familyTime > f
              THEN SearchInStrict(nodes, f, i, h)
              ELSE SearchInStrict(nodes, f, h + 1, j)

RECURSIVE SearchIn(_, _, _, _)
SearchIn(nodes, f, i, j) ==
    IF i >= j THEN i
    ELSE LET h == (i + j) \div 2
         IN IF nodes[h + 1].familyTime >= f
              THEN SearchIn(nodes, f, i, h)
              ELSE SearchIn(nodes, f, h + 1, j)

Search(nodes, f) == SearchIn(nodes, f, 0, Len(nodes))

(* GetSStore: the 1-based position of the segment of family f, or 0.  *)
GetSStore(nodes, f) ==
    LET idx == Search(nodes, f)
    IN IF idx >= Len(nodes) \/ nodes[idx + 1].familyTime # f THEN 0
       ELSE idx + 1

(* removeSStore: drop the segment of family f if there is one. *)
removeSStore(nodes, f) ==
    LET idx == Search(nodes, f)
    IN IF idx = Len(nodes) THEN nodes
       ELSE IF nodes[idx + 1].familyTime # f THEN nodes
       ELSE RemoveAt(nodes, idx + 1)

(* Mutant: append without the sort.Sort. *)
insertSStoreNoSort(nodes, s) == Append(nodes, s)

(* insertSStore: append, then sort.Sort. *)
insertSStore(nodes, s) == SortSeq(Append(nodes, s), Less)

(* Mutant: a capacity that does not double once the slice is full. *)
AppendCapNoDouble(c, n) == IF n <= c THEN c ELSE IF c = 0 THEN 1 ELSE c

(* The capacity append gives a slice of capacity c that must hold n.  *)
AppendCap(c, n) == IF n <= c THEN c ELSE IF c = 0 THEN 1 ELSE 2 * c

(* MemSize: header, the slice's backing array and every segment. *)
MemSize == emptyFieldStoreSize + 8 * capacity + SStoreSize * Len(sStoreNodes)

(* The points the store holds. *)
Held(nodes) ==
    UNION {{<<nodes[i].familyTime, s>> : s \in nodes[i].slots} : i \in DOMAIN nodes}

Init ==
    /\ sStoreNodes = <<>>
    /\ capacity = 0
    /\ out = {}
    /\ written = 0
    /\ flushed = 0
    /\ dropped = 0
    /\ ops = 0

(* Mutant: the slice growth left out of the written size. *)
WriteSumNoCapGrowth(f, s) ==
    LET pos == GetSStore(sStoreNodes, f)
    IN IF pos = 0
         THEN /\ sStoreNodes' = insertSStore(sStoreNodes,
                                       [familyTime |-> f, slots |-> {s}])
              /\ capacity' = AppendCap(capacity, Len(sStoreNodes) + 1)
              /\ written' = written + SStoreSize
         ELSE /\ sStoreNodes' = [sStoreNodes EXCEPT ![pos].slots = @ \cup {s}]
              /\ UNCHANGED <<capacity, written>>

(* Write of a Sum field into slot s of family f: find the segment,     *)
(* create and insert it when missing (reporting the slice growth and   *)
(* the new segment), then WriteFloat into it.                          *)
WriteSum(f, s) ==
    LET pos == GetSStore(sStoreNodes, f)
    IN IF pos = 0
         THEN LET newCap == AppendCap(capacity, Len(sStoreNodes) + 1)
              IN /\ sStoreNodes' = insertSStore(sStoreNodes,
                                       [familyTime |-> f, slots |-> {s}])
                 /\ capacity' = newCap
                 /\ written' = written + (newCap - capacity) * 8 + SStoreSize
         ELSE /\ sStoreNodes' = [sStoreNodes EXCEPT ![pos].slots = @ \cup {s}]
              /\ UNCHANGED <<capacity, written>>

Write(f, s, kind) ==
    /\ ops < MaxOps
    /\ ops' = ops + 1
    /\ IF kind = "sum" THEN WriteSum(f, s)
       ELSE UNCHANGED <<sStoreNodes, capacity, written>>  \* logged, dropped
    /\ UNCHANGED <<out, flushed, dropped>>

(* Mutant: the flushed segment read by index after the removal. *)
FlushFieldToAfterRemove(f) ==
    /\ ops < MaxOps
    /\ ops' = ops + 1
    /\ LET pos == GetSStore(sStoreNodes, f)
       IN IF pos = 0
            THEN UNCHANGED <<sStoreNodes, out, flushed, dropped>>
            ELSE /\ sStoreNodes' = removeSStore(sStoreNodes, f)
                 /\ LET moved == IF pos <= Len(sStoreNodes')
                                 THEN sStoreNodes'[pos].slots ELSE {}
                    IN out' = out \cup {<<f, x>> : x \in moved}
                 /\ flushed' = flushed + SStoreSize
    /\ UNCHANGED <<capacity, written, dropped>>

(* FlushFieldTo(f): no segment returns 0; otherwise the segment is     *)
(* removed first, then its bytes are taken; on an error 0 is returned  *)
(* and the segment is gone, else it is flushed and its size returned.  *)
FlushFieldTo(f) ==
    /\ ops < MaxOps
    /\ ops' = ops + 1
    /\ LET pos == GetSStore(sStoreNodes, f)
       IN IF pos = 0
            THEN UNCHANGED <<sStoreNodes, out, flushed, dropped>>
            ELSE /\ sStoreNodes' = removeSStore(sStoreNodes, f)
                 /\ \/ /\ out' = out \cup {<<f, x>> : x \in sStoreNodes[pos].slots}
                       /\ flushed' = flushed + SStoreSize
                       /\ UNCHANGED dropped
                    \/ /\ BytesCanFail
                       /\ dropped' = dropped + SStoreSize
                       /\ UNCHANGED <<out, flushed>>
    /\ UNCHANGED <<capacity, written>>

Next ==
    \E f \in Families :
        \/ \E s \in Slots, kind \in FieldKinds : Write(f, s, kind)
        \/ FlushFieldTo(f)

Spec == Init /\ [][Next]_vars

(* Mutant: the 0 "not set" test dropped from the start update. *)
TimeRangeStepNoSentinel(node, tr) ==
    LET startTime == node.familyTime + Min(node.slots) * Interval
        endTime   == node.familyTime + Max(node.slots) * Interval
    IN IF node.slots = {} THEN tr
       ELSE [ok    |-> TRUE,
             start |-> IF startTime < tr.start THEN startTime ELSE tr.start,
             end   |-> IF tr.end = 0 \/ tr.end < endTime
                         THEN endTime ELSE tr.end]

(* TimeRange(interval): fold over the segments, 0 meaning "not set". *)
TimeRangeStep(node, tr) ==
    LET startTime == node.familyTime + Min(node.slots) * Interval
        endTime   == node.familyTime + Max(node.slots) * Interval
    IN IF node.slots = {} THEN tr   \* SlotRange error: skipped
       ELSE [ok    |-> TRUE,
             start |-> IF tr.start = 0 \/ startTime < tr.start
                         THEN startTime ELSE tr.start,
             end   |-> IF tr.end = 0 \/ tr.end < endTime
                         THEN endTime ELSE tr.end]

TimeRange(nodes) ==
    FoldLeft(LAMBDA tr, node : TimeRangeStep(node, tr),
             [ok |-> FALSE, start |-> 0, end |-> 0], nodes)

-----------------------------------------------------------------------------
(* Type invariant. *)
TypeOK ==
    /\ sStoreNodes \in Seq(SStore)
    /\ Len(sStoreNodes) <= capacity
    /\ capacity \in Nat
    /\ out \subseteq Families \X Slots
    /\ written \in Nat /\ flushed \in Nat /\ dropped \in Nat /\ ops \in 0..MaxOps

(* The slice stays strictly sorted by family time, so each family has  *)
(* at most one segment: insertSStore's sort.Sort and GetSStore's       *)
(* equality check together prevent a second segment for a family.     *)
SortedUnique ==
    \A i \in 1..(Len(sStoreNodes) - 1) :
        sStoreNodes[i].familyTime < sStoreNodes[i + 1].familyTime

(* The binary search of GetSStore/removeSStore returns the lower bound *)
(* of every family time over the slice the writes and flushes leave.   *)
SearchIsLowerBound ==
    \A f \in Families :
        Search(sStoreNodes, f) =
            Cardinality({i \in DOMAIN sStoreNodes : sStoreNodes[i].familyTime < f})

(* TimeRange reports exactly the earliest and latest held point.       *)
TimeRangeMatches ==
    LET pts   == Held(sStoreNodes)
        times == {p[1] + p[2] * Interval : p \in pts}
        tr    == TimeRange(sStoreNodes)
    IN /\ tr.ok = (pts # {})
       /\ pts # {} => tr.start = Min(times) /\ tr.end = Max(times)

(* The sizes Write reported minus those FlushFieldTo reported equal    *)
(* the store's MemSize above its empty size, up to the segments a      *)
(* Bytes error dropped (FlushFieldTo returns 0 for them, so the metric *)
(* store's size counter keeps them): Write's report of the slice       *)
(* growth and of each new segment tracks what the store holds.         *)
SizeAccounted == written - flushed - dropped = MemSize - emptyFieldStoreSize

(* The field store implements AbsFieldStore: the held points are the   *)
(* abstract points and every flushed point was handed over.            *)
Abs == INSTANCE AbsFieldStore WITH points <- Held(sStoreNodes), out <- out

AbsSpec == Abs!Spec
=============================================================================
