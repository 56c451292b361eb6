---------------------------- MODULE Replication ----------------------------
(***************************************************************************)
(* One replication channel (database, shard): its FanOutQueue and one     *)
(* Replicator per target, with the target's write service at the other    *)
(* end of each stream.  Only the tests of this component are under src/   *)
(* (part_000), so every definition is modelled from spec 4.6-4.8 and 5.   *)
(*                                                                         *)
(* A record is its seq.  Segments hold SegSize consecutive seqs; the      *)
(* queue keeps the seqs headSeq..appendSeq.  The sender and the receiver  *)
(* of a replicator are separate tasks; each step below is one of them.    *)
(* Faults: a connect, Next or stream error (the stream is torn down and   *)
(* what is in flight on it is lost), and a crash of the source node that  *)
(* loses every cursor advance not yet fsynced.                            *)
(***************************************************************************)
EXTENDS Naturals, Sequences, FiniteSetsExt

CONSTANTS Targets,      \* the replication targets of the channel
          MaxAppends,   \* bound: records Channel.Write appends
          Window,       \* bound on unacked messages of a stream
          SegSize,      \* records per LogSegment
          MaxFailures,  \* bound: connect, Next and stream errors
          MaxCrashes    \* bound: crashes of the source node

ASSUME /\ MaxAppends \in Nat /\ Window \in Nat \ {0} /\ SegSize \in Nat \ {0}
       /\ MaxFailures \in Nat /\ MaxCrashes \in Nat

VARIABLES appendSeq,    \* FanOutQueue.appendSeq: seq of the last record
          headSeq,      \* first seq of the oldest segment not removed
          consumerSeq,  \* per target: in-memory consumer cursor
          persistedSeq, \* per target: cursor in the index file
          rstate,       \* per target: replicator state
          sendSeq,      \* per target: next seq the sender reads
          net,          \* per target: WriteRequest seqs on the stream
          acks,         \* per target: WriteResponse ackSeqs on the stream
          tgtSeq,       \* per target: the target's own cursor
          nFailures, nCrashes

queueVars == <<appendSeq, headSeq>>
cursorVars == <<consumerSeq, persistedSeq>>
streamVars == <<sendSeq, net, acks>>
faultVars == <<nFailures, nCrashes>>
vars == <<queueVars, cursorVars, rstate, streamVars, tgtSeq, faultVars>>

States == {"init", "connecting", "syncing", "streaming", "failed"}
Seqs == 0..MaxAppends

\* FanOutQueue: the minimum of all consumer cursors
MinCursor == Min({consumerSeq[t] : t \in Targets})

\* Replicator.Pending() = appendSeq - consumerSeq
Pending(t) == appendSeq - consumerSeq[t]

Init ==
    /\ appendSeq = 0
    /\ headSeq = 1
    /\ consumerSeq = [t \in Targets |-> 0]
    /\ persistedSeq = [t \in Targets |-> 0]
    /\ rstate = [t \in Targets |-> "init"]
    /\ sendSeq = [t \in Targets |-> 1]
    /\ net = [t \in Targets |-> <<>>]
    /\ acks = [t \in Targets |-> <<>>]
    /\ tgtSeq = [t \in Targets |-> 0]
    /\ nFailures = 0 /\ nCrashes = 0

\* Channel.Write: a durable FanOutQueue.Append under the append lock
ChannelWrite ==
    /\ appendSeq < MaxAppends
    /\ appendSeq' = appendSeq + 1
    /\ UNCHANGED <<headSeq, cursorVars, rstate, streamVars, tgtSeq, faultVars>>

\* Mutant of RemoveSegment: segments go by age, the cursors unchecked.
RemoveSegmentNoCursorCheck ==
    /\ headSeq' = headSeq + SegSize
    /\ UNCHANGED <<appendSeq, cursorVars, rstate, streamVars, tgtSeq, faultVars>>
\* the background task removes the oldest segment once its last seq is
\* below every consumer cursor
RemoveSegment ==
    /\ headSeq + SegSize - 1 < MinCursor
    /\ headSeq' = headSeq + SegSize
    /\ UNCHANGED <<appendSeq, cursorVars, rstate, streamVars, tgtSeq, faultVars>>

\* the consumer record's index file is fsynced, batching advances
PersistCursor(t) ==
    /\ persistedSeq[t] # consumerSeq[t]
    /\ persistedSeq' = [persistedSeq EXCEPT ![t] = consumerSeq[t]]
    /\ UNCHANGED <<queueVars, consumerSeq, rstate, streamVars, tgtSeq, faultVars>>

\* INIT -> CONNECTING: the replicator created by GetOrCreateReplicator starts
Start(t) ==
    /\ rstate[t] = "init"
    /\ rstate' = [rstate EXCEPT ![t] = "connecting"]
    /\ UNCHANGED <<queueVars, cursorVars, streamVars, tgtSeq, faultVars>>

\* CreateWriteServiceClient fails: back off and stay CONNECTING
ConnectFail(t) ==
    /\ rstate[t] = "connecting"
    /\ nFailures < MaxFailures
    /\ nFailures' = nFailures + 1
    /\ UNCHANGED <<queueVars, cursorVars, rstate, streamVars, tgtSeq, nCrashes>>

\* CreateWriteServiceClient succeeds: CONNECTING -> SYNCING
ConnectOk(t) ==
    /\ rstate[t] = "connecting"
    /\ rstate' = [rstate EXCEPT ![t] = "syncing"]
    /\ UNCHANGED <<queueVars, cursorVars, streamVars, tgtSeq, faultVars>>

\* SYNCING: Next(database, shard) returns the target's highest persisted
\* seq; consumerSeq = max(local, remote); the sender starts after it
\* Mutant of Sync: the remote seq is ignored.
SyncIgnoresRemote(t) ==
    /\ rstate[t] = "syncing"
    /\ rstate' = [rstate EXCEPT ![t] = "streaming"]
    /\ sendSeq' = [sendSeq EXCEPT ![t] = consumerSeq[t] + 1]
    /\ UNCHANGED <<queueVars, cursorVars, net, acks, tgtSeq, faultVars>>
\* Mutant of Sync: off by one in the sender's first seq.
SyncSkipsOne(t) ==
    LET c == Max({consumerSeq[t], tgtSeq[t]}) IN
    /\ rstate[t] = "syncing"
    /\ rstate' = [rstate EXCEPT ![t] = "streaming"]
    /\ consumerSeq' = [consumerSeq EXCEPT ![t] = c]
    /\ sendSeq' = [sendSeq EXCEPT ![t] = c + 2]
    /\ UNCHANGED <<queueVars, persistedSeq, net, acks, tgtSeq, faultVars>>
Sync(t) ==
    LET c == Max({consumerSeq[t], tgtSeq[t]}) IN
    /\ rstate[t] = "syncing"
    /\ rstate' = [rstate EXCEPT ![t] = "streaming"]
    /\ consumerSeq' = [consumerSeq EXCEPT ![t] = c]
    /\ sendSeq' = [sendSeq EXCEPT ![t] = c + 1]
    /\ UNCHANGED <<queueVars, persistedSeq, net, acks, tgtSeq, faultVars>>

\* the sender task: GetMessage(consumer, sendSeq), waiting while pending
\* is 0 or the window of unacked messages is full, then WriteRequest
Send(t) ==
    /\ rstate[t] = "streaming"
    /\ sendSeq[t] <= appendSeq
    /\ sendSeq[t] - 1 - consumerSeq[t] < Window
    /\ net' = [net EXCEPT ![t] = Append(@, sendSeq[t])]
    /\ sendSeq' = [sendSeq EXCEPT ![t] = @ + 1]
    /\ UNCHANGED <<queueVars, cursorVars, rstate, acks, tgtSeq, faultVars>>

\* the target's write service: applies a seq above its own cursor, skips
\* one at or below it, and answers WriteResponse{ackSeq} with its cursor
TargetRecv(t) ==
    LET seq == Head(net[t])
        c   == Max({seq, tgtSeq[t]})
    IN
    /\ net[t] # <<>>
    /\ net' = [net EXCEPT ![t] = Tail(@)]
    /\ tgtSeq' = [tgtSeq EXCEPT ![t] = c]
    /\ acks' = [acks EXCEPT ![t] = Append(@, c)]
    /\ UNCHANGED <<queueVars, cursorVars, rstate, sendSeq, faultVars>>

\* Mutant of AckRecv: the response is consumed, the cursor not advanced.
AckRecvNoAdvance(t) ==
    /\ rstate[t] = "streaming"
    /\ acks[t] # <<>>
    /\ acks' = [acks EXCEPT ![t] = Tail(@)]
    /\ UNCHANGED <<queueVars, cursorVars, rstate, net, sendSeq, tgtSeq, faultVars>>
\* the receiver task: awaits WriteResponse{ackSeq} and advances the cursor
AckRecv(t) ==
    /\ rstate[t] = "streaming"
    /\ acks[t] # <<>>
    /\ consumerSeq' = [consumerSeq EXCEPT ![t] = Head(acks[t])]
    /\ acks' = [acks EXCEPT ![t] = Tail(@)]
    /\ UNCHANGED <<queueVars, persistedSeq, rstate, net, sendSeq, tgtSeq, faultVars>>

\* FAILED: a Next, send or recv error tears the stream down; what is in
\* flight on it is lost and the cursor stays at the last ack
Fail(t) ==
    /\ rstate[t] \in {"syncing", "streaming"}
    /\ nFailures < MaxFailures
    /\ nFailures' = nFailures + 1
    /\ rstate' = [rstate EXCEPT ![t] = "failed"]
    /\ net' = [net EXCEPT ![t] = <<>>]
    /\ acks' = [acks EXCEPT ![t] = <<>>]
    /\ UNCHANGED <<queueVars, cursorVars, sendSeq, tgtSeq, nCrashes>>

\* FAILED -> CONNECTING after a backoff
Backoff(t) ==
    /\ rstate[t] = "failed"
    /\ rstate' = [rstate EXCEPT ![t] = "connecting"]
    /\ UNCHANGED <<queueVars, cursorVars, streamVars, tgtSeq, faultVars>>

\* the source node crashes and restarts: the appended records and the
\* removed segments are on disk, cursors fall back to the index file,
\* streams are gone and every replicator is created anew
Crash ==
    /\ nCrashes < MaxCrashes
    /\ nCrashes' = nCrashes + 1
    /\ consumerSeq' = persistedSeq
    /\ rstate' = [t \in Targets |-> "init"]
    /\ net' = [t \in Targets |-> <<>>]
    /\ acks' = [t \in Targets |-> <<>>]
    /\ UNCHANGED <<queueVars, persistedSeq, sendSeq, tgtSeq, nFailures>>

Next ==
    \/ ChannelWrite
    \/ RemoveSegment
    \/ Crash
    \/ \E t \in Targets :
        \/ PersistCursor(t) \/ Start(t) \/ ConnectFail(t) \/ ConnectOk(t)
        \/ Sync(t) \/ Send(t) \/ TargetRecv(t) \/ AckRecv(t)
        \/ Fail(t) \/ Backoff(t)

Spec == Init /\ [][Next]_vars

\* The replicator's own steps are taken while it can take them: a
\* replicator task is never starved, and CONNECTING retries until the
\* target answers (failures are bounded).  The target serves its stream.
FairSpec ==
    /\ Spec
    /\ \A t \in Targets :
        /\ WF_vars(Start(t)) /\ WF_vars(ConnectOk(t)) /\ WF_vars(Sync(t))
        /\ WF_vars(Send(t)) /\ WF_vars(TargetRecv(t)) /\ WF_vars(AckRecv(t))
        /\ WF_vars(Backoff(t))

Abs == INSTANCE AbsReplication WITH appended <- appendSeq, delivered <- tgtSeq

TypeOK ==
    /\ appendSeq \in Seqs /\ headSeq \in 1..MaxAppends + SegSize
    /\ consumerSeq \in [Targets -> Seqs] /\ persistedSeq \in [Targets -> Seqs]
    /\ rstate \in [Targets -> States]
    /\ sendSeq \in [Targets -> 1..MaxAppends + 2]
    /\ net \in [Targets -> Seq(Seqs)] /\ acks \in [Targets -> Seq(Seqs)]
    /\ tgtSeq \in [Targets -> Seqs]
    /\ nFailures \in 0..MaxFailures /\ nCrashes \in 0..MaxCrashes

\* A streaming sender never reads a seq whose segment the background task
\* already removed: segments go once every in-memory cursor is past them,
\* and after a crash the cursor falls back to the fsynced one, below that
\* point, so it is Next's remote seq in SYNCING that restores it.
ReadableWhenSent ==
    \A t \in Targets : rstate[t] = "streaming" => sendSeq[t] >= headSeq

\* Append-order preservation (spec 8): the targets apply the records of
\* the channel in seq order, each once, whatever reconnects and crashes
\* interleave (the channel refines AbsReplication).
AppendOrder == Abs!AbsSpec

\* Every record appended is eventually applied by every target, once the
\* bounded failures and crashes are spent and the replicator tasks run.
AllDelivered ==
    \A t \in Targets : \A n \in 1..MaxAppends :
        appendSeq >= n ~> tgtSeq[t] >= n
====
