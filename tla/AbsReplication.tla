--------------------------- MODULE AbsReplication ---------------------------
(***************************************************************************)
(* What a replication channel promises (spec 4.8 and the "append-order    *)
(* preservation" property of spec 8): records appended to one channel are *)
(* numbered 1, 2, ... and every target applies them in that order, each   *)
(* exactly once.  Only the count of applied records per target is state.  *)
(***************************************************************************)
EXTENDS Naturals

CONSTANTS Targets,     \* the replication targets of the channel
          MaxAppends   \* bound: records Channel.Write appends

VARIABLES appended,    \* seq of the last record appended
          delivered    \* per target: seq of the last record it applied

absVars == <<appended, delivered>>

AbsInit ==
    /\ appended = 0
    /\ delivered = [t \in Targets |-> 0]

\* Channel.Write: a durable append
AbsAppend ==
    /\ appended < MaxAppends
    /\ appended' = appended + 1
    /\ UNCHANGED delivered

\* target t applies the next record, in append order
AbsDeliver(t) ==
    /\ delivered[t] < appended
    /\ delivered' = [delivered EXCEPT ![t] = @ + 1]
    /\ UNCHANGED appended

AbsNext == AbsAppend \/ \E t \in Targets : AbsDeliver(t)

AbsSpec == AbsInit /\ [][AbsNext]_absVars
=============================================================================
