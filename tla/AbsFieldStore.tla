---------------------------- MODULE AbsFieldStore ----------------------------
(***************************************************************************)
(* What a field store promises to the metric store above it: it holds a   *)
(* set of written points, each a (family time, slot) pair; flushing a     *)
(* family hands every point of that family to the table flusher and       *)
(* forgets it; a family may also be forgotten without being handed over   *)
(* (the error path of FlushFieldTo).  A write of an existing point merges *)
(* into it, so the store is a set.                                        *)
(***************************************************************************)
CONSTANTS Families, Slots

VARIABLES points,  \* points held in memory
          out      \* points handed to the table flusher

vars == <<points, out>>

OfFamily(f) == {p \in points : p[1] = f}

Init == points = {} /\ out = {}

AbsWrite(f, s) ==
    /\ points' = points \cup {<<f, s>>}
    /\ UNCHANGED out

AbsFlush(f) ==
    /\ OfFamily(f) # {}
    /\ out' = out \cup OfFamily(f)
    /\ points' = points \ OfFamily(f)

AbsDrop(f) ==
    /\ OfFamily(f) # {}
    /\ points' = points \ OfFamily(f)
    /\ UNCHANGED out

Next == \E f \in Families :
          \/ \E s \in Slots : AbsWrite(f, s)
          \/ AbsFlush(f)
          \/ AbsDrop(f)

Spec == Init /\ [][Next]_vars
=============================================================================
