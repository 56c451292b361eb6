----------------------------- MODULE FieldMeta -----------------------------
(***************************************************************************)
(* The field metadata of one metricStore: metricStore.GetFieldIDOrGenerate *)
(* (part_003:667-712), called concurrently by the writers of the metric.   *)
(* ms.fieldsMetas is a copy-on-write list read without a lock; a new field *)
(* is added under ms.mux after a double check, with an id from the shared  *)
(* IDGenerator, which remembers each field's type across metric stores.    *)
(* A field is its name; its id is abstracted to the name, since            *)
(* GenFieldID gives one id per (metric, name).                             *)
(***************************************************************************)
EXTENDS Naturals, FiniteSets

CONSTANTS Names,     \* field names the callers use
          Types,     \* field types (Sum, Max, ...)
          Callers,   \* goroutines calling GetFieldIDOrGenerate
          MaxCalls   \* bound: calls in total

VARIABLES metas,     \* ms.fieldsMetas: a set of <<name, type>>
          gen,       \* the IDGenerator's fields of the metric: <<name, type>>
          cl,        \* per caller: pc and the call's arguments
          results,   \* ghost: the calls returned so far
          nCalls

vars == <<metas, gen, cl, results, nCalls>>

\* constants.TStoreMaxFieldsCount
TStoreMaxFieldsCount == 1024

NoType == "none"
CallerIdle == [pc |-> "idle", name |-> CHOOSE n \in Names : TRUE,
               type |-> CHOOSE t \in Types : TRUE]

\* field.Metas.GetFromName: the type of a name in a list, or NoType
TypeOf(list, n) == IF \E p \in list : p[1] = n
                     THEN (CHOOSE p \in list : p[1] = n)[2] ELSE NoType

\* the sets of <<name, type>> holding each name at most once
Registries == {r \in SUBSET (Names \X Types) :
                 \A p, q \in r : p[1] = q[1] => p = q}

\* what a call returns: the type of the field whose id it returns, or the error
Return(c, got, err) ==
    [name |-> cl[c].name, type |-> cl[c].type, got |-> got, err |-> err]

\* newMetricStore stores an empty field.Metas; the generator may already
\* know fields of the metric from an earlier store.
Init ==
    /\ metas = {}
    /\ gen \in Registries
    /\ cl = [c \in Callers |-> CallerIdle]
    /\ results = {}
    /\ nCalls = 0

\* GetFieldIDOrGenerate before ms.mux.Lock: the lock-free fieldsMetas.Load,
\* the type check of an existing field, and the full check.
GetFieldLoad(c) ==
    /\ cl[c].pc = "idle"
    /\ nCalls < MaxCalls
    /\ nCalls' = nCalls + 1
    /\ \E n \in Names, t \in Types :
         LET got == TypeOf(metas, n)
             call == [pc |-> "idle", name |-> n, type |-> t]
         IN
         \/ /\ got # NoType
            /\ cl' = [cl EXCEPT ![c] = call]
            /\ results' = results \union
                 {[name |-> n, type |-> t, got |-> got,
                   err |-> IF got = t THEN "none" ELSE "ErrWrongFieldType"]}
         \/ /\ got = NoType
            /\ Cardinality(metas) >= TStoreMaxFieldsCount
            /\ cl' = [cl EXCEPT ![c] = call]
            /\ results' = results \union
                 {[name |-> n, type |-> t, got |-> NoType, err |-> "ErrTooManyFields"]}
         \/ /\ got = NoType
            /\ Cardinality(metas) < TStoreMaxFieldsCount
            /\ cl' = [cl EXCEPT ![c] = [call EXCEPT !.pc = "locked"]]
            /\ UNCHANGED results
    /\ UNCHANGED <<metas, gen>>

\* IDGenerator.GenFieldID (metadb, not under src/): the id of a known
\* field of the same type, a new id for a new name, an error for a known
\* name of another type.
GenFieldIDFails(n, t) == TypeOf(gen, n) \notin {NoType, t}

\* GetFieldIDOrGenerate under ms.mux: reload fieldsMetas and return the id
\* of a field found by the double check; else GenFieldID and store the
\* clone with the new field.
GetFieldLocked(c) ==
    LET n == cl[c].name
        t == cl[c].type
        found == TypeOf(metas, n)
    IN
    /\ cl[c].pc = "locked"
    /\ cl' = [cl EXCEPT ![c] = CallerIdle]
    /\ \/ /\ found # NoType
          /\ results' = results \union {Return(c, found, "none")}
          /\ UNCHANGED <<metas, gen>>
       \/ /\ found = NoType
          /\ GenFieldIDFails(n, t)
          /\ results' = results \union {Return(c, NoType, "GenFieldID")}
          /\ UNCHANGED <<metas, gen>>
       \/ /\ found = NoType
          /\ ~GenFieldIDFails(n, t)
          /\ gen' = gen \union {<<n, t>>}
          /\ metas' = metas \union {<<n, t>>}
          /\ results' = results \union {Return(c, t, "none")}
    /\ UNCHANGED nCalls

Next == \E c \in Callers : GetFieldLoad(c) \/ GetFieldLocked(c)

Spec == Init /\ [][Next]_vars

TypeOK ==
    /\ metas \in Registries /\ gen \in Registries /\ metas \subseteq gen
    /\ \A c \in Callers : cl[c].pc \in {"idle", "locked"}
    /\ nCalls \in 0..MaxCalls

\* A field id is only returned for a field of the type the caller asked
\* for; a name used with another type gets ErrWrongFieldType (spec 7).
\* GetFieldIDOrGenerate checks the type on the lock-free path and in
\* GenFieldID, but its double check under ms.mux returns the id of a field
\* another caller has just created without comparing the types.
FieldTypeRespected ==
    \A r \in results : r.err = "none" => r.got = r.type
====
