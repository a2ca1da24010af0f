------------------------------ MODULE KVStore -------------------------------
(***************************************************************************)
(* What the storage engine promises its callers (IStorageEngine): a map    *)
(* from keys to values.  A put, delete or batchPut that is called takes    *)
(* effect in one step, once, before it returns; one that is under way when *)
(* the engine stops may or may not have taken effect.  Nothing else ever   *)
(* changes the map: no flush, no compaction, no restart.                   *)
(***************************************************************************)
EXTENDS Tables

VARIABLES
    kv,       \* the map
    pending,  \* the write that is called and has not returned; EmptyTable: none
    up        \* the engine runs

kvVars == <<kv, pending, up>>

(* The map after write operation d.                                        *)
Applied(m, d) ==
    [k \in Keys |-> IF d[k] # Absent THEN Resolve(d[k]) ELSE m[k]]

KVInit ==
    /\ kv \in [Keys -> Values \cup {Null}]
    /\ pending = EmptyTable
    /\ ~up

Call(d) ==
    /\ up
    /\ pending = EmptyTable
    /\ pending' = d
    /\ UNCHANGED <<kv, up>>

Return ==
    /\ up
    /\ pending # EmptyTable
    /\ kv' = Applied(kv, pending)
    /\ pending' = EmptyTable
    /\ UNCHANGED up

Stop ==
    /\ up
    /\ up' = FALSE
    /\ kv' \in {kv, Applied(kv, pending)}
    /\ pending' = EmptyTable

Start ==
    /\ ~up
    /\ up' = TRUE
    /\ UNCHANGED <<kv, pending>>

KVNext == (\E d \in WriteOps : Call(d)) \/ Return \/ Stop \/ Start

KVSpec == KVInit /\ [][KVNext]_kvVars
=============================================================================
