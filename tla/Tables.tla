------------------------------- MODULE Tables -------------------------------
(***************************************************************************)
(* The data every layer of the store holds: entries, sorted tables of      *)
(* entries, and the two rules by which a stack of tables is read.          *)
(*                                                                         *)
(* A table is a total function from keys to entries.  Absent stands for    *)
(* "no entry for this key"; a Tombstone is an entry with deleted = true.   *)
(* The same type serves a MemTable, an SSTable file, the net effect of a   *)
(* log file, and the effect of one write operation.                        *)
(***************************************************************************)
EXTENDS Integers, Sequences

CONSTANTS
    Keys,       \* the keys in use
    Values,     \* the values in use
    Tombstone,  \* an entry that marks its key deleted
    Absent,     \* no entry
    Null        \* what get() answers for a missing or deleted key

ASSUME DataAssumption ==
    /\ Keys # {}
    /\ Tombstone \notin Values
    /\ Absent \notin Values
    /\ Null \notin Values
    /\ Absent # Tombstone

(* What a table can hold for a key (MemTableEntry, SSTableEntry).          *)
Entry == Values \cup {Tombstone}

Table == [Keys -> Entry \cup {Absent}]

EmptyTable == [k \in Keys |-> Absent]

(* Table t after the entries of table d are put into it.                   *)
Override(t, d) == [k \in Keys |-> IF d[k] # Absent THEN d[k] ELSE t[k]]

(***************************************************************************)
(* The effect of one write operation: put and batchPut store values under  *)
(* one or more keys, delete stores one tombstone.                          *)
(***************************************************************************)
PutOps == {d \in [Keys -> Values \cup {Absent}] : d # EmptyTable}

DeleteOps ==
    {d \in [Keys -> {Tombstone, Absent}] :
        \E k \in Keys : \A j \in Keys : d[j] = Tombstone <=> j = k}

WriteOps == PutOps \cup DeleteOps

(* Mutant: the deleted flag is not looked at. *)
ResolveDeleted(e) == IF e = Absent THEN Null ELSE e

(* An entry as get() reports it: a tombstone and a missing entry are null. *)
Resolve(e) == IF e \in Values THEN e ELSE Null

(***************************************************************************)
(* The table that results from stacking the tables f[i], i \in DOMAIN f,   *)
(* where for each key the entry with the highest index wins.  Log files    *)
(* are replayed in name order and SSTables are ranked by file number.      *)
(***************************************************************************)
HighestWins(f) ==
    [k \in Keys |->
        LET hits == {i \in DOMAIN f : f[i][k] # Absent}
            top == {i \in hits : \A j \in hits : j <= i}
        IN  IF top = {} THEN Absent ELSE f[CHOOSE i \in top : TRUE][k]]

(* The same for a list that is searched from its front: first entry wins.  *)
FirstWins(f) ==
    [k \in Keys |->
        LET hits == {i \in DOMAIN f : f[i][k] # Absent}
            first == {i \in hits : \A j \in hits : i <= j}
        IN  IF first = {} THEN Absent ELSE f[CHOOSE i \in first : TRUE][k]]
=============================================================================
