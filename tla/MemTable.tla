------------------------------ MODULE MemTable ------------------------------
(***************************************************************************)
(* The size accounting of the active MemTable and the decision to freeze   *)
(* it, which LSMStore leaves open.  put() and delete() keep a running byte *)
(* count next to the map; maybeFlush() looks at the count after every      *)
(* write, and skips when a flush is already running.  Replaying the log at *)
(* the start fills the table without looking.                              *)
(***************************************************************************)
EXTENDS Integers, FiniteSets, FiniteSetsExt

CONSTANTS
    Keys,        \* keys, all of the same length
    KeySize,     \* that length, in bytes
    ValueSizes,  \* lengths of the values in use
    Metadata,    \* bytes counted per entry beside key and value (8 + 1 + 40)
    SizeLimit,   \* memTableSizeLimit
    MaxWrites    \* bound: entries written

ASSUME MemTableAssumption ==
    /\ IsFiniteSet(Keys)
    /\ KeySize \in Nat
    /\ ValueSizes \subseteq Nat \ {0}
    /\ Metadata \in Nat
    /\ SizeLimit \in Nat \ {0}
    /\ MaxWrites \in Nat

VARIABLES
    data,         \* the active MemTable: value length per key, -1: no entry
    currentSize,  \* its byte count
    initialized,  \* initialize() has replayed the log
    flushing,     \* a flush is running
    skipped,      \* auxiliary: the last entries came by replay or met a
                  \* running flush
    dirty,        \* auxiliary: delete() has replaced an entry of this table
    writes        \* number of entries written so far

vars == <<data, currentSize, initialized, flushing, skipped, dirty, writes>>

NoEntry == -1

EmptyData == [k \in Keys |-> NoEntry]

(* calculateEntrySize; a tombstone has the value ''.                       *)
EntrySize(n) == IF n = NoEntry THEN 0 ELSE KeySize + n + Metadata

(* The bytes the table really holds.                                       *)
RealSize(d) == MapThenSumSet(LAMBDA k : EntrySize(d[k]), Keys)

(* Mutant: the entry that is replaced is still counted. *)
PutTwice(t, k, n) ==
    [data |-> [t.data EXCEPT ![k] = n], size |-> t.size + EntrySize(n)]

(* The table and its count after put(k, value of n bytes).                 *)
Put(t, k, n) ==
    [data |-> [t.data EXCEPT ![k] = n],
     size |-> t.size - EntrySize(t.data[k]) + EntrySize(n)]

(* Mutant: the entry that is deleted is still counted. *)
DeleteCounted(t, k) ==
    [data |-> [t.data EXCEPT ![k] = 0], size |-> t.size + EntrySize(0)]

(* delete() subtracts the entry it replaces and so does the put() it calls.*)
Delete(t, k) ==
    Put([t EXCEPT !.size = @ - EntrySize(t.data[k])], k, 0)

Active == [data |-> data, size |-> currentSize]

Init ==
    /\ data = EmptyData
    /\ currentSize = 0
    /\ initialized = FALSE
    /\ flushing = FALSE
    /\ skipped = FALSE
    /\ dirty = FALSE
    /\ writes = 0

(* Mutant: a table of exactly the limit is not full. *)
IsOverFull(t) == t.size > SizeLimit

IsFull(t) == t.size >= SizeLimit

(* maybeFlush() and triggerFlush() on the updated table t: a full table is *)
(* frozen unless a flush is running.                                       *)
MaybeFlush(t, d) ==
    IF IsFull(t) /\ ~flushing
    THEN /\ flushing' = TRUE
         /\ data' = EmptyData
         /\ currentSize' = 0
         /\ dirty' = FALSE
    ELSE /\ data' = t.data
         /\ currentSize' = t.size
         /\ dirty' = d
         /\ UNCHANGED flushing

(* applyLogEntry() on the updated table t: nobody asks whether it is full. *)
Replayed(t, d) ==
    /\ data' = t.data
    /\ currentSize' = t.size
    /\ dirty' = d
    /\ skipped' = TRUE
    /\ UNCHANGED flushing

(* One operation that writes n entries, a client's or, before initialize() *)
(* ends, one of the log, has updated the table to t.                       *)
Wrote(t, n, d) ==
    /\ writes + n <= MaxWrites
    /\ writes' = writes + n
    /\ IF initialized
       THEN MaybeFlush(t, d) /\ skipped' = flushing
       ELSE Replayed(t, d)
    /\ UNCHANGED initialized

PutOne(k, n) == Wrote(Put(Active, k, n), 1, dirty)

DeleteOne(k) == Wrote(Delete(Active, k), 1, dirty \/ data[k] # NoEntry)

(* batchPut stores all entries, maybe twice under one key, then looks.     *)
BatchPut(k, m, j, n) == Wrote(Put(Put(Active, k, m), j, n), 2, dirty)

(* initialize() has applied the last entry of the log. *)
Initialize ==
    /\ ~initialized
    /\ initialized' = TRUE
    /\ UNCHANGED <<data, currentSize, flushing, skipped, dirty, writes>>

FlushEnds ==
    /\ flushing
    /\ flushing' = FALSE
    /\ UNCHANGED <<data, currentSize, initialized, skipped, dirty, writes>>

Done == initialized /\ writes = MaxWrites /\ ~flushing /\ UNCHANGED vars

Next ==
    \/ \E k \in Keys, n \in ValueSizes : PutOne(k, n)
    \/ \E k \in Keys : DeleteOne(k)
    \/ \E k, j \in Keys, m, n \in ValueSizes : BatchPut(k, m, j, n)
    \/ Initialize
    \/ FlushEnds
    \/ Done

Spec == Init /\ [][Next]_vars

-----------------------------------------------------------------------------
(* Properties *)

(* Every variable has its type. *)
TypeOK ==
    /\ data \in [Keys -> ValueSizes \cup {0, NoEntry}]
    /\ currentSize \in Int
    /\ initialized \in BOOLEAN
    /\ flushing \in BOOLEAN
    /\ skipped \in BOOLEAN
    /\ dirty \in BOOLEAN
    /\ writes \in 0..MaxWrites

(* The count equals the bytes the table holds, however often a key is      *)
(* overwritten with values of other lengths, from the creation of the      *)
(* table until delete() meets a key it holds: from then on the entry that  *)
(* was subtracted twice is missing from the count.                         *)
SizeExact == ~dirty => currentSize = RealSize(data)

(* The count never exceeds the bytes the table holds, deletes included, so *)
(* that no table is frozen before it holds SizeLimit bytes.                *)
NeverOvercounts == currentSize <= RealSize(data)

(* When MemTable exceeds its limit, it is frozen and a new one takes over: *)
(* after a write that did not meet a running flush the active table holds  *)
(* less than SizeLimit, however much the replay put into it before, unless *)
(* a delete has made the count too low.                                    *)
FreezesWhenFull == ~skipped /\ ~dirty => RealSize(data) < SizeLimit
=============================================================================
