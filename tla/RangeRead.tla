------------------------------ MODULE RangeRead ------------------------------
(***************************************************************************)
(* Range queries on a live store: readKeyRange of LSMStore while flushes,  *)
(* compactions, writes, crashes and restarts go on around it.              *)
(*                                                                         *)
(* At its first step a query copies the entries of both MemTables and the  *)
(* list of readers; then it awaits one entry of one source at a time, so   *)
(* any number of changes to the store may happen before it ends.  The heap *)
(* is modelled by what it is used for, the order in which the sources are  *)
(* advanced (see MergeIterator for the heap itself).                       *)
(***************************************************************************)
EXTENDS LSMStore

CONSTANTS
    Queries,     \* bound: the pairs of startKey and endKey that are asked
    Limits,      \* values of options.limit; 0: none
    MaxRanges    \* bound: range queries

ASSUME RangeAssumption ==
    /\ Keys \subseteq Nat \ {0}
    /\ IsFiniteSet(Keys)
    /\ Queries \subseteq Keys \X Keys
    /\ Limits \subseteq Nat
    /\ MaxRanges \in Nat

VARIABLES
    range,   \* progress of a readKeyRange()
    ranges   \* how many have been started

rangeVars == <<vars, range, ranges>>

-----------------------------------------------------------------------------
(* A source: a table, the reader it is read through (0: a copy of MemTable *)
(* entries), and the key it delivered last, 0 before the first.  head is   *)
(* the key it has in the heap, 0 for none.                                 *)
Source == [reader : Nat, data : Table, at : {0} \cup Keys, head : {0} \cup Keys]

MakeSource(id, t) == [reader |-> id, data |-> t, at |-> 0, head |-> 0]

IdleRange == [st |-> "idle", from |-> 0, to |-> 0, limit |-> 0,
              sources |-> << >>, due |-> << >>, out |-> << >>, want |-> << >>]

(* due: the sources to be advanced before the next key is merged; out: the *)
(* pairs yielded; want, auxiliary: those the store held when it was asked. *)
RangeState == [st : {"idle", "reading", "done", "failed"},
               from : {0} \cup Keys, to : {0} \cup Keys,
               limit : {0} \cup Limits,
               sources : Seq(Source), due : Seq(Nat),
               out : Seq(Keys \X Values), want : Seq(Keys \X Values)]

RangeTypeOK ==
    /\ range \in RangeState
    /\ \A n \in DOMAIN range.due : range.due[n] \in DOMAIN range.sources
    /\ ranges \in Nat

(* The numbers of S in ascending order. *)
Ascending(S) ==
    CHOOSE s \in [1..Cardinality(S) -> S] :
        \A i, j \in 1..Cardinality(S) : i < j => s[i] < s[j]

(* The elements of s at the positions S. *)
At(s, S) ==
    LET order == Ascending(S)
    IN  [i \in 1..Cardinality(S) |-> s[order[i]]]

InRange(t, from, to) ==
    [k \in Keys |-> IF from <= k /\ k <= to THEN t[k] ELSE Absent]

(* firstKey and lastKey of a table against the bounds of the query.        *)
Overlaps(t, from, to) ==
    /\ \E k \in Keys : t[k] # Absent /\ from <= k
    /\ \E k \in Keys : t[k] # Absent /\ k <= to

(* The live pairs between two keys of a map. *)
Pairs(m, from, to) ==
    LET live == Ascending({k \in Keys : from <= k /\ k <= to /\ m[k] # Null})
    IN  [i \in DOMAIN live |-> <<live[i], m[live[i]]>>]

-----------------------------------------------------------------------------
(* The query ends: with the loop of iterate, or at an error. *)
End(r, st) ==
    [r EXCEPT !.st = st, !.sources = << >>, !.due = << >>]

(* Mutant: on equal keys the entry of the oldest source is yielded. *)
MergeStepOldest(r) ==
    LET heads == {r.sources[i].head : i \in DOMAIN r.sources} \ {0}
        low == CHOOSE k \in heads : \A j \in heads : k <= j
        tied == Ascending({i \in DOMAIN r.sources : r.sources[i].head = low})
    IN  IF heads = {} THEN End(r, "done") ELSE [r EXCEPT !.due = tied]

(* The loop of iterate extracts the smallest key: the duplicates are       *)
(* advanced in the order of the heap, the winner last.                     *)
MergeStep(r) ==
    LET heads == {r.sources[i].head : i \in DOMAIN r.sources} \ {0}
        low == CHOOSE k \in heads : \A j \in heads : k <= j
        tied == Ascending({i \in DOMAIN r.sources : r.sources[i].head = low})
    IN  IF heads = {} THEN End(r, "done")
        ELSE [r EXCEPT !.due = Tail(tied) \o <<Head(tied)>>]

(* What is read, newest first: copies of both MemTables cut to the bounds, *)
(* then the readers.                                                       *)
Layers(from, to) ==
    <<MakeSource(0, InRange(active, from, to)),
      MakeSource(0, InRange(immutable, from, to))>>
    \o [i \in DOMAIN sstables |-> MakeSource(sstables[i].id, sstables[i].data)]

(* readKeyRange up to its first await: copies and filters are all made in  *)
(* one turn; an empty MemTable gives no source.                            *)
RangeStart(from, to, limit) ==
    /\ up
    /\ range.st # "reading"
    /\ ranges < MaxRanges
    /\ ranges' = ranges + 1
    /\ LET all == Layers(from, to)
           sources == At(all, {i \in DOMAIN all : Overlaps(all[i].data, from, to)})
           called == [IdleRange EXCEPT
                        !.st = "reading", !.from = from, !.to = to, !.limit = limit,
                        !.sources = sources, !.due = [i \in DOMAIN sources |-> i],
                        !.want = Pairs(latest, from, to)]
       IN  range' = IF from > to \/ sources = << >> THEN End(called, "done")
                    ELSE called
    /\ UNCHANGED vars

(* Asking a closed reader for an entry throws: at its first entry, and as  *)
(* long as its file holds entries behind the one it delivered last.        *)
Throws(s) ==
    /\ s.reader \in closed
    /\ s.at = 0 \/ \E k \in Keys : k > s.at /\ s.data[k] # Absent

(* reader.iterate: the next entry between the bounds. *)
NextEntry(s) ==
    LET left == {k \in Keys : k > s.at /\ InRange(s.data, range.from, range.to)[k] # Absent}
        next == IF left = {} THEN 0 ELSE CHOOSE k \in left : \A j \in left : k <= j
    IN  [s EXCEPT !.at = IF next = 0 THEN @ ELSE next, !.head = next]

(* One await of advanceSource.  The last of a round completes it: the      *)
(* winner is yielded unless it is deleted (the first round yields nothing, *)
(* it fills the heap), and unless the limit is reached the next begins.    *)
RangeAdvance ==
    /\ up
    /\ range.st = "reading"
    /\ LET i == Head(range.due)
           s == range.sources[i]
           moved == [range EXCEPT !.sources[i] = NextEntry(s), !.due = Tail(@)]
           live == s.head # 0 /\ s.data[s.head] # Tombstone
           out == IF live THEN Append(range.out, <<s.head, s.data[s.head]>>)
                  ELSE range.out
       IN  \/ /\ Throws(s)
              /\ range' = End(range, "failed")
           \/ /\ ~Throws(s)
              /\ Len(range.due) > 1
              /\ range' = moved
           \/ /\ ~Throws(s)
              /\ Len(range.due) = 1
              /\ range' = IF live /\ range.limit > 0 /\ Len(out) >= range.limit
                          THEN End([moved EXCEPT !.out = out], "done")
                          ELSE MergeStep([moved EXCEPT !.out = out])
    /\ UNCHANGED <<vars, ranges>>

-----------------------------------------------------------------------------
RangeInit == Init /\ range = IdleRange /\ ranges = 0

(* A step of the rest of the store.  A query does not survive its process; *)
(* the outcome of one that has ended is with its caller.                   *)
StoreStep ==
    /\ Next
    /\ range' = IF up' /\ range.st = "reading" THEN range ELSE IdleRange
    /\ UNCHANGED ranges

RangeNext ==
    \/ StoreStep
    \/ \E q \in Queries, limit \in Limits : RangeStart(q[1], q[2], limit)
    \/ RangeAdvance

RangeSpec == RangeInit /\ [][RangeNext]_rangeVars

-----------------------------------------------------------------------------
(* Properties. *)

(* A range query answers as of the moment it was called, however the store *)
(* is written, flushed and compacted while it is read: what it has yielded *)
(* is at every moment the beginning of the live pairs of that moment, and  *)
(* when it ends nothing is missing but what lies behind its limit.         *)
RangeReturnsSnapshot ==
    /\ Len(range.out) <= Len(range.want)
    /\ range.out = SubSeq(range.want, 1, Len(range.out))
    /\ range.st = "done" =>
          \/ range.out = range.want
          \/ range.limit > 0 /\ Len(range.out) = range.limit
=============================================================================
