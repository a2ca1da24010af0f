--------------------------- MODULE MergeIterator ----------------------------
(***************************************************************************)
(* The k-way merge behind range queries and compaction: MergeIterator over *)
(* its MinHeap, and the loop of readKeyRange that consumes it.             *)
(*                                                                         *)
(* Source i delivers the entries of tables[i] in key order, the newest     *)
(* table is source 1.  The heap holds at most one entry of every source    *)
(* and is kept as the array the code uses; bubbleUp and bubbleDown are     *)
(* loops over it.  Both users leave tombstones out, so includeTombstones   *)
(* is FALSE here.                                                          *)
(***************************************************************************)
EXTENDS Tables, FiniteSetsExt, SequencesExt

CONSTANTS
    NumSources,  \* bound: number of tables merged
    Limits       \* values of options.limit of a range query; 0: none

ASSUME MergeAssumption ==
    /\ Keys \subseteq Nat
    /\ NumSources \in Nat
    /\ Limits \subseteq Nat

VARIABLES
    tables,      \* auxiliary: what the sources were made from
    limit,       \* options.limit
    sources,     \* the keys every source has still to deliver
    heap,        \* MinHeap.heap
    initialized, \* how many sources initializeHeap has advanced
    winner,      \* the entry being merged: << >>, or one entry
    out,         \* the pairs yielded so far
    pc           \* "merge", "done" or "failed"

vars == <<tables, limit, sources, heap, initialized, winner, out, pc>>

-----------------------------------------------------------------------------
(* MinHeap, ordered by compareHeapEntries. *)

HeapEntry == [key : Keys, entry : Entry, source : 1..NumSources]

(* Mutant: among equal keys the oldest source comes first. *)
OldestFirst(a, b) ==
    \/ a.key < b.key
    \/ a.key = b.key /\ a.source > b.source

Less(a, b) ==
    \/ a.key < b.key
    \/ a.key = b.key /\ a.source < b.source

Swap(h, i, j) == [h EXCEPT ![i] = h[j], ![j] = h[i]]

(* A loop over the heap, and its index.                                    *)
Loop == [heap : Seq(HeapEntry), at : Nat]

(* One pass of the loop of bubbleUp.                                       *)
Rise[s \in Loop] ==
    LET parent == s.at \div 2
    IN  IF s.at = 1 \/ ~Less(s.heap[s.at], s.heap[parent]) THEN s
        ELSE [heap |-> Swap(s.heap, s.at, parent), at |-> parent]

bubbleUp(h, i) ==
    LET after[n \in 0..Len(h)] ==
            IF n = 0 THEN [heap |-> h, at |-> i] ELSE Rise[after[n - 1]]
    IN  after[Len(h)].heap

(* The smaller of node i and its child j, if there is one.                 *)
Smaller(h, i, j) == IF j <= Len(h) /\ Less(h[j], h[i]) THEN j ELSE i

(* The smallest of node i and its children.                                *)
Smallest(h, i) == Smaller(h, Smaller(h, i, 2 * i), 2 * i + 1)

(* One pass of the loop of bubbleDown.                                     *)
Sink[s \in Loop] ==
    LET smallest == Smallest(s.heap, s.at)
    IN  IF smallest = s.at THEN s
        ELSE [heap |-> Swap(s.heap, s.at, smallest), at |-> smallest]

bubbleDown(h, i) ==
    LET after[n \in 0..Len(h)] ==
            IF n = 0 THEN [heap |-> h, at |-> i] ELSE Sink[after[n - 1]]
    IN  after[Len(h)].heap

Insert(h, e) == bubbleUp(Append(h, e), Len(h) + 1)

(* What is left in the heap without its root.                              *)
ExtractMin(h) ==
    IF Len(h) = 1 THEN << >>
    ELSE bubbleDown([Front(h) EXCEPT ![1] = Last(h)], 1)

-----------------------------------------------------------------------------
(* The keys source i delivers.                                             *)
Held(i) == {k \in Keys : tables[i][k] # Absent}

Init ==
    /\ tables \in [1..NumSources -> Table]
    /\ limit \in Limits
    /\ sources = [i \in 1..NumSources |-> Held(i)]
    /\ heap = << >>
    /\ initialized = 0
    /\ winner = << >>
    /\ out = << >>
    /\ pc = "merge"

(* advanceSource: the source's next entry goes into heap h.  SSTables and  *)
(* MemTables deliver their entries in key order.                           *)
AdvanceSource(h, i) ==
    IF sources[i] = {}
    THEN heap' = h /\ UNCHANGED sources
    ELSE LET key == Min(sources[i])
         IN  /\ heap' = Insert(h, [key |-> key, entry |-> tables[i][key],
                                   source |-> i])
             /\ sources' = [sources EXCEPT ![i] = @ \ {key}]

Merging == pc = "merge" /\ initialized = NumSources

(* initializeHeap, one source at a time.                                   *)
InitializeHeap ==
    /\ pc = "merge"
    /\ initialized < NumSources
    /\ initialized' = initialized + 1
    /\ AdvanceSource(heap, initialized + 1)
    /\ UNCHANGED <<tables, limit, winner, out, pc>>

(* The loop of iterate takes the smallest entry.                           *)
TakeSmallest ==
    /\ Merging
    /\ winner = << >>
    /\ heap # << >>
    /\ winner' = <<heap[1]>>
    /\ heap' = ExtractMin(heap)
    /\ UNCHANGED <<tables, limit, sources, initialized, out, pc>>

Duplicate == heap # << >> /\ heap[1].key = winner[1].key

(* Mutant: the duplicate is looked at and left in the heap. *)
PeekDuplicate ==
    /\ Merging
    /\ winner # << >>
    /\ Duplicate
    /\ UNCHANGED vars

(* An older entry for the same key is passed over.                         *)
SkipDuplicate ==
    /\ Merging
    /\ winner # << >>
    /\ Duplicate
    /\ AdvanceSource(ExtractMin(heap), heap[1].source)
    /\ UNCHANGED <<tables, limit, initialized, winner, out, pc>>

AtLimit(count) == limit > 0 /\ count >= limit

(* The winner's source is advanced; a live winner is yielded, and          *)
(* readKeyRange leaves the loop at its limit.                              *)
Yield ==
    /\ Merging
    /\ winner # << >>
    /\ ~Duplicate
    /\ AdvanceSource(heap, winner[1].source)
    /\ winner' = << >>
    /\ out' = IF winner[1].entry = Tombstone THEN out
              ELSE Append(out, <<winner[1].key, winner[1].entry>>)
    /\ pc' = IF AtLimit(Len(out')) THEN "done" ELSE pc
    /\ UNCHANGED <<tables, limit, initialized>>

Exhausted ==
    /\ Merging
    /\ winner = << >>
    /\ heap = << >>
    /\ pc' = "done"
    /\ UNCHANGED <<tables, limit, sources, heap, initialized, winner, out>>

(* A source fails: its reader was closed or its file cannot be read.       *)
SourceFails ==
    /\ pc = "merge"
    /\ (initialized < NumSources \/ winner # << >>)
    /\ pc' = "failed"
    /\ UNCHANGED <<tables, limit, sources, heap, initialized, winner, out>>

Ended == pc # "merge" /\ UNCHANGED vars

Next ==
    \/ InitializeHeap \/ TakeSmallest \/ SkipDuplicate \/ Yield \/ Exhausted
    \/ SourceFails \/ Ended

Spec == Init /\ [][Next]_vars

Fairness == WF_vars(InitializeHeap \/ TakeSmallest \/ SkipDuplicate \/ Yield
                    \/ Exhausted)

FairSpec == Spec /\ Fairness

-----------------------------------------------------------------------------
(* Properties. *)

(* The keys whose newest entry is a value, and those yielded so far.       *)
Live == {k \in Keys : FirstWins(tables)[k] \in Values}

Yielded == {out[i][1] : i \in DOMAIN out}

(* What has been yielded is at every moment the beginning of the merge: in *)
(* key order, the newest value of every live key up to the last one        *)
(* yielded.  So a consumer that stops at its limit, or whose source fails  *)
(* midway, has missed nothing below what it saw; and at the end nothing is *)
(* missing at all unless the limit was reached.                            *)
YieldsMerge ==
    /\ \A i \in DOMAIN out :
           /\ out[i] = <<out[i][1], FirstWins(tables)[out[i][1]]>>
           /\ \A j \in DOMAIN out : i < j => out[i][1] < out[j][1]
           /\ \A k \in Live \ Yielded : out[i][1] < k
    /\ Yielded \subseteq Live
    /\ limit > 0 => Len(out) <= limit
    /\ pc = "done" => \/ Yielded = Live
                      \/ limit > 0 /\ Len(out) = limit

(* The merge loop comes to an end.                                         *)
MergeEnds == <>(pc # "merge")
=============================================================================
