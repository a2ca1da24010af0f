------------------------------ MODULE SSTable -------------------------------
(***************************************************************************)
(* One SSTable file: SSTableWriter builds it entry by entry under a        *)
(* temporary name, SSTableReader looks keys up through the Bloom filter    *)
(* and the sparse index and scans the data block.                          *)
(*                                                                         *)
(* An entry is its key and its serialized size; an offset is a position in *)
(* bytes, so the sparse index is right only when its offsets fall on the   *)
(* starts of entries.                                                      *)
(***************************************************************************)
EXTENDS BloomFilter, Sequences

CONSTANTS
    Keys,      \* keys an entry can have
    EmptyKey,  \* the empty string, below every key
    Sizes,     \* serialized sizes of entries
    Interval,  \* sparseIndexInterval
    Reserved,  \* bytes readEntryAt sets aside for an entry
    MaxBuffer, \* the longest buffer Node allocates
    Unset      \* a range bound that is left out (undefined)

Probes == Keys \cup {EmptyKey}

DataEntry == [key : Keys, size : Sizes]

ASSUME SSTableAssumption ==
    /\ Keys \subseteq Nat
    /\ EmptyKey \in Nat
    /\ \A k \in Keys : EmptyKey < k
    /\ Sizes \subseteq Nat \ {0}
    /\ Interval \in Nat \ {0}
    /\ Reserved \in [DataEntry -> Nat]
    /\ MaxBuffer \in Nat
    /\ DOMAIN Hash1 = Probes
    /\ Unset \notin Probes

VARIABLES
    entries,  \* SSTableWriter.entries
    writer,   \* "adding", "building", "built" or "failed"
    file,     \* what is on disk
    isOpen,   \* SSTableReader.state is set
    query,    \* the lookup or scan in progress, or the last one
    out       \* the entries it has delivered

vars == <<entries, writer, file, isOpen, query, out>>

-----------------------------------------------------------------------------
File == [name : {"none", "tmp", "final"},
         data : Seq(DataEntry),
         index : Seq([key : Keys, offset : Nat]),
         bits : Bits]

NoFile == [name |-> "none", data |-> << >>, index |-> << >>, bits |-> NoBits]

(* kind: what is asked; from, to: the bounds as given; offset: where the   *)
(* next entry is read.                                                     *)
Query == [kind : {"none", "get", "iterate"},
          from : Probes \cup {Unset},
          to : Probes \cup {Unset},
          offset : Nat,
          pc : {"scan", "done", "failed"}]

NoQuery == [kind |-> "none", from |-> Unset, to |-> Unset, offset |-> 0,
            pc |-> "done"]

(* Where each entry of the data starts, and where the data ends.           *)
Starts(data) ==
    LET start[i \in 0..Len(data)] ==
          IF i = 0 THEN 0 ELSE start[i - 1] + data[i].size
    IN  start

Start(data, i) == Starts(data)[i - 1]

End(data) == Start(data, Len(data) + 1)

-----------------------------------------------------------------------------
Init ==
    /\ entries = << >>
    /\ writer = "adding"
    /\ file = NoFile
    /\ isOpen = FALSE
    /\ query = NoQuery
    /\ out = << >>

InOrder(key) == entries # << >> => entries[Len(entries)].key < key

(* add(); a key that is not above the last one is refused.                 *)
Add(e) ==
    /\ writer = "adding"
    /\ InOrder(e.key)
    /\ entries' = Append(entries, e)
    /\ UNCHANGED <<writer, file, isOpen, query, out>>

(* build() creates the temporary file; an empty table is refused.          *)
Build ==
    /\ writer = "adding"
    /\ entries # << >>
    /\ writer' = "building"
    /\ file' = [NoFile EXCEPT !.name = "tmp"]
    /\ UNCHANGED <<entries, isOpen, query, out>>

(* Every Interval-th entry is indexed.                                     *)
Indexed(e) ==
    IF Len(file.data) % Interval = 0
    THEN Append(file.index, [key |-> e.key, offset |-> End(file.data)])
    ELSE file.index

(* Mutant: only indexed keys are added to the Bloom filter. *)
FilteredSparse(e) ==
    IF Len(file.data) % Interval = 0 THEN AddKey(file.bits, e.key)
    ELSE file.bits

Filtered(e) == AddKey(file.bits, e.key)

(* The loop of build() writes one entry.                                   *)
WriteEntry ==
    /\ writer = "building"
    /\ Len(file.data) < Len(entries)
    /\ LET e == entries[Len(file.data) + 1]
       IN  file' = [file EXCEPT !.data = Append(@, e),
                                !.index = Indexed(e),
                                !.bits = Filtered(e)]
    /\ UNCHANGED <<entries, writer, isOpen, query, out>>

(* Mutant: the file gets its name before its data is complete. *)
FinishEarly ==
    /\ writer = "building"
    /\ file.data # << >>
    /\ file' = [file EXCEPT !.name = "final"]
    /\ writer' = "built"
    /\ UNCHANGED <<entries, isOpen, query, out>>

(* Index, filter and footer are written, the file is synced and renamed.   *)
Finish ==
    /\ writer = "building"
    /\ Len(file.data) = Len(entries)
    /\ file' = [file EXCEPT !.name = "final"]
    /\ writer' = "built"
    /\ UNCHANGED <<entries, isOpen, query, out>>

(* A write fails: the temporary file is removed.                           *)
BuildFails ==
    /\ writer = "building"
    /\ writer' = "failed"
    /\ file' = NoFile
    /\ UNCHANGED <<entries, isOpen, query, out>>

(* The process ends: a temporary file stays, nothing looks at it again.    *)
Crash ==
    /\ writer = "building"
    /\ writer' = "failed"
    /\ UNCHANGED <<entries, file, isOpen, query, out>>

-----------------------------------------------------------------------------
(* The reader. *)

Open ==
    /\ file.name = "final"
    /\ ~isOpen
    /\ query.kind = "none"
    /\ isOpen' = TRUE
    /\ UNCHANGED <<entries, writer, file, query, out>>

FirstKey == file.data[1].key

LastKey == file.data[Len(file.data)].key

IsInRange(key) == FirstKey <= key /\ key <= LastKey

(* The variables of the binary search in the sparse index. *)
Search == [left : 1..(Len(file.index) + 1),
           right : 0..Len(file.index),
           result : Nat]

FullSearch == [left |-> 1, right |-> Len(file.index), result |-> 0]

Middle(s) == (s.left + s.right) \div 2

(* Mutant: the search remembers the block behind the key. *)
FindBehind(key) ==
    LET search[s \in Search] ==
          IF s.left > s.right THEN s.result
          ELSE LET mid == file.index[Middle(s)]
               IN  IF mid.key <= key
                   THEN search[[s EXCEPT !.left = Middle(s) + 1]]
                   ELSE search[[s EXCEPT !.right = Middle(s) - 1,
                                         !.result = mid.offset]]
    IN  search[FullSearch]

(* Where the last indexed entry that is not above key starts.              *)
FindStartOffset(key) ==
    LET search[s \in Search] ==
          IF s.left > s.right THEN s.result
          ELSE LET mid == file.index[Middle(s)]
               IN  IF mid.key <= key
                   THEN search[[s EXCEPT !.left = Middle(s) + 1,
                                         !.result = mid.offset]]
                   ELSE search[[s EXCEPT !.right = Middle(s) - 1]]
    IN  search[FullSearch]

Ask(kind, from, to, offset, pc) ==
    /\ query' = [kind |-> kind, from |-> from, to |-> to, offset |-> offset,
                 pc |-> pc]
    /\ out' = << >>
    /\ UNCHANGED <<entries, writer, file, isOpen>>

(* mayContain(), then get().                                               *)
Get(key) ==
    /\ isOpen
    /\ query.kind = "none"
    /\ Ask("get", key, key, FindStartOffset(key),
           IF IsInRange(key) /\ MightContain(file.bits, key) THEN "scan" ELSE "done")

EffectiveStart == IF query.from = Unset THEN FirstKey ELSE query.from

EffectiveEnd == IF query.to = Unset THEN LastKey ELSE query.to

(* Mutant: a range that ends with the first key is taken for empty. *)
IterateCutShort(from, to) ==
    /\ isOpen
    /\ query.kind = "none"
    /\ LET start == IF from = Unset THEN FirstKey ELSE from
           end == IF to = Unset THEN LastKey ELSE to
       IN  Ask("iterate", from, to, FindStartOffset(start),
               IF start > LastKey \/ end <= FirstKey THEN "done" ELSE "scan")

(* iterate(startKey, endKey); a bound that is undefined is the table's own *)
(* first or last key.                                                      *)
Iterate(from, to) ==
    /\ isOpen
    /\ query.kind = "none"
    /\ LET start == IF from = Unset THEN FirstKey ELSE from
           end == IF to = Unset THEN LastKey ELSE to
       IN  Ask("iterate", from, to, FindStartOffset(start),
               IF start > LastKey \/ end < FirstKey THEN "done" ELSE "scan")

(* The entry whose bytes begin at offset.                                  *)
EntryAt(offset) ==
    file.data[CHOOSE i \in 1..Len(file.data) : Start(file.data, i) = offset]

(***************************************************************************)
(* readEntryAt sets aside as many bytes as it takes the entry to have.  It *)
(* looks for the length of the value where the key begins, so the number   *)
(* has little to do with the size: too few bytes, and deserializeEntry     *)
(* reads past their end; too many, and there is no such buffer; both throw.*)
(***************************************************************************)
ReadsWhole(e) == e.size <= Reserved[e] /\ Reserved[e] <= MaxBuffer

(* One turn of the loops of get() and iterate(): an entry below the bounds *)
(* is skipped, one inside is delivered, one above ends the loop; get()     *)
(* ends with its first hit.                                                *)
Scan ==
    /\ isOpen
    /\ query.pc = "scan"
    /\ query.offset < End(file.data)
    /\ ReadsWhole(EntryAt(query.offset))
    /\ LET e == EntryAt(query.offset)
           hit == EffectiveStart <= e.key /\ e.key <= EffectiveEnd
       IN  /\ out' = IF hit THEN Append(out, e.key) ELSE out
           /\ query' = [query EXCEPT
                          !.offset = @ + e.size,
                          !.pc = IF \/ e.key > EffectiveEnd
                                    \/ hit /\ query.kind = "get"
                                 THEN "done" ELSE "scan"]
    /\ UNCHANGED <<entries, writer, file, isOpen>>

(* readEntryAt throws, and with it get() or iterate().                     *)
ReadFails ==
    /\ isOpen
    /\ query.pc = "scan"
    /\ query.offset < End(file.data)
    /\ ~ReadsWhole(EntryAt(query.offset))
    /\ query' = [query EXCEPT !.pc = "failed"]
    /\ UNCHANGED <<entries, writer, file, isOpen, out>>

ScanEnds ==
    /\ isOpen
    /\ query.pc = "scan"
    /\ query.offset >= End(file.data)
    /\ query' = [query EXCEPT !.pc = "done"]
    /\ UNCHANGED <<entries, writer, file, isOpen, out>>

(* close(), by a compaction that has replaced the file: a scan in progress *)
(* fails at its next read.                                                 *)
Close ==
    /\ isOpen
    /\ isOpen' = FALSE
    /\ query' = [query EXCEPT !.pc = IF @ = "scan" THEN "failed" ELSE @]
    /\ UNCHANGED <<entries, writer, file, out>>

(* The caller has its answer or error and asks again.                      *)
Answered ==
    /\ isOpen
    /\ query.kind # "none"
    /\ query.pc # "scan"
    /\ query' = NoQuery
    /\ out' = << >>
    /\ UNCHANGED <<entries, writer, file, isOpen>>

Ended ==
    /\ ~isOpen
    /\ writer = "failed" \/ query.kind # "none"
    /\ UNCHANGED vars

Next ==
    \/ \E e \in DataEntry : Add(e)
    \/ Build \/ WriteEntry \/ Finish \/ BuildFails \/ Crash
    \/ Open
    \/ \E k \in Keys : Get(k)
    \/ \E from, to \in Probes \cup {Unset} : Iterate(from, to)
    \/ Scan \/ ReadFails \/ ScanEnds \/ Close \/ Answered \/ Ended

Spec == Init /\ [][Next]_vars

-----------------------------------------------------------------------------
(* Properties. *)

(* An entry lies within the bounds that are given. *)
Inside(e, from, to) == /\ from # Unset => from <= e.key
                       /\ to # Unset => e.key <= to

(* The keys within the bounds of the first n entries that were added.      *)
Hits(from, to) ==
    LET hits[n \in 0..Len(entries)] ==
          IF n = 0 THEN << >>
          ELSE IF Inside(entries[n], from, to)
               THEN Append(hits[n - 1], entries[n].key)
               ELSE hits[n - 1]
    IN  hits

(* The keys that were added, within the bounds.                            *)
Stored(from, to) == Hits(from, to)[Len(entries)]

(* A lookup that does not fail finds the key exactly when it was added:    *)
(* the filter, the key range, the sparse index and the scan never lose one.*)
LookupRight ==
    query.kind = "get" /\ query.pc = "done" =>
        out = Stored(query.from, query.to)

(* The filter of a file never denies a key the file holds, whatever the    *)
(* hash functions are and however its bits fall together with those of     *)
(* other keys (add, getCombinedHash, setBit, getBit).                      *)
NoFalseNegatives ==
    \A i \in 1..Len(file.data) : MightContain(file.bits, file.data[i].key)

(* A scan delivers the entries between its bounds in order, none left out, *)
(* also when it is cut short by close() or by an entry it cannot read.     *)
(* Nothing is said of an empty end bound: iterate() takes it for a bound   *)
(* below every key and delivers nothing, where ISSTableReader says it      *)
(* stands for the end.                                                     *)
ScanRight ==
    query.kind = "iterate" /\ query.to # EmptyKey =>
        LET all == Stored(query.from, query.to)
        IN  /\ Len(out) <= Len(all)
            /\ out = SubSeq(all, 1, Len(out))
            /\ query.pc = "done" => out = all

(* A file under its final name is complete, whatever failed before.        *)
FinalIsComplete == file.name = "final" => file.data = entries

=============================================================================
