------------------------------ MODULE LSMStore ------------------------------
(***************************************************************************)
(* The storage engine: LSMStore composed with its MemTables, write-ahead   *)
(* log, manifest, SSTable files and CompactionManager.                     *)
(*                                                                         *)
(* Node runs one callback at a time, so a step of this model is what runs  *)
(* between two awaits.  Four activities interleave: a client's write, a    *)
(* client's get, the background flush and the background compaction.  The  *)
(* process may be killed between any two steps; what it wrote to files     *)
(* before that survives.                                                   *)
(***************************************************************************)
EXTENDS Tables, FiniteSets

CONSTANTS
    Preloads,        \* SSTables an earlier life of the store may have left
    Threshold,       \* number of SSTables at which compaction starts
    MaxWrites,       \* bound: write operations
    MaxGets,         \* bound: get operations
    MaxFlushes,      \* bound: times the active MemTable fills up
    MaxCompactions,  \* bound: compactions started
    MaxRestarts,     \* bound: crashes and graceful shutdowns
    MaxFaults,       \* bound: I/O errors hit by a flush or a compaction
    MaxLeftovers,    \* bound: old logs that checkpoint() fails to unlink
    MaxDrops         \* bound: starts that find SSTables they cannot open

ASSUME LSMAssumption ==
    /\ Preloads \subseteq Seq(Table)
    /\ Threshold \in Nat \ {0, 1}
    /\ MaxWrites \in Nat
    /\ MaxGets \in Nat
    /\ MaxFlushes \in Nat
    /\ MaxCompactions \in Nat
    /\ MaxRestarts \in Nat
    /\ MaxFaults \in Nat
    /\ MaxLeftovers \in Nat
    /\ MaxDrops \in Nat

VARIABLES
    up,            \* initialize() has completed and close() has not
    inflight,      \* the write waiting for wal.append; EmptyTable: none
    active,        \* activeMemTable
    immutable,     \* immutableMemTable; EmptyTable: null
    sstables,      \* this.sstables, the readers that get() searches in order
    closed,        \* ids of the readers that were closed
    opened,        \* number of readers opened since the process started
    flush,         \* progress of doFlush
    compaction,    \* progress of executeCompaction, handleCompactionComplete
    manifest,      \* Manifest.state, in memory
    manifestFile,  \* content of MANIFEST
    manifestTmp,   \* content of MANIFEST.tmp, as a set with at most one member
    files,         \* content of sstable-<n>.sst, for every n that exists
    wal,           \* net effect of every log file, oldest first
    get,           \* progress of a get()
    latest,        \* auxiliary: the map the acknowledged writes add up to,
                   \* counted anew from what a start finds on disk
    used           \* how much of every bound is used up

memVars == <<active, immutable>>
readerVars == <<sstables, closed, opened>>
manifestVars == <<manifest, manifestFile, manifestTmp>>
vars == <<up, inflight, memVars, readerVars, flush, compaction, manifestVars,
          files, wal, get, latest, used>>

-----------------------------------------------------------------------------
(* Types *)

Reader == [id : Nat, num : Nat, data : Table]

Manifest == {m \in [tables : SUBSET Nat, next : Nat \ {0}] :
                IsFiniteSet(m.tables)}

EmptyManifest == [tables |-> {}, next |-> 1]

FlushPC == {"idle", "build", "add", "save", "rename", "open", "publish",
            "checkpoint", "list", "unlink"}

FlushState == [pc : FlushPC, num : Nat, data : Table, edit : Manifest,
               kept : Nat]

IdleFlush == [pc |-> "idle", num |-> 0, data |-> EmptyTable,
              edit |-> EmptyManifest, kept |-> 0]

CompactionPC == {"idle", "read", "build", "add", "saveAdd", "renameAdd",
                 "remove", "saveRemove", "renameRemove", "unlink", "scan",
                 "swap"}

CompactionState ==
    [pc : CompactionPC, metas : SUBSET Nat, num : Nat, data : Table,
     edit : Manifest, left : SUBSET Nat, idx : Nat \ {0},
     kept : Seq(Reader)]

IdleCompaction == [pc |-> "idle", metas |-> {}, num |-> 0,
                   data |-> EmptyTable, edit |-> EmptyManifest,
                   left |-> {}, idx |-> 1, kept |-> << >>]

GetState ==
    [st : {"idle", "reading", "done", "failed"}, key : Keys,
     rest : Seq(Reader), want : Values \cup {Null},
     result : Values \cup {Null}]

IdleGet == [st |-> "idle", key |-> CHOOSE k \in Keys : TRUE, rest |-> << >>,
            want |-> Null, result |-> Null]

Bounds == {"writes", "gets", "flushes", "compactions", "restarts", "faults",
           "leftovers", "drops"}

Spend(b) == used' = [used EXCEPT ![b] = @ + 1]

-----------------------------------------------------------------------------
(* Mutant: the new file is not listed. *)
AddUnlisted(m, n) == [tables |-> m.tables, next |-> n + 1]

(***************************************************************************)
(* Manifest edits.  applyEdit always leaves the list sorted by descending  *)
(* file number, so the list is modelled as the set of its numbers: a       *)
(* number that is listed twice names one file, is read as one and removed  *)
(* as one.  An edit that adds names the next file number itself; one that  *)
(* only removes takes the largest number known, plus one.                  *)
(***************************************************************************)
AddSSTable(m, n) == [tables |-> m.tables \cup {n}, next |-> n + 1]

RemoveSSTables(m, nums) ==
    LET rest == m.tables \ nums
        known == rest \cup {m.next - 1}
    IN  {[tables |-> rest, next |-> top + 1] :
            top \in {n \in known : \A o \in known : o <= n}}

(* save(): write MANIFEST.tmp, then rename it over MANIFEST.               *)
SaveTmp(m) ==
    /\ manifestTmp' = {m}
    /\ UNCHANGED <<manifest, manifestFile>>

(* Mutant: the rename is forgotten. *)
DiscardTmp ==
    /\ manifestTmp' = {}
    /\ UNCHANGED <<manifest, manifestFile>>

RenameTmp ==
    /\ manifestFile' \in manifestTmp
    /\ manifestTmp' = {}
    /\ UNCHANGED manifest

-----------------------------------------------------------------------------
(* What the store would answer now, and what it would answer if it were    *)
(* killed and started again now.                                           *)

(* Mutant: the immutable MemTable is not searched. *)
ActiveEntry(k) == active[k]

MemTableEntry(k) == IF active[k] # Absent THEN active[k] ELSE immutable[k]

SSTableData(s) == [i \in DOMAIN s |-> s[i].data]

View ==
    LET found == FirstWins(SSTableData(sstables))
    IN  [k \in Keys |->
            Resolve(IF MemTableEntry(k) # Absent THEN MemTableEntry(k)
                    ELSE found[k])]

OnDisk(nums) == HighestWins([n \in nums \cap DOMAIN files |-> files[n]])

Replayed == HighestWins(wal)

(* What the logs and the SSTables with these numbers add up to. *)
Recovered(nums) ==
    LET found == Override(OnDisk(nums), Replayed)
    IN  [k \in Keys |-> Resolve(found[k])]

DiskView == Recovered(manifestFile.tables)

-----------------------------------------------------------------------------
Init ==
    /\ \E p \in Preloads :
        /\ files = p
        /\ manifestFile = [tables |-> DOMAIN p, next |-> Len(p) + 1]
    /\ manifestTmp = {}
    /\ wal = << >>
    /\ up = FALSE
    /\ inflight = EmptyTable
    /\ active = EmptyTable
    /\ immutable = EmptyTable
    /\ sstables = << >>
    /\ closed = {}
    /\ opened = 0
    /\ flush = IdleFlush
    /\ compaction = IdleCompaction
    /\ manifest = EmptyManifest
    /\ get = IdleGet
    /\ latest = DiskView
    /\ used = [b \in Bounds |-> 0]

(***************************************************************************)
(* initialize(): load the manifest, open a reader per file it names and    *)
(* drop the names whose file is missing or fails to open, for good; open   *)
(* the newest log or create one, replay every log into the active          *)
(* MemTable.  One step: a start that is cut short has only taken some of   *)
(* these names off, and the next start finds the same files.               *)
(***************************************************************************)
Descending(S) ==
    {s \in [1..Cardinality(S) -> S] :
        /\ \A n \in S : \E i \in 1..Cardinality(S) : s[i] = n
        /\ \A i, j \in 1..Cardinality(S) : i < j => s[i] > s[j]}

(* The files that cannot be opened at this start, without any fault those  *)
(* that do not exist.                                                      *)
Unopened(bad) ==
    LET missing == manifestFile.tables \ DOMAIN files
    IN  \/ bad = missing /\ UNCHANGED used
        \/ /\ bad # missing
           /\ missing \subseteq bad
           /\ used["drops"] < MaxDrops
           /\ Spend("drops")

Initialize ==
    /\ ~up
    /\ \E bad \in SUBSET manifestFile.tables :
        /\ Unopened(bad)
        /\ IF bad = {} THEN manifest' = manifestFile
           ELSE manifest' \in RemoveSSTables(manifestFile, bad)
    /\ manifestFile' = manifest'
    /\ \E s \in Descending(manifest'.tables) :
        /\ sstables' = [i \in DOMAIN s |->
                          [id |-> i, num |-> s[i], data |-> files[s[i]]]]
        /\ opened' = Len(s)
    /\ wal' = IF wal = << >> THEN <<EmptyTable>> ELSE wal
    /\ active' = Replayed
    /\ up' = TRUE
    /\ latest' = Recovered(manifest'.tables)
    /\ UNCHANGED <<inflight, immutable, closed, flush, compaction,
                   manifestTmp, files, get>>

-----------------------------------------------------------------------------
(***************************************************************************)
(* Writes.  put, delete and batchPut hand one entry to wal.append; when it *)
(* is written and synced, the MemTable is updated and maybeFlush runs in   *)
(* the same turn of the event loop.  Whether the MemTable is then full     *)
(* depends on byte sizes that this module leaves open (see MemTable).      *)
(***************************************************************************)
Append_(d) ==
    /\ up
    /\ inflight = EmptyTable
    /\ used["writes"] < MaxWrites
    /\ inflight' = d
    /\ Spend("writes")
    /\ UNCHANGED <<up, memVars, readerVars, flush, compaction, manifestVars,
                   files, wal, get, latest>>

(* Mutant: the entry does not reach the log. *)
SkipLog(d) == wal' = wal

WriteLog(d) == wal' = [wal EXCEPT ![Len(wal)] = Override(@, d)]

Acknowledge(d) ==
    latest' = [k \in Keys |-> IF d[k] # Absent THEN Resolve(d[k])
                              ELSE latest[k]]

(* Mutant: the table that was active is frozen without the new entry. *)
TriggerFlushEarly(table) ==
    /\ immutable' = active
    /\ active' = EmptyTable
    /\ flush' = [IdleFlush EXCEPT !.pc = "build", !.num = manifest.next]

(* triggerFlush: swap the MemTables; doFlush reads the next file number    *)
(* before its first await.                                                 *)
TriggerFlush(table) ==
    /\ immutable' = table
    /\ active' = EmptyTable
    /\ flush' = [IdleFlush EXCEPT !.pc = "build", !.num = manifest.next]

(* checkpoint() holds the write lock from its rotation on. *)
Locked == flush.pc \in {"list", "unlink"}

Commit ==
    /\ inflight # EmptyTable
    /\ ~Locked
    /\ WriteLog(inflight)
    /\ Acknowledge(inflight)
    /\ inflight' = EmptyTable
    /\ \/ /\ active' = Override(active, inflight)
          /\ UNCHANGED <<immutable, flush, used>>
       \/ /\ flush.pc = "idle"
          /\ used["flushes"] < MaxFlushes
          /\ Spend("flushes")
          /\ TriggerFlush(Override(active, inflight))
    /\ UNCHANGED <<up, readerVars, compaction, manifestVars, files, get>>

-----------------------------------------------------------------------------
(* doFlush, one action per await. *)

FlushAt(pc) == up /\ flush.pc = pc

FlushBuild ==
    /\ FlushAt("build")
    /\ files' = [n \in DOMAIN files \cup {flush.num} |->
                    IF n = flush.num THEN immutable ELSE files[n]]
    /\ flush' = [flush EXCEPT !.pc = "add"]
    /\ UNCHANGED <<up, inflight, memVars, readerVars, compaction,
                   manifestVars, wal, get, latest, used>>

FlushAdd ==
    /\ FlushAt("add")
    /\ manifest' = AddSSTable(manifest, flush.num)
    /\ flush' = [flush EXCEPT !.pc = "save", !.edit = manifest']
    /\ UNCHANGED <<up, inflight, memVars, readerVars, compaction,
                   manifestFile, manifestTmp, files, wal, get, latest, used>>

FlushSave ==
    /\ FlushAt("save")
    /\ SaveTmp(flush.edit)
    /\ flush' = [flush EXCEPT !.pc = "rename", !.edit = EmptyManifest]
    /\ UNCHANGED <<up, inflight, memVars, readerVars, compaction, files, wal,
                   get, latest, used>>

FlushRename ==
    /\ FlushAt("rename")
    /\ RenameTmp
    /\ flush' = [flush EXCEPT !.pc = "open"]
    /\ UNCHANGED <<up, inflight, memVars, readerVars, compaction, files, wal,
                   get, latest, used>>

FlushOpen ==
    /\ FlushAt("open")
    /\ flush.num \in DOMAIN files
    /\ flush' = [flush EXCEPT !.pc = "publish", !.data = files[flush.num]]
    /\ UNCHANGED <<up, inflight, memVars, readerVars, compaction,
                   manifestVars, files, wal, get, latest, used>>

(* Mutant: push instead of unshift, the new reader is searched last. *)
Push(r) == Append(sstables, r)

Unshift(r) == <<r>> \o sstables

FlushPublish ==
    /\ FlushAt("publish")
    /\ opened' = opened + 1
    /\ sstables' = Unshift([id |-> opened + 1, num |-> flush.num,
                            data |-> flush.data])
    /\ flush' = [flush EXCEPT !.pc = "checkpoint", !.data = EmptyTable]
    /\ UNCHANGED <<up, inflight, memVars, closed, compaction, manifestVars,
                   files, wal, get, latest, used>>

(* checkpoint(): under the write lock, first commit what is pending (the   *)
(* guard), then switch to a new, empty log file.                           *)
Checkpoint ==
    /\ FlushAt("checkpoint")
    /\ inflight = EmptyTable
    /\ wal' = Append(wal, EmptyTable)
    /\ flush' = [flush EXCEPT !.pc = "list"]
    /\ UNCHANGED <<up, inflight, memVars, readerVars, compaction,
                   manifestVars, files, get, latest, used>>

CheckpointList ==
    /\ FlushAt("list")
    /\ flush' = [flush EXCEPT !.pc = "unlink"]
    /\ UNCHANGED <<up, inflight, memVars, readerVars, compaction,
                   manifestVars, files, wal, get, latest, used>>

(* Mutant: among the old logs the newest goes first. *)
WithoutNewest(w, i) == Append(SubSeq(w, 1, Len(w) - 2), w[Len(w)])

WithoutLog(w, i) == SubSeq(w, 1, i - 1) \o SubSeq(w, i + 1, Len(w))

(* The directory is listed in name order: the oldest log goes first.  A    *)
(* log that cannot be unlinked is passed over (kept counts these) and      *)
(* stays.                                                                  *)
CheckpointUnlink ==
    /\ FlushAt("unlink")
    /\ flush.kept + 1 < Len(wal)
    /\ \/ /\ wal' = WithoutLog(wal, flush.kept + 1)
          /\ UNCHANGED <<flush, used>>
       \/ /\ used["leftovers"] < MaxLeftovers
          /\ Spend("leftovers")
          /\ flush' = [flush EXCEPT !.kept = @ + 1]
          /\ UNCHANGED wal
    /\ UNCHANGED <<up, inflight, memVars, readerVars, compaction,
                   manifestVars, files, get, latest>>

(* Mutant: the write lock is not released and flushing not reset. *)
FlushDoneLocked ==
    /\ FlushAt("unlink")
    /\ flush.kept + 1 = Len(wal)
    /\ immutable' = EmptyTable
    /\ UNCHANGED <<up, inflight, active, readerVars, flush, compaction,
                   manifestVars, files, wal, get, latest, used>>

FlushDone ==
    /\ FlushAt("unlink")
    /\ flush.kept + 1 = Len(wal)
    /\ immutable' = EmptyTable
    /\ flush' = IdleFlush
    /\ UNCHANGED <<up, inflight, active, readerVars, compaction,
                   manifestVars, files, wal, get, latest, used>>

(***************************************************************************)
(* A rejected doFlush is logged and flushing reset; immutableMemTable      *)
(* stays.  It rejects when another save has renamed the shared             *)
(* MANIFEST.tmp away, when a compaction has already deleted the file it is *)
(* about to open, and on any other I/O error.                              *)
(***************************************************************************)
FlushRejects ==
    \/ FlushAt("rename") /\ manifestTmp = {}
    \/ FlushAt("open") /\ flush.num \notin DOMAIN files

FailFlush ==
    /\ flush' = IdleFlush
    /\ UNCHANGED <<up, inflight, memVars, readerVars, compaction,
                   manifestVars, files, wal, get, latest>>

FlushReject == FlushRejects /\ FailFlush /\ UNCHANGED used

FlushError ==
    /\ \E pc \in {"build", "save", "rename", "open", "checkpoint", "list"} :
          FlushAt(pc)
    /\ used["faults"] < MaxFaults
    /\ Spend("faults")
    /\ FailFlush

FlushStep ==
    \/ FlushBuild \/ FlushAdd \/ FlushSave \/ FlushRename \/ FlushOpen
    \/ FlushPublish \/ Checkpoint \/ CheckpointList \/ CheckpointUnlink
    \/ FlushDone \/ FlushReject

-----------------------------------------------------------------------------
(* executeCompaction and handleCompactionComplete, one action per await. *)

CompactionAt(pc) == up /\ compaction.pc = pc

CompactStart ==
    /\ CompactionAt("idle")
    /\ Cardinality(manifest.tables) >= Threshold
    /\ used["compactions"] < MaxCompactions
    /\ Spend("compactions")
    /\ compaction' = [IdleCompaction EXCEPT !.pc = "read",
                                            !.metas = manifest.tables]
    /\ UNCHANGED <<up, inflight, memVars, readerVars, flush, manifestVars,
                   files, wal, get, latest>>

(* Mutant: on equal keys the oldest input wins the merge. *)
CompactedOldest(nums) ==
    LET inputs == FirstWins([n \in nums \cap DOMAIN files |-> files[n]])
    IN  [k \in Keys |-> IF inputs[k] = Tombstone THEN Absent ELSE inputs[k]]

(***************************************************************************)
(* All inputs are opened, then the file number is read, then the inputs    *)
(* are merged; tombstones are dropped.  When nothing remains no file is    *)
(* written, which num = 0 records.                                         *)
(***************************************************************************)
Compacted(nums) ==
    [k \in Keys |-> LET e == OnDisk(nums)[k]
                    IN  IF e = Tombstone THEN Absent ELSE e]

CompactRead ==
    /\ CompactionAt("read")
    /\ compaction.metas \subseteq DOMAIN files
    /\ LET merged == Compacted(compaction.metas)
       IN  compaction' =
             [compaction EXCEPT
                !.data = merged,
                !.num = IF merged = EmptyTable THEN 0 ELSE manifest.next,
                !.pc = IF merged = EmptyTable THEN "remove" ELSE "build"]
    /\ UNCHANGED <<up, inflight, memVars, readerVars, flush, manifestVars,
                   files, wal, get, latest, used>>

CompactBuild ==
    /\ CompactionAt("build")
    /\ files' = [n \in DOMAIN files \cup {compaction.num} |->
                    IF n = compaction.num THEN compaction.data ELSE files[n]]
    /\ compaction' = [compaction EXCEPT !.pc = "add", !.data = EmptyTable]
    /\ UNCHANGED <<up, inflight, memVars, readerVars, flush, manifestVars,
                   wal, get, latest, used>>

CompactAdd ==
    /\ CompactionAt("add")
    /\ manifest' = AddSSTable(manifest, compaction.num)
    /\ compaction' = [compaction EXCEPT !.pc = "saveAdd", !.edit = manifest']
    /\ UNCHANGED <<up, inflight, memVars, readerVars, flush, manifestFile,
                   manifestTmp, files, wal, get, latest, used>>

CompactRemove ==
    /\ CompactionAt("remove")
    /\ manifest' \in RemoveSSTables(manifest, compaction.metas)
    /\ compaction' = [compaction EXCEPT !.pc = "saveRemove",
                                        !.edit = manifest']
    /\ UNCHANGED <<up, inflight, memVars, readerVars, flush, manifestFile,
                   manifestTmp, files, wal, get, latest, used>>

CompactSave ==
    /\ CompactionAt("saveAdd") \/ CompactionAt("saveRemove")
    /\ SaveTmp(compaction.edit)
    /\ compaction' = [compaction EXCEPT
                        !.edit = EmptyManifest,
                        !.pc = IF @ = "saveAdd" THEN "renameAdd"
                               ELSE "renameRemove"]
    /\ UNCHANGED <<up, inflight, memVars, readerVars, flush, files, wal, get,
                   latest, used>>

CompactRename ==
    /\ CompactionAt("renameAdd") \/ CompactionAt("renameRemove")
    /\ RenameTmp
    /\ compaction' = [compaction EXCEPT
                        !.pc = IF @ = "renameAdd" THEN "remove" ELSE "unlink",
                        !.left = compaction.metas]
    /\ UNCHANGED <<up, inflight, memVars, readerVars, flush, files, wal, get,
                   latest, used>>

(* deleteOldFiles, in list order: a file that cannot be deleted stays, one *)
(* that does not exist is none.  Without a new file onComplete is not      *)
(* called.                                                                 *)
CompactUnlink ==
    /\ CompactionAt("unlink")
    /\ \E n \in compaction.left :
        /\ \A o \in compaction.left : o <= n
        /\ compaction' = [compaction EXCEPT !.left = @ \ {n}]
        /\ \/ /\ files' = [o \in DOMAIN files \ {n} |-> files[o]]
              /\ UNCHANGED used
           \/ /\ used["faults"] < MaxFaults
              /\ Spend("faults")
              /\ UNCHANGED files
    /\ UNCHANGED <<up, inflight, memVars, readerVars, flush, manifestVars,
                   wal, get, latest>>

CompactUnlinked ==
    /\ CompactionAt("unlink")
    /\ compaction.left = {}
    /\ compaction' = IF compaction.num = 0 THEN IdleCompaction
                     ELSE [compaction EXCEPT !.pc = "scan"]
    /\ UNCHANGED <<up, inflight, memVars, readerVars, flush, manifestVars,
                   files, wal, get, latest, used>>

(***************************************************************************)
(* The loop of handleCompactionComplete walks the live list: it keeps      *)
(* readers of other files and closes one reader of a compacted file per    *)
(* await.                                                                  *)
(***************************************************************************)
Keeps(i) == sstables[i].num \notin compaction.metas

(* Mutant: the loop does not move past the reader it closed. *)
StayAt(j) == [compaction EXCEPT
                !.idx = j,
                !.kept = @ \o SubSeq(sstables, compaction.idx, j - 1)]

MovePast(j) == [compaction EXCEPT
                  !.idx = j + 1,
                  !.kept = @ \o SubSeq(sstables, compaction.idx, j - 1)]

CompactScan ==
    /\ CompactionAt("scan")
    /\ \E j \in compaction.idx..Len(sstables) :
        /\ ~Keeps(j)
        /\ \A i \in compaction.idx..(j - 1) : Keeps(i)
        /\ closed' = closed \cup {sstables[j].id}
        /\ compaction' = MovePast(j)
    /\ UNCHANGED <<up, inflight, memVars, sstables, opened, flush,
                   manifestVars, files, wal, get, latest, used>>

CompactScanEnd ==
    /\ CompactionAt("scan")
    /\ \A i \in compaction.idx..Len(sstables) : Keeps(i)
    /\ compaction' = [compaction EXCEPT
                        !.pc = "swap",
                        !.kept = @ \o SubSeq(sstables, compaction.idx,
                                             Len(sstables))]
    /\ UNCHANGED <<up, inflight, memVars, readerVars, flush, manifestVars,
                   files, wal, get, latest, used>>

(* Stable sort by descending file number, as Array.prototype.sort does.    *)
SortedByNumber(s) ==
    {[i \in DOMAIN s |-> s[p[i]]] :
        p \in {q \in [DOMAIN s -> DOMAIN s] :
                \A i, j \in DOMAIN s : i < j =>
                    \/ s[q[i]].num > s[q[j]].num
                    \/ s[q[i]].num = s[q[j]].num /\ q[i] < q[j]}}

CompactSwap ==
    /\ CompactionAt("swap")
    /\ compaction.num \in DOMAIN files
    /\ opened' = opened + 1
    /\ sstables' \in SortedByNumber(
         Append(compaction.kept,
                [id |-> opened + 1, num |-> compaction.num,
                 data |-> files[compaction.num]]))
    /\ compaction' = IdleCompaction
    /\ UNCHANGED <<up, inflight, memVars, closed, flush, manifestVars, files,
                   wal, get, latest, used>>

(* A rejected executeCompaction is logged; the timer may start another.    *)
CompactRejects ==
    \/ CompactionAt("read") /\ ~(compaction.metas \subseteq DOMAIN files)
    \/ CompactionAt("renameAdd") /\ manifestTmp = {}
    \/ CompactionAt("renameRemove") /\ manifestTmp = {}
    \/ CompactionAt("swap") /\ compaction.num \notin DOMAIN files

FailCompaction ==
    /\ compaction' = IdleCompaction
    /\ UNCHANGED <<up, inflight, memVars, readerVars, flush, manifestVars,
                   files, wal, get, latest>>

CompactReject == CompactRejects /\ FailCompaction /\ UNCHANGED used

CompactError ==
    /\ \E pc \in {"read", "build", "saveAdd", "renameAdd", "saveRemove",
                   "renameRemove", "swap"} : CompactionAt(pc)
    /\ used["faults"] < MaxFaults
    /\ Spend("faults")
    /\ FailCompaction

CompactStep ==
    \/ CompactRead \/ CompactBuild \/ CompactAdd \/ CompactRemove
    \/ CompactSave \/ CompactRename \/ CompactUnlink \/ CompactUnlinked
    \/ CompactScan \/ CompactScanEnd \/ CompactSwap \/ CompactReject

-----------------------------------------------------------------------------
(***************************************************************************)
(* get(): look in both MemTables and copy the reader list at once, then    *)
(* ask one reader per step.  Asking a closed reader throws.                *)
(***************************************************************************)
GetStart(k) ==
    /\ up
    /\ get.st # "reading"
    /\ used["gets"] < MaxGets
    /\ Spend("gets")
    /\ LET found == MemTableEntry(k)
       IN  get' = [st |-> IF found # Absent \/ sstables = << >>
                          THEN "done" ELSE "reading",
                   key |-> k,
                   rest |-> IF found # Absent THEN << >> ELSE sstables,
                   want |-> latest[k],
                   result |-> Resolve(found)]
    /\ UNCHANGED <<up, inflight, memVars, readerVars, flush, compaction,
                   manifestVars, files, wal, latest>>

GetStep ==
    /\ up
    /\ get.st = "reading"
    /\ LET reader == Head(get.rest)
           entry == reader.data[get.key]
       IN  \/ /\ reader.id \in closed
              /\ get' = [get EXCEPT !.st = "failed", !.rest = << >>]
           \/ /\ reader.id \notin closed
              /\ entry # Absent \/ Len(get.rest) = 1
              /\ get' = [get EXCEPT !.st = "done", !.rest = << >>,
                                    !.result = Resolve(entry)]
           \/ /\ reader.id \notin closed
              /\ entry = Absent
              /\ Len(get.rest) > 1
              /\ get' = [get EXCEPT !.rest = Tail(@)]
    /\ UNCHANGED <<up, inflight, memVars, readerVars, flush, compaction,
                   manifestVars, files, wal, latest, used>>

-----------------------------------------------------------------------------
(* Restarts: memory is lost, files stay.                                   *)

LoseMemory ==
    /\ up' = FALSE
    /\ inflight' = EmptyTable
    /\ active' = EmptyTable
    /\ immutable' = EmptyTable
    /\ sstables' = << >>
    /\ closed' = {}
    /\ opened' = 0
    /\ flush' = IdleFlush
    /\ compaction' = IdleCompaction
    /\ manifest' = EmptyManifest
    /\ get' = IdleGet
    /\ UNCHANGED <<manifestFile, manifestTmp, files>>

(* The process is killed.  A write that was waiting for its log sync may   *)
(* or may not have reached the log file; if it has, it takes effect.       *)
Crash ==
    /\ up
    /\ used["restarts"] < MaxRestarts
    /\ Spend("restarts")
    /\ \/ UNCHANGED <<wal, latest>>
       \/ /\ inflight # EmptyTable
          /\ ~Locked
          /\ WriteLog(inflight)
          /\ Acknowledge(inflight)
    /\ LoseMemory

(* close() waits for the compaction and the flush, closes the readers and  *)
(* the log.  The store takes calls all the while: a get meets a closed     *)
(* reader, a write reaches the log before it is closed or fails.           *)
Close ==
    /\ up
    /\ compaction.pc = "idle"
    /\ flush.pc = "idle"
    /\ used["restarts"] < MaxRestarts
    /\ Spend("restarts")
    /\ \/ UNCHANGED <<wal, latest>>
       \/ /\ inflight # EmptyTable
          /\ WriteLog(inflight)
          /\ Acknowledge(inflight)
    /\ LoseMemory

(* The store runs and has nothing to do.                                   *)
Quiescent ==
    /\ up
    /\ inflight = EmptyTable
    /\ flush.pc = "idle"
    /\ compaction.pc = "idle"
    /\ get.st # "reading"
    /\ UNCHANGED vars

Next ==
    \/ Initialize
    \/ \E d \in WriteOps : Append_(d)
    \/ Commit
    \/ FlushStep
    \/ FlushError
    \/ CompactStart
    \/ CompactStep
    \/ CompactError
    \/ \E k \in Keys : GetStart(k)
    \/ GetStep
    \/ Crash
    \/ Close
    \/ Quiescent

Spec == Init /\ [][Next]_vars

(* Every await the code has started is eventually resolved; nobody is      *)
(* obliged to write, read, crash or fail.                                  *)
Fairness ==
    /\ WF_vars(Initialize)
    /\ WF_vars(Commit)
    /\ WF_vars(FlushStep)
    /\ WF_vars(CompactStep)
    /\ WF_vars(GetStep)

FairSpec == Spec /\ Fairness

-----------------------------------------------------------------------------
(* Properties *)

(* Every variable has its type. *)
TypeOK ==
    /\ up \in BOOLEAN
    /\ inflight \in Table
    /\ active \in Table
    /\ immutable \in Table
    /\ sstables \in Seq(Reader)
    /\ closed \subseteq Nat
    /\ opened \in Nat
    /\ flush \in FlushState
    /\ compaction \in CompactionState
    /\ manifest \in Manifest
    /\ manifestFile \in Manifest
    /\ manifestTmp \subseteq Manifest
    /\ DOMAIN files \subseteq Nat
    /\ files \in [DOMAIN files -> Table]
    /\ wal \in Seq(Table)
    /\ get \in GetState
    /\ latest \in [Keys -> Values \cup {Null}]
    /\ used \in [Bounds -> Nat]

(* A running store answers every key with the value of the last            *)
(* acknowledged write of it (get: active, immutable, newest SSTable first).*)
ReadLatest == up => View = latest

(* In a store that does not compact and meets no I/O error, the frozen     *)
(* table is where the next step of doFlush looks for it: in its file until *)
(* the reader is open, then at the front of the reader list.  Without a    *)
(* flush there is none.                                                    *)
FrozenTracked ==
    /\ compaction.pc = "idle"
    /\ ~up => flush.pc = "idle" /\ inflight = EmptyTable
    /\ flush.pc = "idle" => immutable = EmptyTable
    /\ flush.pc \in {"add", "save", "rename", "open"} =>
          flush.num \in DOMAIN files /\ files[flush.num] = immutable
    /\ flush.pc = "rename" => manifestTmp # {}
    /\ flush.pc = "publish" => flush.data = immutable
    /\ flush.pc \in {"checkpoint", "list", "unlink"} =>
          sstables # << >> /\ sstables[1].data = immutable

(* Killed now, the store would recover every acknowledged write from       *)
(* MANIFEST, the SSTables and the logs.                                    *)
CrashSafe == DiskView = latest

(* What was flushed stays flushed: as long as checkpoint() could unlink    *)
(* every old log, a key that is in neither MemTable recovers to its last   *)
(* acknowledged write if the process is killed now, although its log       *)
(* entries are gone (doFlush, checkpoint).                                 *)
FlushedSurvives ==
    up /\ used["leftovers"] = 0 =>
        \A k \in Keys : active[k] = Absent /\ immutable[k] = Absent
                           => DiskView[k] = latest[k]

(* Replay never goes back in time: as long as checkpoint() could unlink    *)
(* every old log, whenever some log file still mentions a key, the newest  *)
(* mention is its last acknowledged write, even when the process is killed *)
(* between two unlinks.  A log that stays behind by an error that          *)
(* checkpoint() ignores can outlive a newer one and bring old values back. *)
LogNeverStale ==
    used["leftovers"] = 0 =>
        \A k \in Keys : Replayed[k] # Absent
                           => Resolve(Replayed[k]) = latest[k]

(* A get answers the value its key had when it was called, even though     *)
(* flush and compaction replace the readers while it runs.                 *)
GetReturnsSnapshot == get.st = "done" => get.result = get.want

(* Every SSTable that MANIFEST names exists.                               *)
ManifestFilesExist == manifestFile.tables \subseteq DOMAIN files

(* Every write is acknowledged, although checkpoint() holds the lock.      *)
WritesComplete == (inflight # EmptyTable) ~> (inflight = EmptyTable)

(* Every flush comes to an end, also when a compaction takes its           *)
(* MANIFEST.tmp or its file away.                                          *)
FlushEnds == (flush.pc # "idle") ~> (flush.pc = "idle")

(* Every compaction comes to an end, also while flushes extend the reader  *)
(* list it walks.                                                          *)
CompactionEnds == (compaction.pc # "idle") ~> (compaction.pc = "idle")

(* To its callers the engine is the map of KVStore, and the write waiting  *)
(* for wal.append is the only one that can change it.                      *)
KV == INSTANCE KVStore
        WITH kv <- IF up THEN View ELSE DiskView, pending <- inflight
ImplementsKVStore == KV!KVSpec

(* Nothing but a stop that meets a write without a log, and a start that   *)
(* cannot open a file, makes the engine differ from that map: every other  *)
(* step of a write, a get, a flush, a checkpoint, a kill or a start is one *)
(* of KVStore or none.                                                     *)
LosesOnlyAtStops ==
    [][ \/ up /\ ~up' /\ ~CrashSafe
        \/ used'["drops"] # used["drops"]
        \/ KV!KVNext \/ UNCHANGED KV!kvVars ]_vars
=============================================================================
