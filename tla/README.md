# A TLA+ verification of lsm-kv-store

This directory holds TLA+ models of the key-value store in `src/`, the TLC
configurations that model-check them, and TLAPS proofs about the storage
engine and its range queries, its log, its files, the MemTable, replication and
the TCP stream. Every definition is translated from the TypeScript source;
`PROJECT.json` gives the lines each definition stands for, the hazards of the
code and the properties aimed at them. Paths below are relative to `src/src/`.

To check: `tlc -config Flush.cfg MCLSMStore` and so on (each cfg belongs to the
module named in the table of runs), and `tlapm X.tla` for each of the `...Proofs`
modules.

## 1. The system

A single Node process serves puts, gets, deletes, batches and range queries
over HTTP and TCP. Writes go to a write-ahead log and a MemTable; full
MemTables are flushed to SSTables; a background task compacts SSTables; a
primary forwards each synced write to a backup. Node runs one callback at a
time, so everything between two `await`s is atomic and every `await` is a place
where the other activities run. That is the unit of an action in all modules.

| Component | State | Operations | Talks to |
|---|---|---|---|
| LSMStore (`storage/LSMStore.ts`) | active and immutable MemTable, reader list, flush promise | initialize, put, get, delete, batchPut, readKeyRange, applyReplicatedEntry, maybeFlush, doFlush, handleCompactionComplete, close | everything below |
| WAL (`storage/wal/`) | current file, pending batch, sequence id, lock | open, append, flushBatch (timer or full batch), checkpoint, replay, close | LSMStore; calls the replication listener after a sync |
| MemTable (`storage/memtable/`) | sorted entries, byte count | put, delete, get, isFull | LSMStore, SortedMap |
| SortedMap (`storage/memtable/SortedMap.ts`) | a red-black tree | set, get, delete, clear, entries, range | MemTable |
| Manifest (`storage/manifest/`) | list of SSTables, next file number, MANIFEST, MANIFEST.tmp | load, addSSTable, removeSSTables, save | doFlush and CompactionManager, unsynchronised |
| SSTableWriter, SSTableReader, BloomFilter (`storage/sstable/`) | one immutable file, sparse index, filter | add, build, open, get, iterate, close | flush, compaction, get |
| MergeIterator, MinHeap (`storage/iterator/`, `common/MinHeap.ts`) | one pending entry per source | iterate | readKeyRange, compaction |
| CompactionManager (`engine/compaction/`) | running flag, timer | start, stop, executeCompaction | Manifest, SSTables, callback into LSMStore |
| ReplicationManager (`replication/`) | socket, connected, connecting, reconnect timer, pending acks | connect, disconnect, replicate, handleAck, error, close and timeout handlers | WAL listener, backup |
| ReplicationServer (`replication/`) | primarySocket, buffers | start, stop, handleConnection, processBuffer, handleReplicate | backup's LSMStore |
| TCPServer (`server/`) | sockets, a receive buffer per connection | start, stop, handleConnection, processBuffer, handleStreamPut, handleEndStream | LSMStore, TCPClient |
| TCPClient (`server/`) | socket, connected, receive buffer, pending acks | connect, disconnect, put, streamPut, endStream, handleData, timeout and close handlers | TCPServer |
| HTTPServer (`server/`) | none between requests | one handler per route | LSMStore |
| Application, CLI, factory (`index.ts`, `cli/`, `factory/`) | wiring | start, shutdown | all |

**What is hard about it.** The file number of a flush is read before several
awaits and used after them, as is that of a compaction; the two share MANIFEST.tmp and
the list of readers; a checkpoint deletes logs while writers wait for it; a get
walks a copy of the reader list over many awaits; a power loss cuts logs in
the middle of a record; acknowledgements are matched by position over
connections that break, time out, and are replaced while the old one is still
being worked off; a data handler that awaits the store works on a snapshot of a
buffer that later chunks go to; a range query is read entry by entry from
files that a compaction closes; an unlink whose failure is ignored leaves a log
that replay reads again; what is left of an acknowledgement when a connection
ends stands in front of the answers of the next; insertions reach every case of
a red-black tree's rebalancing only in long sequences.

**What makes each part correct.** LSMStore: a running store reads as the map of
its acknowledged writes; a restart recovers them; every write, flush and
compaction ends. WAL: acknowledged means durable; replay is complete, ordered
and never older than what was flushed; nobody waits for ever. MemTable: the
byte count tells when to freeze. Manifest: MANIFEST names only files that exist.
SSTable: every lookup and scan finds exactly what was added; only complete
files are visible; the filter denies no key of the file. SortedMap: what was
set is found and listed in order, and the tree stays balanced. TCP stream:
commands are handled in order and once, an answer reaches its own call, and every
call settles. MergeIterator: newest live value per key, in order, nothing
lost. Replication: an acknowledgement counts for its own entry, confirmed means
applied, nothing applied twice, connections come back.

## 2. Modules

| Module | Models | Used by |
|---|---|---|
| `Tables` | keys, values, tombstones; a table as a function from keys to entries; searching a stack of tables | KVStore, LSMStore, MergeIterator |
| `KVStore` | the abstract specification: a map from keys to values that only the write under way changes | LSMStore, by `INSTANCE KVStore WITH kv <- ..., pending <- inflight` |
| `LSMStore` | the engine: LSMStore.ts, Manifest and CompactionManager over MemTables, logs and files | MCLSMStore, RangeRead, LSMStoreProofs |
| `RangeRead` | range queries on the live store: extends LSMStore by readKeyRange and the loop of MergeIterator | MCRangeRead, LSMStoreProofs |
| `WAL` | the log in detail: batches, lock, sync, rotation, torn records, power loss | MCWAL, WALProofs |
| `MemTable` | byte accounting and the decision to freeze, left open in LSMStore | MCMemTable, MemTableProofs |
| `MergeIterator` | the array heap, the merge loop, the limit of a range query | MCMergeIterator, MergeIteratorProofs |
| `SortedMap` | the red-black tree of a MemTable, one rotation or recolouring a step | MCSortedMap, SortedMapProofs |
| `BloomFilter` | the bits a key sets and asks for | SSTable |
| `SSTable` | one file from `add()` to `close()`, with byte offsets, Bloom filter and sparse index | MCSSTable, SSTableProofs |
| `TCPStream` | a TCPClient, the connection and the TCPServer handler that serves it, up to the end of the process | MCTCPStream, TCPStreamProofs |
| `Replication` | both ends of the primary-backup protocol and the TCP connections between them | MCReplication, ReplicationProofs |
| `LSMStoreProofs` | proofs: types, log, gets, flushes and compactions of LSMStore, the refinement of KVStore, and range queries on the live store (RangeRead) | - |
| `WALProofs`, `MemTableProofs`, `MergeIteratorProofs`, `SortedMapProofs`, `SSTableProofs`, `ReplicationProofs`, `TCPStreamProofs` | proofs about the module of that name | - |

LSMStore composes the parts whose interplay is the difficulty; the other modules each
look into a part that LSMStore abstracts. Where a module contains a definition
commented "Mutant", it is a plausible bug that the specification does not use:
substituting it for the definition after it shows that a property notices.

### LSMStore

| Variable | Code |
|---|---|
| `active`, `immutable` | `activeMemTable`, `immutableMemTable` |
| `sstables`, `closed`, `opened` | `this.sstables` (readers in search order), readers whose handle was closed, a counter that tells readers apart |
| `flush`, `compaction` | where `doFlush` and `executeCompaction`/`handleCompactionComplete` stand, with their local variables |
| `manifest`, `manifestFile`, `manifestTmp` | `Manifest.state`, MANIFEST, MANIFEST.tmp |
| `files` | the content of `sstable-<n>.sst` |
| `wal` | the net effect of each log file, oldest first |
| `inflight` | a write waiting in `wal.append` |
| `get` | a get with its snapshot of readers |
| `latest` | auxiliary: the map the acknowledged writes add up to |

A put, delete, batchPut or replicated entry is `Append_` (up to
`await wal.append`) and `Commit` (the MemTable updates and `maybeFlush` after
it). A flush is `FlushBuild`, `FlushAdd`, `FlushSave`, `FlushRename`,
`FlushOpen`, `FlushPublish`, `Checkpoint`, `CheckpointList`, `CheckpointUnlink`,
`FlushDone`, one per await. An old log that cannot be unlinked stays and is passed
over, as `checkpoint()` ignores the error (WAL.ts:250-254).
A compaction is `CompactStart`, then `CompactRead` to `CompactUnlinked` for
`executeCompaction`, and `CompactScan`, `CompactScanEnd`, `CompactSwap` for the
loop in `handleCompactionComplete`. `FlushError` and `CompactError` let any
await reject; `FlushReject` and `CompactReject` are the rejections that follow
from what the other activity did (its file or its MANIFEST.tmp is gone).
`Crash` kills the process between any two steps; `Close` is a shutdown.
`Initialize` loads MANIFEST, opens the readers and replays the logs; a listed file that
is missing or fails to open is taken off MANIFEST for good (LSMStore.ts:458-461).
After a start `latest` is what was found on disk.

Abstractions: a crash is a killed process, whose writes to files survive (power
loss is WAL's subject). Whether a MemTable is full is left open (MemTable's
subject). Building an SSTable is one step (SSTable's subject), and so is a
merge (MergeIterator's). One write is in flight at a time: batches and the
order among writers are WAL's subject. One get is in progress at a time, since
gets do not influence each other. The list of the manifest is a set of file
numbers: a number that is listed twice names one file, is opened with the same
content and removed as one.

**What it promises.** KVStore has a map, the write that is called and has not
returned, and whether the engine runs. `Call` asks for a write; `Return` puts it
into the map, once; `Stop` ends the engine with the write that is under way in the map or
not; `Start` begins with the map there is. No other step changes the map, so a
flush, a compaction or a restart that drops or revives one key is no step of
KVStore. The mapping takes for the map what `get` would answer while the store
runs and what a start would find on disk while it is down, and `inflight` for the
write.

### RangeRead

`range` is one `readKeyRange` in progress: its `sources` in the order
of the merge (both MemTables, then the overlapping readers), each with the
entry it has in the heap, and `due`, the sources that `advanceSource` is
still to be awaited for in this round. `RangeStart` is everything up to the
first await, `RangeAdvance` one await; a reader that is closed makes the query
fail (`Throws`). `StoreStep` is any step of LSMStore meanwhile, and a query ends with
its process. MergeIterator has the heap itself.

### WAL

`lock` is the queue of AsyncMutex: its head holds the lock and `work` says how far
it is. `logs` are the files in name order, each with its records and the
number of them that are synced; `Torn` stands for a record that fails the
length or checksum test. The writer's sequence ids and the model's own numbering
(`id`) are kept apart. `Open` chooses the sync policy, which is a command-line
option and may differ in every life. `PowerLoss` keeps of each log any prefix
that contains what was synced, and may leave a part of the next record;
creating and unlinking files is taken as durable in the order it was done. Two rotations in the same
millisecond reuse the file name (`Rotate`); a clock that runs backwards is not
modelled.

### Replication

`conn[c]` holds what both ends and the network know of one connection. The
primary's handlers are `Connected`, `ConnectFails`, `Timeout`, `NetworkError`,
`HandleConnectionClose`, `Reconnect`, `Replicate`, `HandleAck`; the backup's
are `HandleConnection`, `Receive` (a 'data' event, which pauses the socket),
`HandleReplicate` and `SendAck` (the two halves of an iteration of
`processBuffer` around its await), `SocketError`, `SocketClose`. A paused socket
does not notice that its peer has closed. `SilentEnd` loses the close on the
way to the backup. `applied` counts how often each entry reached the backup's
store; the order in which they reach it is promised within one connection only
(section 3). Messages arrive whole while a connection lives. When it ends, a part of
an answer may stay in the primary's receive buffer (`stray`); from then on
`MisreadAck` and `MisreadThrows` stand for what `parseMessage` makes of frames
that begin with these bytes: it waits for more, settles the first pending entry with
some status, or throws, which ends the process. `StoreLoses` lets the backup's store lose
entries it has acknowledged, which it does (LossOnCrash). Metrics and status are left out.

### TCPStream

`csocket` and `ssocket` are the two ends of the connection, `toServer` and
`toClient` what is under way; a frame is two parts, and a data event brings any
prefix, so frames are cut and joined anywhere. The client's handlers are
`Connect`, `ConnectTimesOut`, `HandleData`, `Timeout`, `Close`, the callers' `Put`, `EndStream` and
`Disconnect`. The server's data handler is `Receive` (pause, append, take a
snapshot), `HandleStreamPut` and `PutSucceeds` or `PutFails` (the two sides of
`await store.put`), `HandleEndStream` and `ChunkDone` (updateBuffer, resume).
`Stop`, `StoreClosed` and `Exit` are shutdownApplication, which does not wait
for handlers. What net.Socket does by itself (ends that follow each other,
writes on finished sockets) is external and stated at the head of the module.

### SortedMap

A node is named by its key; `tree` holds root, both children, parent, colour
and value of every key. `Insert` and `Delete` do what `set` and `deleteNode` do
before the rebalancing loop, whose iterations are actions of their own (`fix`
says which loop runs and where) so that an invariant can be stated inside it; no
other operation starts meanwhile. The mirrored halves of the loops are one
definition that takes the side.

### MemTable, MergeIterator, SSTable, BloomFilter

MemTable keeps value lengths instead of values, and counts bytes as
`calculateEntrySize` does, with small constants. Until `initialized`, entries
come from the log and the table grows past its limit unasked. MergeIterator keeps the heap
as the array the code uses, with `Rise` and `Sink` as one pass of the loops of
`bubbleUp` and `bubbleDown`; a source is the set of keys it has still to deliver, least
first; and `includeTombstones` is FALSE as both callers have it. SSTable entries are a
key and a serialized size, offsets are sums of sizes, and the binary searches are
translated with their bounds. `Reserved` says how many bytes readEntryAt sets aside for
an entry; as it reads the length of the value from the place of the key
(SSTableReader.ts:297), that number is arbitrary, and an entry for which it is too small,
or larger than any buffer, makes the lookup or scan throw (`ReadFails`). BloomFilter keeps bytes as sets of bits and computes
bit positions as `getCombinedHash` does, wrapped at `Word`; the two hashes
of a key are constants under which keys collide.

## 3. Runs

"Distinct states" are those of the complete state space; all passing runs explore it
completely.

| Run | Module | Properties | Distinct states |
|---|---|---|---|
| Flush | MCLSMStore | ReadLatest, GetReturnsSnapshot, FlushedSurvives, LogNeverStale, LosesOnlyAtStops | 1508 thousand |
| Compaction | MCRangeRead | CrashSafe, ManifestFilesExist, RangeReturnsSnapshot, ImplementsKVStore | 855 thousand |
| FlushAndCompaction | MCLSMStore | TypeOK, WritesComplete, FlushEnds, CompactionEnds | 204 thousand |
| WAL | MCWAL | AckedDurable, ReplayHasNoHoles, ReplayInOrder, AppendsSettle, CheckpointEnds | 314 thousand |
| MemTable | MCMemTable | SizeExact, NeverOvercounts, FreezesWhenFull | 8 thousand |
| Replication | MCReplication | PipelineIntact, ConfirmedApplied, AppliedOnce, Reconnects, AcksSettle | 730 thousand |
| Merge | MCMergeIterator | YieldsMerge, MergeEnds | 272 thousand |
| SSTableFile | MCSSTable | FinalIsComplete, LookupRight, NoFalseNegatives, ScanRight | 70 thousand |
| SortedMap | MCSortedMap, SortedMapProofs | FindsAll, RangeRight, LinksAgree, Balanced | 190 thousand |
| TCPStream | MCTCPStream | CommandsInOrder, AnswersMatch, AnswersOwed, CallsSettle | 179 thousand |
| LossOnCrash, StaleReads | MCLSMStore | CrashSafe; ReadLatest: violated | - |

What they show:

- **Flush.** With flushes, gets and a kill or shutdown in any order, one old log that
  cannot be unlinked and one start that cannot open some SSTables, no
  compaction and no other I/O error: a running store reads as the map of its
  acknowledged writes, and a get that spans a swap, a publication and a release
  answers as of its start. While no unlink failed, a flushed key recovers to its last
  value although its log is gone, and a log left over between two unlinks never replays
  something older than what was acknowledged. With or without such a failure no
  step differs from the abstract map except a stop that meets writes that are
  not on disk, and a start that drops a table.
- **Compaction.** From every pair of SSTables over two keys whose lower one
  holds no tombstone, two compactions
  with an I/O error, a kill, a write and a range query at any point: MANIFEST and files
  always recover the full map, and the store is a refinement of KVStore: not one key
  changes but by the write under way.
  Tombstones are dropped only when nothing older can come back. A range query
  that the compaction closes readers under fails or answers as of its start, never with
  a gap.
- **FlushAndCompaction.** When both run, with an I/O error and a log that stays, each may
  take the other's file number
  or MANIFEST.tmp; still both end, and writers get the lock.
- **SortedMap.** Every sequence of set, delete and clear over ten keys, in which
  both loops go on after their first round: get, entries and range agree with the map
  the calls add up to at every step inside the loops too, links agree in both
  directions, and black heights are equal but for the one place the loop is
  working on.
- **TCPStream.** Three calls, pipelined or not, over chunks cut anywhere, with
  failing puts, a timeout, a broken connection, a disconnect and a shutdown
  between any two steps: the handler takes commands up in order and once; a call that succeeds was
  stored and one that was refused was refused itself; while the connection is
  open exactly one answer is owed per waiting call; no call waits for ever.
- **WAL, MemTable, Replication, Merge, SSTableFile** show the promises named in
  section 1 for each part; the comment above each property says what it means.

Every module has a type invariant that documents its variables. TLC checks the one
of LSMStore, in FlushAndCompaction; TLAPS proves those of LSMStore, RangeRead,
WAL, Replication and TCPStream, and the types that the proofs about MemTable and
SSTable use are part of their invariants.

### Where the code departs from what it says

Each violation run checks a statement of the documentation and finds a
behaviour of the code that contradicts it (`PROJECT.json`, "findings").

- *LossOnCrash*: `checkpoint()` deletes every older log, including records of
  writes made after the MemTable was swapped, which are in no SSTable.
- *StaleReads*: a compaction that took its file number after a flush did ranks
  above it, and a reader the flush published during
  `handleCompactionComplete` is dropped.

Some properties hold only under a condition that is part of their statement or
of the bounds of their run, and the condition is a boundary of the code:

- `checkpoint()` ignores a failing unlink (WAL.ts:250-254). An old log can then
  outlive newer ones, and after a kill its records are replayed over the SSTables
  that hold newer values. `LogNeverStale`, `FlushedSurvives` and
  `ReplayHasNoHoles` therefore speak of stores in which every unlink succeeded;
  without that condition TLC finds the replayed old value.
- `initialize` takes every table it cannot open off MANIFEST for good, whatever the
  error was (LSMStore.ts:458-461): older values of its keys come back.
  `LosesOnlyAtStops` names such starts, and the refinement of KVStore is checked and
  proved without them (`MaxDrops = 0`).
- `FlushedSurvives` is checked without compaction and
  without I/O errors. A flush and a compaction that overlap can read the same
  `getNextFileNumber()`; a failed flush leaves its table in memory only, and
  the next freeze overwrites it. `ManifestFilesExist` is checked without
  overlapping saves of MANIFEST.
- `GetReturnsSnapshot` speaks of gets that complete: a get that meets a reader
  closed by `handleCompactionComplete` fails.
- `ReplayHasNoHoles` excludes torn records too:
  `open()` continues the newest log behind a torn record (WAL.ts:82), where replay stops, so
  what is acknowledged there is durable (`AckedDurable`) and not replayed.
  `ReplayInOrder` compares sequence ids within one log: after a kill between the
  rotation and the last unlink the newest log is empty and numbering starts
  again at 0.
- Replication promises no order across connections: `processBuffer` keeps
  applying the rest of an old connection while the new one is served, and an
  older entry may be applied after a newer one. `AppliedOnce` and
  `ConfirmedApplied` hold regardless: an entry is sent once and never again.
- The primary's receive buffer outlives the connection
  (ReplicationManager.ts:31, 165). Behind the rest of an acknowledgement that a
  connection left there, answers settle the wrong entry, an entry the backup
  refused can count as replicated, and `parseMessage` can throw or wait for ever.
  `PipelineIntact`, `ConfirmedApplied` and `AcksSettle` say what holds where no
  such bytes stand in front (`stray`, `misread`).
- The backup's store loses entries that were answered with OK when it is killed
  after a checkpoint, as every store does (LossOnCrash); the primary goes on
  counting them. `ConfirmedApplied` says that nothing else that an answer
  confirmed is lost, by whatever restarts.
- `AnswersMatch` is about one connection of a client object. After a reconnect
  the buffer of the old connection and its late close event (TCPClient.ts:19, 56)
  act on the new one. The client sends only well-formed frames: an unknown
  opcode makes `processBuffer` throw before `updateBuffer` (TCPServer.ts:85), and
  the commands in front of it would be taken up again with the next chunk.
- `SizeExact` and `FreezesWhenFull` hold until `delete()` meets a key the table
  holds: it subtracts the replaced entry and so does the `put()` it calls.
- `Reconnects` starts from a scheduled reconnect: when the first `connect()` of
  startApplication fails nothing is scheduled until the next write. It excludes
  a close that never reached the backup, which then refuses every connection.
- Entries written while disconnected are not sent later; no property claims it.
- A connection of TCPClient that times out while it is set up is destroyed without
  an error, and the promise of `connect()` is never settled (TCPClient.ts:61-64).
  `CallsSettle` is about calls on a connection that was made.
- `readEntryAt` reads a value length from the bytes of the key and can throw
  (SSTableReader.ts:297). `LookupRight` speaks of lookups that do not fail,
  and `ScanRight` of what a scan delivers up to there.
- `iterate` takes an empty `endKey` for a bound below every key and delivers
  nothing (SSTableReader.ts:140); ISSTableReader.ts:39-40 says that an empty
  string stands for the end. `ScanRight` leaves an empty end bound out.

### Bounds

Every bound is a constant with "bound:" in its comment. They limit how often the
environment acts, never what a step of the code does.

- *LSMStore*: two keys, so that a batch, a tombstone in one table and a value in
  another, and a key found behind a table without it all occur; two values, or in Compaction
  one beside "deleted" and "absent", tell a stale answer from the right one.
  Three writes and two flushes let a second table freeze behind the first; two
  SSTables reach the compaction threshold, a second compaction runs on what
  the first one, possibly failed, left. In Flush one stop, one log that stays and one
  start with tables that do not open let a second flush and a second life meet what the first left.
  FlushAndCompaction uses one key and one
  value: its questions are about control. The preloaded stacks are all pairs
  of non-empty tables, files an earlier life can have left; in Compaction
  the lower table has no tombstone, which there would hide nothing.
- *WAL*: three appends with a batch limit of two fill one batch and leave a
  record for the timer; two checkpoints and two restarts let a log survive an
  interrupted checkpoint and be continued; one fault of each kind.
- *Replication*: three connections, since the backup may still work off one
  connection, hold a second in its backlog while the primary opens a third;
  three entries pipeline; any two disturbances out of seven kinds.
- *MemTable*: three keys, values of two lengths and seven writes fill the table
  more than once, also by replay and while a flush runs.
- *MergeIterator*: four sources give a heap with two levels and a lone left
  child. *RangeRead*: one query over the whole range of two keys, so that
  each source has an entry left when its reader is closed; limits are MergeIterator's. *SortedMap*: ten keys are
  the least at which `fixInsert` recolours twice in a row and the loop of
  `fixDelete`, having climbed, meets the cases of a black sibling; with seven
  every case occurs, but only in a first round. A red sibling above a node the
  loop has climbed to takes more than eleven keys and is not reached. One key in the
  middle takes two values, the others one: deletion moves nodes, and a node
  keeps its entry. *TCPStream*: three commands, so that one is
  answered, one is in the handler and one still under way. *SSTable*: five keys and an index interval of two give index blocks
  that are full, partial and absent, and binary searches that end on each side;
  too few bytes are set aside for one entry and too many for another.

Symmetry is used in Flush, StaleReads and LossOnCrash (values are interchangeable),
which check safety; not in runs with liveness.
Deadlock is checked everywhere but in TCPStream, where the process exits and the
connection is closed for good: `Quiescent`, `Done`, `Answered` and `Ended` are
stuttering steps whose guards say when the component may rest, so a state in
which an operation is stuck is still reported.

### Fairness

Weak fairness is given only to what the runtime does by itself: a resolved
await continues, a timer fires, a handler that has data is called, a
process that was started initialises. In LSMStore these are `Initialize`,
`Commit`, `FlushStep`, `CompactStep`, `GetStep`; in WAL `Open`, `FlushTimer`,
the holder's steps, the failure of a batch whose file was closed, and the steps
of `close()`; in Replication the end of a connection attempt, the
reconnect timer, delivery of acknowledgements, each connection's handlers at
the backup and the restart of a stopped backup; in MergeIterator the loop; in
TCPStream the client's idle timer, which elapses because calls are finitely
many, and the close event of a socket that is finished or destroyed. The store may never
return from a put: `CallsSettle` does not need it to.
Clients are never obliged to write or read, compaction is never obliged to
start, and nothing is obliged to fail.

## 4. Proofs

The theorems hold for every value of the constants: any sets of keys and
values, any preloaded tables, connections, hash functions and bounds. They
assume only what the `ASSUME` of the model says of its constants, which TLC
evaluates in every run, and the conditions stated below. What a run checks
on a small instance is in the third column.

| Module | Theorem | States |
|---|---|---|
| LSMStoreProofs | TypeCorrect | TypeOK |
| | LogCurrent | LogNeverStale |
| | FlushKeepsReads, FlushKeepsSnapshots, FlushNamesFiles, FlushedIsDurable (FlushOnly) | ReadLatest, GetReturnsSnapshot, ManifestFilesExist, FlushedSurvives |
| | CompactionIsCrashSafe, CompactionNamesFiles, CompactionKeepsReads, CompactionKeepsSnapshots (CompactOnly) | CrashSafe, ManifestFilesExist, ReadLatest, GetReturnsSnapshot |
| | CompactionImplementsMap (CompactOnly and MaxDrops = 0) | ImplementsKVStore: the refinement of KVStore |
| | LosesNothingElse (FlushOnly or CompactOnly) | LosesOnlyAtStops: what keeps a store from being KVStore |
| | RangesReturnSnapshots (FlushOnly or CompactOnly), RangesFollowReads | RangeReturnsSnapshot |
| WALProofs | AckedIsDurable, ReplaysInOrder, ReplaysWithoutHoles | AckedDurable, ReplayInOrder, ReplayHasNoHoles |
| MergeIteratorProofs | MergesRight | YieldsMerge |
| MemTableProofs | CountIsExact, CountNeverTooHigh, FullTablesFreeze | SizeExact, NeverOvercounts, FreezesWhenFull |
| SortedMapProofs | GetsFindAll, RangesLoseNothing, LinksAlwaysAgree, BalancedAlways | FindsAll, RangeRight, LinksAgree, Balanced |
| SSTableProofs | FilterComplete, FinalFilesAreComplete, LookupsAreRight, ScansAreRight | NoFalseNegatives, FinalIsComplete, LookupRight, ScanRight |
| ReplicationProofs | PipelineStaysIntact, NothingAppliedTwice, ConfirmedStaysApplied | PipelineIntact, AppliedOnce, ConfirmedApplied |
| TCPStreamProofs | ServedInOrder, AnswersReachTheirCalls, EveryCallIsOwed | CommandsInOrder, AnswersMatch, AnswersOwed |

RangeTypeCorrect, WALTypeCorrect, ReplicationTypeCorrect, StreamTypeCorrect and
MapTypeCorrect are
the type invariants of those modules, MergeCorrect is the inductive invariant of
MergeIterator, types included.

**The conditions.** `FlushOnly == MaxCompactions = 0 /\ MaxFaults = 0` and
`CompactOnly == MaxFlushes = 0` are about bounds of the environment: no
compaction is started and no await rejects; the MemTable never fills up. All
else stays free: any number of writes, gets, kills and restarts, unlinks that fail and
tables that do not open, under CompactOnly also I/O errors in any step of a compaction. They are needed. When
a flush and a compaction overlap, or a flush fails half way, the properties are
false of the code: StaleReads violates ReadLatest with one flush and one
compaction, LossOnCrash violates CrashSafe, and section 3 names the causes for
the others. `MaxDrops = 0` says that a start finds no table it cannot open: such a
start takes values away, which no map does. TypeOK and LogNeverStale, which survive the overlap, are proved
without a condition, and so is everything outside LSMStore and RangeRead.
RangesFollowReads says what a range query itself needs of the store: that gets
read the last acknowledged writes (`RangeSpec /\ []ReadLatest`).

**Recursion.** The library's induction theorems take an operator as a parameter,
which the provers cannot instantiate. The modules of proofs therefore begin with what
they need of it, restated for sets and functions, from the well-foundedness of the order on Nat: a
set of numbers has a least one (`LeastNumber`); a set that contains 0 and with
each number below n the next contains 0..n (`UptoInduction`); a function defined by
its value at 0 and a step exists (`RecursionUpto`); a finite set of numbers can be
listed upwards, and such a list is complete (`UpwardsExists`, `UpwardsAll`).
SSTable and MergeIterator write loops as functions of one number, and RangeRead
writes order as `Ascending`, to which these apply.

### LSMStore

*Types.* One lemma per action, on top of lemmas about the operators
(`OverrideType`, `HighestWinsType`, `FirstWinsType`, `AddSSTableType`,
`RemoveSSTablesType`, `SortedByNumberType`). TypeOK is inductive.

*ReadLatest while flushing.* ReadLatest alone is not inductive: when
`FlushPublish` and `FlushDone` move the frozen table from memory to the reader
list, the reads stay the same only if the file that is opened holds that table.
`FrozenTracked` says where the table is at each step of doFlush: in its file from
the build until the reader is open, at the front of the reader list until it is
released. The inductive invariant is
`ReadInv == TypeOK /\ FrozenTracked /\ ReadLatest`. `FirstWinsAt`,
`HighestWinsAt` and their like say what a search of a stack of tables finds;
`DescendingReads` and `InitializeRead` that the reader list and the replayed
MemTable after a restart answer as the disk did; `CommitRead` that a write changes
exactly the answers it should, whether or not the MemTable is swapped.

*LogNeverStale.* `LogInv` adds that a running store has a log, that a
stopped one has no write in progress, and that a checkpoint has passed no log over as long as
no unlink failed. `Commit` puts a write on the newest log, and
`CheckpointUnlink` then takes away the oldest, so what is left above is never older
(`HighestWinsAgree`: stacks in which the same tables decide answer the same).

*Gets.* `GetInv`: what the readers left in the snapshot answer for the key is what
the store answered when the get was called. It needs ReadLatest only at the
start, so one proof of the step (`GetNext`) serves both conditions.

*Files of a flush.* `FilesInv`: MANIFEST names existing files below the next file number
(`NamesFiles`); the edit of the running flush is MANIFEST plus its file, until
the rename makes them equal (`EditTracked`); the readers answer what the files in
MANIFEST do, but for the moment between the rename and the
publication, when the files are one flush ahead (`ReadersTracked`). FlushedSurvives
then follows: a key in neither MemTable is answered by the readers, hence by the
files, and the logs do not contradict them by LogCurrent.

*Compaction.* `CompactInv`: memory equals the replayed logs; MANIFEST, the
manifest in memory and the readers answer alike (`AllAgree`); what the
compaction holds is the merge of its inputs, which are all tables there are
(`MergeTracked`, `ReplacesAll`); the manifest it saves is the one in memory
(`SaveTracked`). That a compaction takes every table is what makes dropping
tombstones right: `Answers` of the merged table are those of the stack
it replaces. After an error half way at most one table is left, so the
case in which a later compaction meets leftovers is covered. CrashSafe,
ManifestFilesExist and ReadLatest are read off the invariant.

*Refinement.* `StepKinds`: every step calls a write, acknowledges the one under way,
stops or starts the store, or leaves `up`, `inflight` and `latest` alone. So when the
mapped map equals `latest` before and after it (`Mapped`), the step is one of
KVStore or a stutter (`StepMaps`). In a store that compacts both `View` and
`DiskView` equal `latest`, which gives `CompactionImplementsMap`. A store that
flushes equals `latest` only while it runs: a checkpoint can delete the log of a
write that is in memory alone (LossOnCrash), and a kill or a close then takes it
back. `LosesNothingElse` says that this, and a start that drops a table, is the whole
difference, however often the store is stopped and started again: a start finds
what the disk held (`StartKeeps`), and a stop that finds every acknowledged write on
disk is a stop of the map (`StepLoses`).

### RangeRead

What a query merges does not change after its first step: `RangeStart` copies,
and no step of the store touches `range`. So the invariant is about one record,
`Good(range)`, and says where the merge stands (`Round`): for the key b of the
current round the sources that are due wait with b (`Here`), all others have
their first key behind b in the heap (`Past`), no source before the winner holds
b, and what has been yielded are the pairs below b (`Yielded`, against the
ascending list of the keys with a value). RangeReturnsSnapshot is not inductive
without it. `MergeStepGood` begins the next round: between b and the least key
in the heap no source holds anything, by `Past`. `WinnerAnswers`: the winner is
the first source that holds b, hence what `FirstWins` answers (`FindsFirst`).
`RangeStartGood` ties the sources to the store: layering MemTables over readers,
and leaving out sources without a key between the bounds, answers as `View`
does (`LayersFind`, `AtFinds`), and ReadLatest says that `View` is `latest`.
`RangeIsStore` carries the theorems of LSMStoreProofs over to RangeSpec.

### WAL

`Base` (types, no log with more synced records than it has, what the holder of
the lock may be doing) carries four invariants.

- `DurableInv`: the records of the holder's batch up to `work.done` are in the newest
  log (`Written`), so a sync makes all of them durable before they are acknowledged;
  logs are deleted only when all acknowledged records have been retired.
- `QueueInv`: the pending batch, the holder's batch and the records behind it in the lock's
  queue are numbered in the order of their appends.
- `OrderInv`: numbers and sequence ids ascend in the logs, what is logged precedes
  what waits, and the next sequence id is above both. PowerLoss cuts logs at a
  prefix, which keeps all this.
- `HoleInv`: without torn records and failed unlinks, an acknowledged record is in the synced
  part of a log, or it and everything before it have left the logs.

### Replication

- `Ends`: what the primary's flags say of its socket (`connected` exactly when it is
  open, at most one connection that is not closed, no pending entries when unconnected).
- `Shape`: what may be under way on a connection, by the states of its ends.
- `Pipelined`: while no bytes of an ended connection are in the receive buffer,
  pendingAcks is everything under way on the connection while the backup's end
  lives (`Pipe`: answers, handler, buffer, transmission); afterwards, when the rest
  is lost, it still begins with the answers on their way. PipelineIntact alone is not
  inductive, because `handleAck` goes on when the backup's end is gone.
- `Delivered`: no entry that is ahead of the backup, on any connection, has been applied
  or is ahead twice, and what was not written is nowhere.
- `Settled`: an entry that an answer confirmed, or whose success is on its way to the
  primary, has been applied, and an entry in a handler is not known to anyone: so what a stop
  of the backup loses was never confirmed. What its store loses counts as applied here
  (`Firm`), and what was misread is not counted as confirmed (`Known`).

Most steps neither send, handle nor answer an entry; `Quiet` and `Calm` say so
once, and one lemma treats them together.

### TCPStream

- `StreamInv`: the bytes the server has not consumed and those on their way are
  the frames of consecutive commands that follow the last one consumed
  (`StreamGoesOn`); they reach the last call while the client's socket is open;
  the put that waits for the store is the last command taken up (`PutUnderWay`); how the
  sockets restrict the handlers (`Sockets`).
- `AnswerInv`: while the client listens, the answers on their way are those of the calls that
  follow the last one settled, each true of its call (`AnswersReach`), and
  pendingAcks are the unsettled calls in order (`PendingInOrder`).

`Framed` says what a stretch of frames of two parts is; `FromParts` and the lemmas
next to it say what remains of one when a chunk or a handler takes bytes from it.

### MemTable

What a table really holds is a sum over its keys, a fold of the library. What
it computes is shown by induction on the size of the set that is left to fold
(`PickedInduction`, from `LeastNumber`), and with it what a change of one entry does to
the sum (`SumChanged`). `PutCounts` and `DeleteCounts` say what each
operation adds to the difference between sum and count. `CountInv` adds to
SizeExact and NeverOvercounts that a table whose size the last write looked at is below
its limit (`Looked`).

### MergeIterator

*The heap.* An array of entries of different sources is in order but for one node
that is on its way up (`UpTo`) or down (`DownTo`), and that node's children are not
before its parent (`Skipped`). A pass of the loop keeps this (`SwapUp`, `SwapDown`)
and moves the node on, so that after as many passes as there are entries it has stopped
(`BubbleUp`, `BubbleDown`). Hence `InsertKeeps`, `ExtractKeeps`, and `RootLeast`: no
entry is before the root, by the least counterexample.

*The merge.* YieldsMerge says nothing of what is still to come. `MergeInv`
(model-checked over four sources before it was proved) adds two things. `Sound`: the heap
and the winner hold the next entry of every source that has been advanced and has one left,
except, inside a step, of the one source that is to be advanced (`AdvanceKeeps`).
`Reached`: there is a key f such that what is left of every source are its keys from f on
(after f for sources whose entry for f was passed over), and no source newer than the winner's
holds f. f is the winner's key while there is one. So the root is the next key
and its source the newest that has it (`RootNext`), a duplicate can be dropped
(`DropRoot`), and the winner's entry is what FirstWins answers (`DropWinner`).

### SortedMap

A ghost function D gives every node the set of keys at and below it (`Spans`);
`Shape` says with it that the tree is a search tree whose child and parent links agree,
and `MapInv` that such a D exists, that the nodes are the present keys, and what
fixInsert and fixDelete have in hand. What reads return needs nothing of the colours;
only Balanced does.

- `SpanInduction`: what holds of a node whenever it holds of its children holds of all
  nodes, because D shrinks on the way down. With it the walks (`NearestRight`,
  `MinimumRight`) and the traversals (`EntriesRight`, `RangeOfRight`) are shown to be
  what their recursive definitions say, without an induction over trees. A
  subtree that range() passes over holds no key between the bounds, by D.
- `RotateKeeps`, `AttachKeeps`, `BypassKeeps` and `SwapKeeps` give the D of the tree
  after a rotation, an insertion and the two ways to unlink a node; the successor
  that takes the place of a node is the least key on its right (`LeastStep`).

*Balance.* Balanced is not inductive: it does not say that the node fixInsert works on
is red, nor that fixDelete's parent and side lead to the node it works on. `ColourInv`
(model-checked over ten keys before it was proved) adds both. A second ghost function
gives every node the number of black nodes on every path from it down (`Heights`);
at the one place where fixDelete is a black node short (`ShortPlaces`) a path counts
one more. Red over red stands only where the loop works (`RedBelow`, `RedAbove`).

- A rotation that exchanges the colours of the two nodes keeps the heights of all
  others (`TurnHeights`); the other cases have lemmas of their own:
  `RecolourHeights` for a red uncle, `LowerHeights` for a black sibling with
  black children, `HandsHeights` for the last rotation of fixDelete,
  `BlackenHeights` for the node painted black at the end.
- `HungHeights` (set of a new key), `SplicedHeights` and `SwappedHeights` (the two
  ways to unlink a node) bring the tree into the state the loop starts from.
- `InvBalanced` shows that what BlackHeight computes from the leaves up is these
  heights, by induction down the tree.

### SSTable

*The filter.* `CombinedHash` falls on a bit of the array (`BitsInside`: it is a
remainder, and an index divided by eight stays below the number of bytes), so
`AddKey` sets what `GetBit` asks for (`AddKeyFound`) and never clears a bit of
another key (`AddKeyKeeps`). The inductive invariant `FilterInv` adds the types
of the entries and of the file's data and bits: without them the position of a
bit means nothing.

*Complete files.* `CompleteInv`: the temporary file holds the first entries of
those that were added, as many as its length says (`Stages`), so `Finish`, whose guard
compares lengths, renames a file that holds all of them.

*Lookups and scans.* `Start` is the sum of the sizes in front of an entry, so a
stretch of entries between two offsets is one between two positions (section
"Offsets"). The data and the index of a file under its final name are sorted and
consistent (`Sorted`, `IndexRight`); the binary search in the index ends at the
last block whose first key is not above the one sought, proved by induction
over the width of the search interval; so the block that is scanned is the one
that holds the key if any does. `Delivered` says for a scan which entries between
its bounds it has handed out and where it stands, also after the file is closed.

### Model-checked only

Liveness under fairness (WritesComplete, FlushEnds, CompactionEnds,
AppendsSettle, CheckpointEnds, Reconnects, AcksSettle, MergeEnds, CallsSettle)
is out of the prover's reach. That a store that flushes and is stopped refines KVStore is
not true (LossOnCrash); LosesNothingElse says how far it does. Reads while flush and compaction overlap are not
proved because they are not true.

## 5. Not modelled

HTTPServer: every request is parsed, validated, turned into one call of the
store and answered, with no state between requests; what the calls do is in
LSMStore and RangeRead. The two string hashes and the sizing of the Bloom filter
(any values are allowed), byte formats of log records, SSTables and messages,
metrics, argument parsing. MemTable.clear, which nothing calls. Entries with an empty key, which
the TCP server hands on and `applyLogEntry` passes over: keys are taken to be
non-empty, as HTTPServer demands. A TCPClient
that connects a second time, and frames with an unknown opcode (section 3).

## 6. Plan

Order of the work, most important first; the first twelve items are done.

1. `Tables`, `KVStore`, `LSMStore` with flush, compaction, crash and restart.
2. `WAL`, then `Replication`: durability and the replica.
3. `MemTable`, `MergeIterator`, `SSTable`: what LSMStore abstracts.
4. The runs of section 3.
5. TypeCorrect and FlushKeepsReads.
6. `RangeRead`, `SortedMap`, `TCPStream`, `BloomFilter` and FilterComplete.
7. Proofs about the log, flushes and compactions, with the refinement of KVStore.
8. Proofs about WAL, Replication, TCPStream and complete SSTable files.
9. Proofs about MemTable, lookups and scans of SSTable, and range queries.
10. FindsAll, RangeRight, LinksAgree and Balanced of SortedMap.
11. YieldsMerge of MergeIterator, over the array heap.
12. How far a store that flushes is KVStore (LosesNothingElse).
13. Model: a TCPClient that reconnects; primary log and backup store composed
   end to end, with what the backup's store loses derived instead of left open.
