-------------------------------- MODULE WAL ---------------------------------
(***************************************************************************)
(* The write-ahead log on its own: group commit, the lock that serialises  *)
(* batches and checkpoints, the log files, power loss and replay.          *)
(*                                                                         *)
(* LSMStore abstracts the log to the net effect of every file and commits  *)
(* one write at a time.  Here every record counts: many appends are        *)
(* pending at once, a batch is written record by record, and what was not  *)
(* synced may be lost.  Appends are numbered in the order of their calls;  *)
(* a record is that number with the sequenceId the log gave it.            *)
(***************************************************************************)
EXTENDS Integers, Sequences

CONSTANTS
    BatchLimit,      \* pending writes that start a flush (100)
    MaxAppends,      \* bound: calls of append()
    MaxQueue,        \* bound: holders and waiters of the lock for the timer
    MaxCheckpoints,  \* bound: calls of checkpoint()
    MaxRestarts,     \* bound: power losses and graceful shutdowns
    MaxFaults,       \* bound: failing writes and syncs
    MaxTorn,         \* bound: records of which only a part reaches the file
    MaxUnlinkFaults  \* bound: unlinks that fail

ASSUME WALAssumption ==
    /\ BatchLimit \in Nat \ {0}
    /\ MaxAppends \in Nat
    /\ MaxQueue \in Nat \ {0}
    /\ MaxCheckpoints \in Nat
    /\ MaxRestarts \in Nat
    /\ MaxFaults \in Nat
    /\ MaxTorn \in Nat
    /\ MaxUnlinkFaults \in Nat

VARIABLES
    up,            \* open() has completed and the process runs
    logs,          \* log files in name order: records, and how many are synced
    everyWrite,    \* the policy is SYNC_EVERY_WRITE, not group commit
    handle,        \* fileHandle is not null; it always refers to the last log
    sequenceId,    \* next sequence id
    pendingWrites, \* records waiting for the next batch
    lock,          \* writeLock: the holder, then the waiters in order
    work,          \* progress of the holder
    closing,       \* progress of close()
    calls,         \* auxiliary: number of append() calls so far
    acked,         \* auxiliary: appends that were resolved
    retired,       \* auxiliary: appends acknowledged before the last rotation
    used           \* how much of every bound is used up

memory == <<everyWrite, handle, sequenceId, pendingWrites, lock, work,
            closing>>
vars == <<up, logs, memory, calls, acked, retired, used>>

-----------------------------------------------------------------------------
Record == [id : Nat, seq : Nat]

(* A record of which only a part is in the file.                           *)
Torn == [id |-> 0, seq |-> 0]

Log == [records : Seq(Record), synced : Nat]

EmptyLog == [records |-> << >>, synced |-> 0]

Actor == [kind : {"write", "flush", "checkpoint", "close"}, record : Record]

Flusher(kind) == [kind |-> kind, record |-> Torn]

Work == [pc : {"start", "write", "sync", "rotate", "unlink"},
         batch : Seq(Record), done : Nat]

IdleWork == [pc |-> "start", batch |-> << >>, done |-> 0]

Bounds == {"checkpoints", "restarts", "faults", "torn", "unlinkFaults"}

Spend(b) == used' = [used EXCEPT ![b] = @ + 1]

-----------------------------------------------------------------------------
(* AsyncMutex: acquire() waits in line, release() lets the next one in.    *)

(* Mutant: a waiter overtakes the ones before it. *)
AcquireFront(a) ==
    lock' = IF lock = << >> THEN <<a>>
            ELSE <<Head(lock), a>> \o Tail(lock)

Acquire(a) == lock' = Append(lock, a)

Release ==
    /\ lock' = Tail(lock)
    /\ work' = IdleWork
    /\ closing' = IF Head(lock).kind = "close" THEN "stop" ELSE closing

Holds(pc) == up /\ lock # << >> /\ work.pc = pc

Holder == Head(lock).kind

-----------------------------------------------------------------------------
(* What replay() reads: every log in name order, each up to its first      *)
(* record that does not pass the length or checksum test.                  *)

Readable(l, j) == \A i \in 1..j : l.records[i] # Torn

Replayed(id) ==
    \E i \in DOMAIN logs : \E j \in DOMAIN logs[i].records :
        Readable(logs[i], j) /\ logs[i].records[j].id = id

(* Mutant: the number of the last record is used again. *)
SameSequenceId(l) ==
    LET good == {j \in DOMAIN l.records : Readable(l, j)}
        last == {j \in good : \A i \in good : i <= j}
    IN  IF last = {} THEN {0} ELSE {l.records[j].seq : j \in last}

(* readLastSequenceId: the number after the last good record of log l.     *)
NextSequenceId(l) ==
    LET good == {j \in DOMAIN l.records : Readable(l, j)}
        last == {j \in good : \A i \in good : i <= j}
    IN  IF last = {} THEN {0} ELSE {l.records[j].seq + 1 : j \in last}

-----------------------------------------------------------------------------
Init ==
    /\ up = FALSE
    /\ logs = << >>
    /\ everyWrite = FALSE
    /\ handle = FALSE
    /\ sequenceId = 0
    /\ pendingWrites = << >>
    /\ lock = << >>
    /\ work = IdleWork
    /\ closing = "no"
    /\ calls = 0
    /\ acked = {}
    /\ retired = {}
    /\ used = [b \in Bounds |-> 0]

(* open(): continue the newest log, or start one.  A torn record at its    *)
(* end stays where it is.  Every start may come with another sync policy.  *)
Open ==
    /\ ~up
    /\ up' = TRUE
    /\ everyWrite' \in BOOLEAN
    /\ handle' = TRUE
    /\ \/ /\ logs = << >>
          /\ logs' = <<EmptyLog>>
          /\ sequenceId' = 0
       \/ /\ logs # << >>
          /\ logs' = logs
          /\ sequenceId' \in NextSequenceId(logs[Len(logs)])
    /\ UNCHANGED <<pendingWrites, lock, work, closing, calls, acked, retired,
                   used>>

(* append(): numbered at once.  A group waits for the timer or for the     *)
(* call that fills it; a single write waits for the lock.                  *)
Append_ ==
    /\ up
    /\ closing = "no"
    /\ calls < MaxAppends
    /\ calls' = calls + 1
    /\ sequenceId' = sequenceId + 1
    /\ LET record == [id |-> calls + 1, seq |-> sequenceId]
       IN  IF everyWrite
           THEN /\ Acquire([kind |-> "write", record |-> record])
                /\ UNCHANGED pendingWrites
           ELSE /\ pendingWrites' = Append(pendingWrites, record)
                /\ IF Len(pendingWrites) + 1 >= BatchLimit
                   THEN Acquire(Flusher("flush"))
                   ELSE UNCHANGED lock
    /\ UNCHANGED <<up, everyWrite, logs, handle, work, closing, acked,
                   retired, used>>

(* Mutant: the timer only looks after full batches. *)
FlushTimerFull ==
    /\ up
    /\ ~everyWrite
    /\ closing # "closed"
    /\ pendingWrites # << >>
    /\ Len(lock) < MaxQueue
    /\ IF Len(pendingWrites) >= BatchLimit
       THEN Acquire(Flusher("flush")) ELSE UNCHANGED lock
    /\ UNCHANGED <<up, everyWrite, logs, handle, sequenceId, pendingWrites,
                   work, closing, calls, acked, retired, used>>

(* The interval timer calls flushBatch().                                  *)
FlushTimer ==
    /\ up
    /\ ~everyWrite
    /\ closing # "closed"
    /\ pendingWrites # << >>
    /\ Len(lock) < MaxQueue
    /\ Acquire(Flusher("flush"))
    /\ UNCHANGED <<up, everyWrite, logs, handle, sequenceId, pendingWrites,
                   work, closing, calls, acked, retired, used>>

(* doFlush calls checkpoint(); it runs one at a time.                      *)
CheckpointCall ==
    /\ up
    /\ closing = "no"
    /\ \A i \in DOMAIN lock : lock[i].kind # "checkpoint"
    /\ used["checkpoints"] < MaxCheckpoints
    /\ Spend("checkpoints")
    /\ Acquire(Flusher("checkpoint"))
    /\ UNCHANGED <<up, everyWrite, logs, handle, sequenceId, pendingWrites,
                   work, closing, calls, acked, retired>>

-----------------------------------------------------------------------------
(* The holder of the lock, one action per await.                           *)

Ids(s) == {s[i].id : i \in DOMAIN s}

(* flushBatchUnlocked takes everything that is pending.                    *)
TakeBatch ==
    /\ work' = [work EXCEPT !.pc = "write", !.batch = pendingWrites]
    /\ pendingWrites' = << >>

Start ==
    /\ Holds("start")
    /\ \/ /\ Holder = "write"
          /\ work' = [work EXCEPT !.pc = "write",
                                  !.batch = <<Head(lock).record>>]
          /\ UNCHANGED <<pendingWrites, lock, closing>>
       \/ /\ Holder # "write"
          /\ pendingWrites # << >>
          /\ TakeBatch
          /\ UNCHANGED <<lock, closing>>
       \/ /\ Holder = "checkpoint"
          /\ pendingWrites = << >>
          /\ work' = [work EXCEPT !.pc = "rotate"]
          /\ UNCHANGED <<pendingWrites, lock, closing>>
       \/ /\ Holder \in {"flush", "close"}
          /\ pendingWrites = << >>
          /\ Release
          /\ UNCHANGED pendingWrites
    /\ UNCHANGED <<up, everyWrite, logs, handle, sequenceId, calls, acked,
                   retired, used>>

WriteRecord(record) ==
    logs' = [logs EXCEPT ![Len(logs)].records = Append(@, record)]

WriteEntry ==
    /\ Holds("write")
    /\ handle
    /\ WriteRecord(work.batch[work.done + 1])
    /\ work' = [work EXCEPT !.done = @ + 1,
                            !.pc = IF work.done + 1 = Len(work.batch)
                                   THEN "sync" ELSE "write"]
    /\ UNCHANGED <<up, everyWrite, handle, sequenceId, pendingWrites, lock,
                   closing, calls, acked, retired, used>>

(* Mutant: fileHandle.sync() is skipped. *)
SyncNothing == logs' = logs

SyncLog ==
    logs' = [logs EXCEPT
               ![Len(logs)].synced = Len(logs[Len(logs)].records)]

(* After the sync every append of the batch is resolved and the listener   *)
(* is told about it.                                                       *)
SyncBatch ==
    /\ Holds("sync")
    /\ handle
    /\ SyncLog
    /\ acked' = acked \cup Ids(work.batch)
    /\ \/ /\ Holder = "checkpoint"
          /\ work' = [IdleWork EXCEPT !.pc = "rotate"]
          /\ UNCHANGED <<lock, closing>>
       \/ /\ Holder # "checkpoint"
          /\ Release
    /\ UNCHANGED <<up, everyWrite, handle, sequenceId, pendingWrites, calls,
                   retired, used>>

(* Close the log and open wal-<now>.log; within one millisecond that is    *)
(* the same file again.                                                    *)
Rotate ==
    /\ Holds("rotate")
    /\ handle' = TRUE
    /\ logs' \in {Append(logs, EmptyLog), logs}
    /\ retired' = acked
    /\ work' = [work EXCEPT !.pc = "unlink"]
    /\ UNCHANGED <<up, everyWrite, sequenceId, pendingWrites, lock, closing,
                   calls, acked, used>>

(* The new log cannot be opened: the old one is closed already, and every  *)
(* write fails until a later checkpoint or a restart opens a log again.    *)
RotateFails ==
    /\ Holds("rotate")
    /\ used["faults"] < MaxFaults
    /\ Spend("faults")
    /\ handle' = FALSE
    /\ Release
    /\ UNCHANGED <<up, everyWrite, logs, sequenceId, pendingWrites, calls,
                   acked, retired>>

(* Mutant: the newest of the old logs goes first. *)
WithoutNewestLog(i) ==
    [j \in 1..(Len(logs) - 1) |->
        IF j = Len(logs) - 1 THEN logs[Len(logs)] ELSE logs[j]]

(* Log i is unlinked. *)
WithoutLog(i) ==
    [j \in 1..(Len(logs) - 1) |-> IF j < i THEN logs[j] ELSE logs[j + 1]]

(* The old logs are unlinked in name order; work.done of them are still    *)
(* there because their unlink failed, which is ignored.                    *)
Unlink ==
    /\ Holds("unlink")
    /\ Len(logs) > work.done + 1
    /\ \/ /\ logs' = WithoutLog(work.done + 1)
          /\ UNCHANGED <<work, used>>
       \/ /\ used["unlinkFaults"] < MaxUnlinkFaults
          /\ Spend("unlinkFaults")
          /\ work' = [work EXCEPT !.done = @ + 1]
          /\ UNCHANGED logs
    /\ UNCHANGED <<up, everyWrite, handle, sequenceId, pendingWrites, lock,
                   closing, calls, acked, retired>>

(* Mutant: checkpoint() does not release the lock. *)
CheckpointStays ==
    /\ Holds("unlink")
    /\ Len(logs) = work.done + 1
    /\ UNCHANGED vars

CheckpointDone ==
    /\ Holds("unlink")
    /\ Len(logs) = work.done + 1
    /\ Release
    /\ UNCHANGED <<up, everyWrite, logs, handle, sequenceId, pendingWrites,
                   calls, acked, retired, used>>

-----------------------------------------------------------------------------
(* The process ends and forgets what is in memory.                         *)
LoseMemory ==
    /\ up' = FALSE
    /\ everyWrite' = FALSE
    /\ handle' = FALSE
    /\ sequenceId' = 0
    /\ pendingWrites' = << >>
    /\ lock' = << >>
    /\ work' = IdleWork
    /\ closing' = "no"

(***************************************************************************)
(* A write or sync fails, or close() has taken the file handle away.  The  *)
(* whole batch is rejected, although some of it is in the file.  Nobody    *)
(* catches the rejection of a flushBatch() that the timer or append()      *)
(* started, or that close() awaits: node ends the process.  A failing      *)
(* write may leave a part of its record in the file.                       *)
(***************************************************************************)
BatchFails ==
    /\ Holds("write") \/ Holds("sync")
    /\ \/ /\ ~handle
          /\ UNCHANGED <<logs, used>>
       \/ /\ handle
          /\ used["faults"] < MaxFaults
          /\ \/ /\ UNCHANGED logs
                /\ Spend("faults")
             \/ /\ work.pc = "write"
                /\ used["torn"] < MaxTorn
                /\ WriteRecord(Torn)
                /\ used' = [used EXCEPT !["faults"] = @ + 1,
                                        !["torn"] = @ + 1]
    /\ IF Holder \in {"write", "checkpoint"}
       THEN Release /\ UNCHANGED <<up, everyWrite, handle, sequenceId,
                                   pendingWrites>>
       ELSE LoseMemory
    /\ UNCHANGED <<calls, acked, retired>>

(***************************************************************************)
(* The machine loses power.  Of every log a prefix survives that contains  *)
(* at least what was synced; of the next record of the last log a part may *)
(* survive.                                                                *)
(***************************************************************************)
Cuts == {c \in [DOMAIN logs -> 0..MaxAppends + MaxTorn] :
            \A i \in DOMAIN logs :
                logs[i].synced <= c[i] /\ c[i] <= Len(logs[i].records)}

CutTo(c) == [i \in DOMAIN logs |->
                [records |-> SubSeq(logs[i].records, 1, c[i]),
                 synced |-> c[i]]]

PowerLoss ==
    /\ up
    /\ used["restarts"] < MaxRestarts
    /\ \E c \in Cuts :
        \/ /\ logs' = CutTo(c)
           /\ Spend("restarts")
        \/ /\ c[Len(logs)] < Len(logs[Len(logs)].records)
              \/ (Holds("write") /\ handle)
           /\ used["torn"] < MaxTorn
           /\ logs' = [CutTo(c) EXCEPT
                         ![Len(logs)] =
                             [records |-> Append(@.records, Torn),
                              synced |-> @.synced + 1]]
           /\ used' = [used EXCEPT !["restarts"] = @ + 1, !["torn"] = @ + 1]
    /\ LoseMemory
    /\ UNCHANGED <<calls, acked, retired>>

(* close(), once the store has waited for its flush: commit what is        *)
(* pending, stop the timer, close the file without asking for the lock.    *)
CloseCall ==
    /\ up
    /\ closing = "no"
    /\ \A i \in DOMAIN lock : lock[i].kind # "checkpoint"
    /\ used["restarts"] < MaxRestarts
    /\ Spend("restarts")
    /\ IF pendingWrites # << >>
       THEN closing' = "flush" /\ Acquire(Flusher("close"))
       ELSE closing' = "stop" /\ UNCHANGED lock
    /\ UNCHANGED <<up, everyWrite, logs, handle, sequenceId, pendingWrites,
                   work, calls, acked, retired>>

CloseHandle ==
    /\ up
    /\ closing = "stop"
    /\ closing' = "closed"
    /\ handle' = FALSE
    /\ UNCHANGED <<up, everyWrite, logs, sequenceId, pendingWrites, lock,
                   work, calls, acked, retired, used>>

Exit ==
    /\ closing = "closed"
    /\ LoseMemory
    /\ UNCHANGED <<logs, calls, acked, retired, used>>

(* The log is open and has nothing to do.                                  *)
Quiescent ==
    /\ up
    /\ closing = "no"
    /\ lock = << >>
    /\ pendingWrites = << >>
    /\ UNCHANGED vars

Step == \/ Start \/ WriteEntry \/ SyncBatch \/ Rotate \/ Unlink
        \/ CheckpointDone

Next ==
    \/ Open \/ Append_ \/ FlushTimer \/ CheckpointCall
    \/ Step \/ BatchFails \/ RotateFails
    \/ PowerLoss \/ CloseCall \/ CloseHandle \/ Exit
    \/ Quiescent

Spec == Init /\ [][Next]_vars

(* The timer fires, started awaits are resolved, a closed process exits.   *)
Fairness ==
    /\ WF_vars(Open)
    /\ WF_vars(FlushTimer)
    /\ WF_vars(Step)
    /\ WF_vars(BatchFails /\ ~handle)
    /\ WF_vars(CloseHandle)
    /\ WF_vars(Exit)

FairSpec == Spec /\ Fairness

-----------------------------------------------------------------------------
(* Properties *)

(* Every variable has its type. *)
TypeOK ==
    /\ up \in BOOLEAN
    /\ logs \in Seq(Log)
    /\ everyWrite \in BOOLEAN
    /\ handle \in BOOLEAN
    /\ sequenceId \in Nat
    /\ pendingWrites \in Seq(Record)
    /\ lock \in Seq(Actor)
    /\ work \in Work
    /\ closing \in {"no", "flush", "stop", "closed"}
    /\ calls \in Nat
    /\ acked \subseteq Nat
    /\ retired \subseteq Nat
    /\ used \in [Bounds -> Nat]

(* An acknowledged append stays in the synced part of a log until a        *)
(* checkpoint that began after it retires it: whenever the power fails,    *)
(* the machine comes back with it, and replay returns it unless a record   *)
(* before it in that log is torn.                                          *)
AckedDurable ==
    \A id \in acked \ retired :
        \E i \in DOMAIN logs : \E j \in 1..logs[i].synced :
            logs[i].records[j].id = id

(* Replay never goes back in time: when it returns an acknowledged append  *)
(* it also returns every later acknowledged one, although checkpoint()     *)
(* deletes one log after the other.  A torn record or a log whose unlink   *)
(* failed makes holes, so this is about lives without them.                *)
ReplayHasNoHoles ==
    used["torn"] = 0 /\ used["unlinkFaults"] = 0 =>
        \A a, b \in acked : a < b /\ Replayed(a) => Replayed(b)

(* Replay returns records in the order in which append() was called, and   *)
(* none twice, although batches, single writes and checkpoints compete for *)
(* the lock; in every log their sequence ids increase, although a restart  *)
(* numbers on from what it finds and batches fail half way.                *)
ReplayInOrder ==
    \A i, m \in DOMAIN logs :
        \A j \in DOMAIN logs[i].records : \A n \in DOMAIN logs[m].records :
            /\ i < m \/ (i = m /\ j < n)
            /\ Readable(logs[i], j) /\ Readable(logs[m], n)
            => /\ logs[i].records[j].id < logs[m].records[n].id
               /\ i = m => logs[i].records[j].seq < logs[m].records[n].seq

(* Every append() is settled, acknowledged or rejected, unless the process *)
(* ends first: the timer, full batches, checkpoints and close() together   *)
(* leave no write behind.                                                  *)
Waiting(id) ==
    \/ id \in Ids(pendingWrites)
    \/ id \in Ids(work.batch)
    \/ \E i \in DOMAIN lock : lock[i].record.id = id

AppendsSettle == \A id \in 1..MaxAppends : Waiting(id) ~> ~Waiting(id)

(* Every checkpoint comes to an end and lets the writers through again.    *)
CheckpointEnds ==
    (\E i \in DOMAIN lock : lock[i].kind = "checkpoint")
        ~> (\A i \in DOMAIN lock : lock[i].kind # "checkpoint")
=============================================================================
