------------------------------ MODULE WALProofs -------------------------------
(* Theorems about the write-ahead log, for every value of WAL's constants. *)
EXTENDS WAL, SequenceTheorems, WellFoundedInduction, TLAPS

-----------------------------------------------------------------------------
(* What one step does to the log files *)

Newest == logs[Len(logs)]

(* A batch is being written or synced.                                     *)
Batching == work.pc \in {"write", "sync"}

(* A function on 1..n is a sequence. *)
LEMMA FunctionIsSeq ==
    ASSUME NEW S, NEW n \in Nat, NEW f \in [1..n -> S]
    PROVE  f \in Seq(S) /\ Len(f) = n
BY SeqDef

(* Writing a record makes the newest log longer and changes nothing else.  *)
LEMMA WriteRecordLogs ==
    ASSUME logs \in Seq(Log), logs # << >>, NEW r \in Record, WriteRecord(r)
    PROVE  /\ logs' \in Seq(Log)
           /\ Len(logs') = Len(logs)
           /\ \A i \in DOMAIN logs : i # Len(logs) => logs'[i] = logs[i]
           /\ logs'[Len(logs)].records = Append(Newest.records, r)
           /\ logs'[Len(logs)].synced = Newest.synced
<1> DEFINE grown == [records |-> Append(Newest.records, r),
                     synced |-> Newest.synced]
<1>1. Len(logs) \in 1..Len(logs) /\ Newest \in Log
  BY EmptySeq DEF Newest
<1>2. Newest.records \in Seq(Record) /\ Newest.synced \in Nat
  BY <1>1 DEF Log
<1>3. grown \in Log
  BY <1>2 DEF Log
<1>4. [Newest EXCEPT !.records = Append(@, r)] = grown
  <2> DEFINE longer == Append(Newest.records, r)
  <2> HIDE DEF longer
  <2>1. [Newest EXCEPT !.records = longer]
          = [records |-> longer, synced |-> Newest.synced]
    BY <1>1 DEF Log
  <2> QED
    BY <2>1 DEF longer
<1>5. logs' = [logs EXCEPT ![Len(logs)] = grown]
  BY <1>4 DEF WriteRecord, Newest
<1>6. /\ grown.records = Append(Newest.records, r)
      /\ grown.synced = Newest.synced
  OBVIOUS
<1> HIDE DEF grown
<1> QED
  BY <1>1, <1>3, <1>5, <1>6, ExceptSeq, LenProperties

(* A sync counts every record of the newest log as synced.                 *)
LEMMA SyncLogLogs ==
    ASSUME logs \in Seq(Log), logs # << >>, SyncLog
    PROVE  /\ logs' \in Seq(Log)
           /\ Len(logs') = Len(logs)
           /\ \A i \in DOMAIN logs : i # Len(logs) => logs'[i] = logs[i]
           /\ logs'[Len(logs)].records = Newest.records
           /\ logs'[Len(logs)].synced = Len(Newest.records)
<1> DEFINE all == [Newest EXCEPT !.synced = Len(Newest.records)]
<1>1. Len(logs) \in 1..Len(logs) /\ Newest \in Log
  BY EmptySeq DEF Newest
<1>2. /\ all \in Log
      /\ all.records = Newest.records
      /\ all.synced = Len(Newest.records)
  BY <1>1, SMTT(30) DEF Log
<1>3. logs' = [logs EXCEPT ![Len(logs)] = all]
  BY DEF SyncLog, Newest
<1> HIDE DEF all
<1> QED
  BY <1>1, <1>2, <1>3, ExceptSeq, LenProperties

(* A rotation adds an empty log behind the others.                         *)
LEMMA AddLogLogs ==
    ASSUME logs \in Seq(Log), logs' = Append(logs, EmptyLog)
    PROVE  /\ logs' \in Seq(Log)
           /\ Len(logs') = Len(logs) + 1
           /\ \A i \in DOMAIN logs : logs'[i] = logs[i]
           /\ logs'[Len(logs) + 1] = EmptyLog
<1>1. EmptyLog \in Log
  BY DEF EmptyLog, Log
<1> QED
  BY <1>1

(* Without one log the others move up.                                     *)
LEMMA WithoutLogLogs ==
    ASSUME logs \in Seq(Log), NEW i \in 1..(Len(logs) - 1),
           logs' = WithoutLog(i)
    PROVE  /\ logs' \in Seq(Log)
           /\ Len(logs') = Len(logs) - 1
           /\ \A j \in DOMAIN logs' :
                logs'[j] = IF j < i THEN logs[j] ELSE logs[j + 1]
<1> DEFINE n == Len(logs) - 1
<1>1. n \in Nat
  OBVIOUS
<1>2. logs' = [j \in 1..n |-> IF j < i THEN logs[j] ELSE logs[j + 1]]
  BY DEF WithoutLog
<1>3. \A j \in 1..n : j \in 1..Len(logs) /\ j + 1 \in 1..Len(logs)
  OBVIOUS
<1>4. logs' \in [1..n -> Log]
  BY <1>2, <1>3
<1> HIDE DEF n
<1>5. logs' \in Seq(Log) /\ Len(logs') = n
  BY <1>1, <1>4, FunctionIsSeq
<1> QED
  BY <1>2, <1>5 DEF n

(* After a power loss a prefix of every log is left, all of it synced.     *)
LEMMA CutLogs ==
    ASSUME logs \in Seq(Log), NEW c \in Cuts
    PROVE  /\ CutTo(c) \in Seq(Log)
           /\ Len(CutTo(c)) = Len(logs)
           /\ \A i \in DOMAIN logs :
                /\ logs[i].synced <= c[i] /\ c[i] <= Len(logs[i].records)
                /\ c[i] \in Nat
                /\ CutTo(c)[i].synced = c[i]
                /\ Len(CutTo(c)[i].records) = c[i]
                /\ \A j \in 1..c[i] :
                    CutTo(c)[i].records[j] = logs[i].records[j]
<1> DEFINE L(i) == [records |-> SubSeq(logs[i].records, 1, c[i]),
                    synced |-> c[i]]
<1>1. ASSUME NEW i \in DOMAIN logs
      PROVE  /\ logs[i].synced <= c[i] /\ c[i] <= Len(logs[i].records)
             /\ c[i] \in Nat
             /\ L(i) \in Log
             /\ L(i).synced = c[i]
             /\ Len(L(i).records) = c[i]
             /\ \A j \in 1..c[i] : L(i).records[j] = logs[i].records[j]
  <2>1. logs[i] \in Log
    OBVIOUS
  <2>2. logs[i].synced <= c[i] /\ c[i] <= Len(logs[i].records)
    BY DEF Cuts
  <2>3. c[i] \in Nat
    BY WALAssumption DEF Cuts
  <2> DEFINE s == logs[i].records
             k == c[i]
  <2>4. s \in Seq(Record) /\ k \in Nat /\ k <= Len(s)
    BY <2>1, <2>2, <2>3 DEF Log
  <2>5. L(i) = [records |-> SubSeq(s, 1, k), synced |-> k]
    OBVIOUS
  <2> HIDE DEF s, k, L
  <2>6. \A j \in 1..k : s[j] \in Record
    BY <2>4
  <2>7. /\ SubSeq(s, 1, k) \in Seq(Record)
        /\ Len(SubSeq(s, 1, k)) = k
        /\ \A j \in 1..k : SubSeq(s, 1, k)[j] = s[j]
    BY <2>4
  <2> QED
    BY <2>2, <2>3, <2>5, <2>7 DEF Log, s, k
<1>2. CutTo(c) = [i \in DOMAIN logs |-> L(i)]
  BY DEF CutTo
<1> HIDE DEF L
<1>3. CutTo(c) \in [1..Len(logs) -> Log]
  BY <1>1, <1>2
<1>4. CutTo(c) \in Seq(Log) /\ Len(CutTo(c)) = Len(logs)
  BY <1>3, FunctionIsSeq
<1>5. \A i \in DOMAIN logs : CutTo(c)[i] = L(i)
  BY <1>2
<1>6. ASSUME NEW i \in DOMAIN logs
      PROVE  /\ CutTo(c)[i].synced = c[i]
             /\ Len(CutTo(c)[i].records) = c[i]
             /\ \A j \in 1..c[i] :
                  CutTo(c)[i].records[j] = logs[i].records[j]
  <2>1. CutTo(c)[i] = L(i)
    BY <1>5
  <2> QED
    BY <1>1, <2>1
<1> QED
  BY <1>1, <1>4, <1>6

(* A part of the next record may follow the prefix of the newest log.      *)
LEMMA CutTornLogs ==
    ASSUME logs \in Seq(Log), logs # << >>, NEW c \in Cuts,
           logs' = [CutTo(c) EXCEPT
                      ![Len(logs)] = [records |-> Append(@.records, Torn),
                                      synced |-> @.synced + 1]]
    PROVE  /\ logs' \in Seq(Log)
           /\ Len(logs') = Len(logs)
           /\ \A i \in DOMAIN logs : i # Len(logs) => logs'[i] = CutTo(c)[i]
           /\ logs'[Len(logs)].synced = c[Len(logs)] + 1
           /\ logs'[Len(logs)].records =
                Append(CutTo(c)[Len(logs)].records, Torn)
<1> DEFINE n == Len(logs)
           cut == CutTo(c)
           torn == [records |-> Append(cut[n].records, Torn),
                    synced |-> cut[n].synced + 1]
<1>1. n \in 1..n /\ DOMAIN logs = 1..n
  BY EmptySeq
<1>2. cut \in Seq(Log) /\ Len(cut) = n
  BY CutLogs
<1>3. cut[n].synced = c[n] /\ cut[n] \in Log
  BY <1>1, <1>2, CutLogs
<1>4. logs' = [cut EXCEPT ![n] = torn]
  OBVIOUS
<1>5. torn \in Log
  BY <1>3 DEF Log, Torn, Record
<1>6. torn.synced = c[n] + 1 /\ torn.records = Append(cut[n].records, Torn)
  BY <1>3
<1> HIDE DEF torn, cut, n
<1>7. /\ logs' \in Seq(Log)
      /\ Len(logs') = Len(cut)
      /\ \A j \in 1..Len(cut) :
            logs'[j] = IF j = n THEN torn ELSE cut[j]
  <2>1. n \in 1..Len(cut)
    BY <1>1, <1>2
  <2> QED
    BY ONLY <1>2, <1>4, <1>5, <2>1, ExceptSeq
<1>8. logs'[n] = torn
  BY <1>1, <1>2, <1>7
<1>9. \A i \in DOMAIN logs : i # n => logs'[i] = cut[i]
  BY <1>1, <1>2, <1>7
<1>10. Len(logs') = n
  BY <1>2, <1>7
<1> QED
  BY <1>6, <1>7, <1>8, <1>9, <1>10 DEF cut, n

-----------------------------------------------------------------------------
(* Where the holder of the lock is *)

(* No log claims more synced records than it has.                          *)
SyncedInside == \A i \in DOMAIN logs : logs[i].synced <= Len(logs[i].records)

(* A log is open while the process runs; only a running process has a      *)
(* queue; what the holder of the lock has done fits where it stands.       *)
Shape ==
    /\ up => logs # << >>
    /\ ~up => lock = << >> /\ pendingWrites = << >>
    /\ lock = << >> => work.pc = "start"
    /\ work.pc = "start" => work = IdleWork
    /\ work.pc = "write" => work.done < Len(work.batch)
    /\ work.pc = "sync" => work.done = Len(work.batch)
    /\ work.pc = "rotate" => work.done = 0
    /\ work.pc \in {"rotate", "unlink"} => Holder = "checkpoint"

Base == TypeOK /\ SyncedInside /\ Shape

(* What a step may do to the logs when it deletes none.                    *)
LogsStay ==
    \/ logs' = logs
    \/ /\ logs = << >>
       /\ logs' = <<EmptyLog>>
    \/ /\ logs # << >>
       /\ \E r \in Record : WriteRecord(r) /\ (r = Torn \/ WriteEntry)
    \/ /\ logs # << >>
       /\ SyncLog
    \/ logs' = Append(logs, EmptyLog)
    \/ /\ logs # << >>
       /\ \E c \in Cuts :
            \/ logs' = CutTo(c)
            \/ /\ c[Len(logs)] < Len(Newest.records) \/ Batching
               /\ logs' = [CutTo(c) EXCEPT
                            ![Len(logs)] = [records |-> Append(@.records, Torn),
                                            synced |-> @.synced + 1]]

(* What a step may do to the logs.                                         *)
LogsMove ==
    \/ LogsStay
    \/ \E i \in 1..(Len(logs) - 1) : logs' = WithoutLog(i)

(* What a log is made of. *)
LEMMA LogFields ==
    \A l \in Log : l.records \in Seq(Record) /\ l.synced \in Nat
BY DEF Log

(* Torn is a record of its own. *)
LEMMA TornType == Torn \in Record
BY DEF Torn, Record

(* The record that is written next. *)
LEMMA NextRecord ==
    ASSUME Base, work.pc = "write"
    PROVE  /\ work.done + 1 \in 1..Len(work.batch)
           /\ work.batch[work.done + 1] \in Record
<1>1. work.batch \in Seq(Record) /\ work.done \in Nat
  BY DEF Base, TypeOK, Work
<1> QED
  BY <1>1 DEF Base, Shape

(* Every step moves the logs in one of these ways, and only a checkpoint   *)
(* deletes one.                                                            *)
LEMMA StepMovesLogs ==
    ASSUME Base, [Next]_vars
    PROVE  /\ LogsMove
           /\ LogsStay \/ Unlink
<1> USE DEF LogsMove, LogsStay
<1>1. CASE Open
  BY <1>1 DEF Open
<1>2. CASE WriteEntry
  <2>1. work.pc = "write" /\ logs # << >>
    BY <1>2 DEF WriteEntry, Holds, Base, Shape
  <2> QED
    BY <1>2, <2>1, NextRecord DEF WriteEntry
<1>3. CASE SyncBatch
  BY <1>3 DEF SyncBatch, Holds, Base, Shape
<1>4. CASE Rotate
  BY <1>4 DEF Rotate
<1>5. CASE Unlink
  <2>1. CASE logs' = logs
    BY <2>1
  <2>2. CASE logs' = WithoutLog(work.done + 1)
    <3>1. work.done \in Nat /\ logs \in Seq(Log)
      BY DEF Base, TypeOK, Work
    <3>2. work.done + 1 \in 1..(Len(logs) - 1)
      BY <1>5, <3>1 DEF Unlink
    <3> QED
      BY <1>5, <2>2, <3>2
  <2> QED
    BY <1>5, <2>1, <2>2 DEF Unlink
<1>6. CASE BatchFails
  BY <1>6, TornType DEF BatchFails, Holds, Base, Shape
<1>7. CASE PowerLoss
  <2>1. logs # << >>
    BY <1>7 DEF PowerLoss, Base, Shape
  <2>2. PICK c \in Cuts :
          \/ logs' = CutTo(c)
          \/ /\ c[Len(logs)] < Len(Newest.records) \/ Batching
             /\ logs' = [CutTo(c) EXCEPT
                            ![Len(logs)] = [records |-> Append(@.records, Torn),
                                            synced |-> @.synced + 1]]
    BY <1>7 DEF PowerLoss, Newest, Holds, Batching
  <2> QED
    BY <2>1, <2>2
<1>8. CASE Append_ \/ FlushTimer \/ CheckpointCall \/ Start
           \/ CheckpointDone \/ RotateFails
  BY <1>8 DEF Append_, FlushTimer, CheckpointCall, Start, CheckpointDone,
              RotateFails
<1>9. CASE CloseCall \/ CloseHandle \/ Exit \/ Quiescent \/ UNCHANGED vars
  BY <1>9 DEF CloseCall, CloseHandle, Exit, Quiescent, vars
<1> QED
  BY <1>1, <1>2, <1>3, <1>4, <1>5, <1>6, <1>7, <1>8, <1>9 DEF Next, Step

(* When only log n changes, only log n has to be looked at.                *)
LEMMA OneLogChanges ==
    ASSUME logs \in Seq(Log), SyncedInside, logs' \in Seq(Log),
           Len(logs') = Len(logs), NEW n,
           \A i \in DOMAIN logs : i # n => logs'[i].synced <= Len(logs'[i].records),
           logs'[n].synced <= Len(logs'[n].records)
    PROVE  SyncedInside'
<1>1. DOMAIN logs' = DOMAIN logs
  OBVIOUS
<1> QED
  BY <1>1 DEF SyncedInside

(* Whatever a step does to the logs, they keep their type.                 *)
LEMMA LogsKeepType ==
    ASSUME logs \in Seq(Log), SyncedInside, LogsMove
    PROVE  logs' \in Seq(Log) /\ SyncedInside'
<1> DEFINE n == Len(logs)
<1>1. CASE logs' = logs
  BY <1>1 DEF SyncedInside
<1>2. CASE logs = << >> /\ logs' = <<EmptyLog>>
  <2>1. EmptyLog \in Log /\ EmptyLog.synced = 0 /\ Len(EmptyLog.records) = 0
    BY DEF EmptyLog, Log
  <2> QED
    BY <1>2, <2>1 DEF SyncedInside
<1>3. ASSUME logs # << >>, NEW r \in Record, WriteRecord(r)
      PROVE  logs' \in Seq(Log) /\ SyncedInside'
  <2> DEFINE longer == Append(Newest.records, r)
  <2>1. Newest \in Log /\ n \in 1..n
    BY <1>3, EmptySeq DEF Newest
  <2>2. Newest.synced <= Len(Newest.records)
    BY <2>1 DEF SyncedInside, Newest
  <2>3. \A s \in Seq(Record) : Len(Append(s, r)) = Len(s) + 1
    OBVIOUS
  <2>4. Newest.records \in Seq(Record) /\ Newest.synced \in Nat
    BY <2>1 DEF Log
  <2>5. Newest.synced <= Len(longer)
    BY <2>2, <2>3, <2>4
  <2>6. /\ logs' \in Seq(Log) /\ Len(logs') = n
        /\ \A i \in DOMAIN logs : i # n => logs'[i] = logs[i]
        /\ logs'[n].records = longer
        /\ logs'[n].synced = Newest.synced
    BY <1>3, WriteRecordLogs
  <2> HIDE DEF longer
  <2>7. logs'[n].synced <= Len(logs'[n].records)
    BY <2>5, <2>6
  <2>8. \A i \in DOMAIN logs : i # n =>
            logs'[i].synced <= Len(logs'[i].records)
    BY <2>6 DEF SyncedInside
  <2> QED
    BY <2>6, <2>7, <2>8, OneLogChanges
<1>4. CASE logs # << >> /\ SyncLog
  <2>1. Newest \in Log
    BY <1>4, EmptySeq DEF Newest
  <2>2. /\ logs' \in Seq(Log) /\ Len(logs') = n
        /\ \A i \in DOMAIN logs : i # n => logs'[i] = logs[i]
        /\ logs'[n].records = Newest.records
        /\ logs'[n].synced = Len(Newest.records)
    BY <1>4, SyncLogLogs
  <2>3. logs'[n].synced <= Len(logs'[n].records)
    BY <2>1, <2>2 DEF Log
  <2>4. \A i \in DOMAIN logs : i # n =>
            logs'[i].synced <= Len(logs'[i].records)
    BY <2>2 DEF SyncedInside
  <2> QED
    BY <2>2, <2>3, <2>4, OneLogChanges
<1>5. CASE logs' = Append(logs, EmptyLog)
  <2>1. EmptyLog.synced = 0 /\ Len(EmptyLog.records) = 0
    BY DEF EmptyLog
  <2> QED
    BY <1>5, <2>1, AddLogLogs DEF SyncedInside
<1>6. ASSUME NEW i \in 1..(Len(logs) - 1), logs' = WithoutLog(i)
      PROVE  logs' \in Seq(Log) /\ SyncedInside'
  BY <1>6, WithoutLogLogs, SMTT(30) DEF SyncedInside
<1>7. ASSUME NEW c \in Cuts, logs' = CutTo(c)
      PROVE  logs' \in Seq(Log) /\ SyncedInside'
  BY <1>7, CutLogs DEF SyncedInside
<1>8. ASSUME logs # << >>, NEW c \in Cuts,
             logs' = [CutTo(c) EXCEPT
                        ![Len(logs)] = [records |-> Append(@.records, Torn),
                                        synced |-> @.synced + 1]]
      PROVE  logs' \in Seq(Log) /\ SyncedInside'
  <2>1. n \in 1..n /\ DOMAIN logs = 1..n
    BY <1>8, EmptySeq
  <2>2. CutTo(c)[n] \in Log /\ Len(CutTo(c)[n].records) = c[n]
    BY <2>1, CutLogs
  <2>3. \A s \in Seq(Record) : Len(Append(s, Torn)) = Len(s) + 1
    OBVIOUS
  <2>4. Len(Append(CutTo(c)[n].records, Torn)) = c[n] + 1
    BY <2>2, <2>3 DEF Log
  <2>5. ASSUME NEW i \in DOMAIN logs, i # n
        PROVE  logs'[i].synced <= Len(logs'[i].records)
    <3>1. logs'[i] = CutTo(c)[i]
      BY <1>8, <2>5, CutTornLogs
    <3> QED
      BY <3>1, CutLogs
  <2>6. /\ logs' \in Seq(Log) /\ Len(logs') = n
        /\ logs'[n].synced = c[n] + 1
        /\ logs'[n].records = Append(CutTo(c)[n].records, Torn)
    BY <1>8, CutTornLogs
  <2>7. logs'[n].synced <= Len(logs'[n].records)
    BY <2>1, <2>4, <2>6, CutLogs
  <2> QED
    BY <2>5, <2>6, <2>7, OneLogChanges
<1> QED
  BY <1>1, <1>2, <1>3, <1>4, <1>5, <1>6, <1>7, <1>8 DEF LogsMove, LogsStay

(* The first state has nothing. *)
LEMMA InitBase == Init => Base
<1> SUFFICES ASSUME Init PROVE Base
  OBVIOUS
<1>1. IdleWork \in Work /\ IdleWork.pc = "start"
  BY DEF IdleWork, Work
<1>2. TypeOK
  BY <1>1, EmptySeq DEF Init, TypeOK
<1>3. SyncedInside /\ Shape
  BY <1>1 DEF Init, SyncedInside, Shape
<1> QED
  BY <1>2, <1>3 DEF Base

(* Spending a bound keeps the counters numbers. *)
LEMMA SpendType ==
    ASSUME TypeOK, NEW b \in Bounds, Spend(b)
    PROVE  used' \in [Bounds -> Nat]
BY DEF TypeOK, Spend

(* Who holds the lock next, and where it starts. *)
LEMMA ReleaseType ==
    ASSUME Base, lock # << >>, Release
    PROVE  /\ lock' \in Seq(Actor)
           /\ work' = IdleWork /\ work' \in Work
           /\ closing' \in {"no", "flush", "stop", "closed"}
BY DEF Base, TypeOK, Release, IdleWork, Work

(* A process that ended remembers nothing. *)
LEMMA LoseMemoryShape ==
    ASSUME Base, LoseMemory, logs' \in Seq(Log), calls' = calls,
           acked' = acked, retired' = retired, used' \in [Bounds -> Nat]
    PROVE  TypeOK' /\ Shape'
<1>1. IdleWork \in Work /\ IdleWork.pc = "start"
  BY DEF IdleWork, Work
<1>2. TypeOK'
  BY <1>1, EmptySeq DEF LoseMemory, Base, TypeOK
<1>3. Shape'
  BY <1>1 DEF LoseMemory, Shape
<1> QED
  BY <1>2, <1>3

(* A flusher is somebody who can hold the lock. *)
LEMMA FlusherType ==
    ASSUME NEW k \in {"flush", "checkpoint", "close"}
    PROVE  Flusher(k) \in Actor /\ Flusher(k).kind = k
BY TornType DEF Flusher, Actor

(* Standing in line behind the others disturbs nobody. *)
LEMMA AcquireShape ==
    ASSUME Base, up, NEW a \in Actor, Acquire(a),
           up' = up, logs' = logs, work' = work
    PROVE  lock' \in Seq(Actor) /\ Shape'
<1>1. lock' \in Seq(Actor) /\ lock' # << >>
  BY DEF Base, TypeOK, Acquire
<1>2. lock # << >> => Head(lock') = Head(lock)
  BY DEF Base, TypeOK, Acquire
<1> QED
  BY <1>1, <1>2 DEF Base, Shape, Holder, IdleWork

(* What append() hands over. *)
LEMMA AppendBase ==
    ASSUME Base, Append_
    PROVE  TypeOK' /\ Shape'
<1> DEFINE record == [id |-> calls + 1, seq |-> sequenceId]
           a == [kind |-> "write", record |-> record]
<1>1. record \in Record /\ a \in Actor
  BY DEF Base, TypeOK, Record, Actor
<1>2. up /\ up' = up /\ logs' = logs /\ work' = work
  BY DEF Append_
<1>3. CASE everyWrite
  <2>1. Acquire(a) /\ pendingWrites' = pendingWrites
    BY <1>3 DEF Append_
  <2>2. lock' \in Seq(Actor) /\ Shape'
    BY <1>1, <1>2, <2>1, AcquireShape
  <2> QED
    BY <2>1, <2>2 DEF Append_, Base, TypeOK
<1>4. CASE ~everyWrite
  <2>1. pendingWrites' = Append(pendingWrites, record)
    BY <1>4 DEF Append_
  <2>2. pendingWrites' \in Seq(Record)
    BY <1>1, <2>1 DEF Base, TypeOK
  <2>3. lock' \in Seq(Actor) /\ Shape'
    <3>1. CASE Acquire(Flusher("flush"))
      BY <1>2, <3>1, FlusherType, AcquireShape
    <3>2. CASE lock' = lock
      BY <1>2, <3>2 DEF Base, TypeOK, Shape, Holder
    <3> QED
      BY <1>4, <3>1, <3>2 DEF Append_
  <2> QED
    BY <2>2, <2>3 DEF Append_, Base, TypeOK
<1> QED
  BY <1>3, <1>4

(* The timer, checkpoint() and close() stand in line. *)
LEMMA CallsBase ==
    ASSUME Base, FlushTimer \/ CheckpointCall \/ CloseCall
    PROVE  TypeOK' /\ Shape'
<1>1. CASE FlushTimer
  <2>1. lock' \in Seq(Actor) /\ Shape'
    BY <1>1, FlusherType, AcquireShape DEF FlushTimer
  <2> QED
    BY <1>1, <2>1 DEF FlushTimer, Base, TypeOK
<1>2. CASE CheckpointCall
  <2>1. lock' \in Seq(Actor) /\ Shape'
    BY <1>2, FlusherType, AcquireShape DEF CheckpointCall
  <2>2. used' \in [Bounds -> Nat]
    BY <1>2, SpendType DEF CheckpointCall, Base, Bounds
  <2> QED
    BY <1>2, <2>1, <2>2 DEF CheckpointCall, Base, TypeOK
<1>3. CASE CloseCall
  <2>1. used' \in [Bounds -> Nat]
    BY <1>3, SpendType DEF CloseCall, Base, Bounds
  <2>2. lock' \in Seq(Actor) /\ Shape'
    <3>1. CASE Acquire(Flusher("close"))
      BY <1>3, <3>1, FlusherType, AcquireShape DEF CloseCall
    <3>2. CASE lock' = lock
      BY <1>3, <3>2 DEF CloseCall, Base, TypeOK, Shape, Holder
    <3> QED
      BY <1>3, <3>1, <3>2 DEF CloseCall
  <2> QED
    BY <1>3, <2>1, <2>2 DEF CloseCall, Base, TypeOK
<1> QED
  BY <1>1, <1>2, <1>3

(* Letting the next one in leaves the queue in shape. *)
LEMMA ReleaseShape ==
    ASSUME Base, up, lock # << >>, Release, up' = up, logs' # << >>
    PROVE  Shape'
<1>1. work' = IdleWork /\ work'.pc = "start"
  BY DEF Release, IdleWork
<1> QED
  BY <1>1 DEF Shape

(* The holder takes its batch, or has nothing to write. *)
LEMMA StartBase ==
    ASSUME Base, Start
    PROVE  TypeOK' /\ Shape'
<1>1. work = IdleWork /\ up /\ lock # << >> /\ up' = up /\ logs' = logs
  BY DEF Start, Holds, Base, Shape
<1>2. logs # << >> /\ Head(lock) \in Actor /\ lock \in Seq(Actor)
  BY <1>1 DEF Base, Shape, TypeOK
<1>3. CASE Holder = "write" /\ lock' = lock /\ closing' = closing
           /\ pendingWrites' = pendingWrites
           /\ work' = [work EXCEPT !.pc = "write",
                                   !.batch = <<Head(lock).record>>]
  <2>1. Head(lock).record \in Record
    BY <1>2 DEF Actor
  <2>2. work' = [pc |-> "write", batch |-> <<Head(lock).record>>, done |-> 0]
    BY <1>1, <1>3 DEF IdleWork
  <2>3. work' \in Work
    BY <2>1, <2>2 DEF Work
  <2>4. work'.pc = "write" /\ work'.done = 0 /\ Len(work'.batch) = 1
    BY <2>2
  <2>5. Shape'
    BY <1>1, <1>2, <1>3, <2>4 DEF Shape, Start, Base
  <2> QED
    BY <1>3, <2>3, <2>5 DEF Start, Base, TypeOK
<1>4. CASE pendingWrites # << >> /\ TakeBatch /\ lock' = lock
           /\ closing' = closing
  <2>1. work' = [pc |-> "write", batch |-> pendingWrites, done |-> 0]
    BY <1>1, <1>4 DEF TakeBatch, IdleWork
  <2>2. work' \in Work /\ 0 < Len(pendingWrites)
    BY <1>4, <2>1 DEF Work, Base, TypeOK
  <2>3. pendingWrites' \in Seq(Record)
    BY <1>4, EmptySeq DEF TakeBatch
  <2>4. Shape'
    BY <1>1, <1>2, <1>4, <2>1, <2>2 DEF Shape
  <2> QED
    BY <1>4, <2>2, <2>3, <2>4 DEF Start, Base, TypeOK
<1>5. CASE Holder = "checkpoint" /\ work' = [work EXCEPT !.pc = "rotate"]
           /\ lock' = lock /\ closing' = closing
           /\ pendingWrites' = pendingWrites
  <2>1. work' = [pc |-> "rotate", batch |-> << >>, done |-> 0]
    BY <1>1, <1>5 DEF IdleWork
  <2>2. work' \in Work
    BY <2>1, EmptySeq DEF Work
  <2>3. Shape'
    BY <1>1, <1>2, <1>5, <2>1 DEF Shape, Holder
  <2> QED
    BY <1>5, <2>2, <2>3 DEF Start, Base, TypeOK
<1>6. CASE Release /\ pendingWrites' = pendingWrites
  <2>1. /\ lock' \in Seq(Actor) /\ work' \in Work
        /\ closing' \in {"no", "flush", "stop", "closed"}
    BY <1>1, <1>6, ReleaseType
  <2>2. Shape'
    BY <1>1, <1>2, <1>6, ReleaseShape
  <2> QED
    BY <1>6, <2>1, <2>2 DEF Start, Base, TypeOK
<1> QED
  BY <1>3, <1>4, <1>5, <1>6 DEF Start

(* One record of the batch is written. *)
LEMMA WriteEntryBase ==
    ASSUME Base, WriteEntry, logs' \in Seq(Log), logs' # << >>
    PROVE  TypeOK' /\ Shape'
<1> DEFINE next == IF work.done + 1 = Len(work.batch) THEN "sync" ELSE "write"
<1>1. /\ work \in Work /\ work.done \in Nat /\ work.batch \in Seq(Record)
      /\ work.done + 1 <= Len(work.batch)
      /\ up /\ lock # << >>
  BY DEF Base, TypeOK, Shape, Work, WriteEntry, Holds
<1>2. work' = [work EXCEPT !.done = @ + 1, !.pc = next]
  BY DEF WriteEntry
<1>3. /\ next \in {"write", "sync"}
      /\ next = "sync" <=> work.done + 1 = Len(work.batch)
  OBVIOUS
<1>4. /\ work' \in Work /\ work'.pc = next /\ work'.batch = work.batch
      /\ work'.done = work.done + 1
  <2> DEFINE done == work.done + 1
  <2>1. done \in Nat
    BY <1>1
  <2>2. work' = [work EXCEPT !.done = done, !.pc = next]
    BY <1>2
  <2> HIDE DEF next, done
  <2>3. work' \in Work
    BY ONLY <1>1, <1>3, <2>1, <2>2 DEF Work
  <2>4. work'.pc = next /\ work'.batch = work.batch /\ work'.done = done
    BY ONLY <1>1, <2>2 DEF Work
  <2> QED
    BY <2>3, <2>4 DEF done
<1>5. Shape'
  <2> HIDE DEF next
  <2>1. work'.pc = "write" => work'.done < Len(work'.batch)
    BY <1>1, <1>3, <1>4
  <2> QED
    BY <1>1, <1>3, <1>4, <2>1 DEF Shape, WriteEntry, Base
<1> QED
  BY <1>4, <1>5 DEF WriteEntry, Base, TypeOK

(* The batch is synced; checkpoint() goes on, the others are done. *)
LEMMA SyncBatchBase ==
    ASSUME Base, SyncBatch, logs' \in Seq(Log), logs' # << >>
    PROVE  TypeOK' /\ Shape'
<1>1. up /\ lock # << >> /\ up' = up
  BY DEF SyncBatch, Holds
<1>2. work.batch \in Seq(Record)
  BY DEF Base, TypeOK, Work
<1>3. Ids(work.batch) \subseteq Nat
  <2>1. \A i \in DOMAIN work.batch : work.batch[i] \in Record
    BY <1>2
  <2> QED
    BY <2>1 DEF Ids, Record
<1>4. acked' \subseteq Nat
  BY <1>3 DEF SyncBatch, Base, TypeOK
<1>5. CASE Holder = "checkpoint" /\ work' = [IdleWork EXCEPT !.pc = "rotate"]
           /\ lock' = lock /\ closing' = closing
  <2>1. work' = [pc |-> "rotate", batch |-> << >>, done |-> 0]
    BY <1>5 DEF IdleWork
  <2>2. work' \in Work
    BY <2>1, EmptySeq DEF Work
  <2>3. Shape'
    BY <1>1, <1>5, <2>1 DEF Shape, Holder
  <2> QED
    BY <1>4, <1>5, <2>2, <2>3 DEF SyncBatch, Base, TypeOK
<1>6. CASE Release
  <2>1. /\ lock' \in Seq(Actor) /\ work' \in Work
        /\ closing' \in {"no", "flush", "stop", "closed"}
    BY <1>1, <1>6, ReleaseType
  <2>2. Shape'
    BY <1>1, <1>6, ReleaseShape
  <2> QED
    BY <1>4, <2>1, <2>2 DEF SyncBatch, Base, TypeOK
<1> QED
  BY <1>5, <1>6 DEF SyncBatch

(* The steps of a checkpoint. *)
LEMMA CheckpointBase ==
    ASSUME Base, Rotate \/ Unlink \/ CheckpointDone \/ RotateFails,
           logs' \in Seq(Log), logs' # << >>
    PROVE  TypeOK' /\ Shape'
<1>1. up /\ lock # << >> /\ up' = up /\ work \in Work /\ work.done \in Nat
  BY DEF Rotate, Unlink, CheckpointDone, RotateFails, Holds, Base, TypeOK, Work
<1>2. CASE Rotate
  <2>1. work' \in Work /\ work'.pc = "unlink"
    BY <1>1, <1>2 DEF Rotate, Work
  <2>2. Shape'
    BY <1>1, <1>2, <2>1 DEF Rotate, Holds, Base, Shape, Holder
  <2> QED
    BY <1>2, <2>1, <2>2 DEF Rotate, Base, TypeOK
<1>3. CASE Unlink
  <2>1. work' \in Work /\ work'.pc = "unlink"
    BY <1>1, <1>3 DEF Unlink, Holds, Work
  <2>2. Shape'
    BY <1>1, <1>3, <2>1 DEF Unlink, Holds, Base, Shape, Holder
  <2>3. used' \in [Bounds -> Nat]
    BY <1>3, SpendType DEF Unlink, Base, TypeOK, Bounds
  <2> QED
    BY <1>3, <2>1, <2>2, <2>3 DEF Unlink, Base, TypeOK
<1>4. CASE CheckpointDone \/ RotateFails
  <2>1. Release
    BY <1>4 DEF CheckpointDone, RotateFails
  <2>2. /\ lock' \in Seq(Actor) /\ work' \in Work
        /\ closing' \in {"no", "flush", "stop", "closed"}
    BY <1>1, <2>1, ReleaseType
  <2>3. Shape'
    BY <1>1, <2>1, ReleaseShape
  <2>4. used' \in [Bounds -> Nat]
    BY <1>4, SpendType DEF CheckpointDone, RotateFails, Base, TypeOK, Bounds
  <2> QED
    BY <1>4, <2>2, <2>3, <2>4 DEF CheckpointDone, RotateFails, Base, TypeOK
<1> QED
  BY <1>2, <1>3, <1>4

(* No step leaves a running process without a log. *)
LEMMA LogsStayOpen ==
    ASSUME Base, LogsMove, logs # << >>
    PROVE  logs' # << >>
<1>1. logs \in Seq(Log) /\ Len(logs) >= 1
  BY DEF Base, TypeOK
<1>2. Len(logs') >= 1
  <2>1. CASE logs' = logs
    BY <1>1, <2>1
  <2>2. ASSUME NEW r \in Record, WriteRecord(r)
        PROVE  Len(logs') >= 1
    BY <1>1, <2>2, WriteRecordLogs
  <2>3. CASE SyncLog
    BY <1>1, <2>3, SyncLogLogs
  <2>4. CASE logs' = Append(logs, EmptyLog)
    BY <1>1, <2>4, AddLogLogs
  <2>5. ASSUME NEW i \in 1..(Len(logs) - 1), logs' = WithoutLog(i)
        PROVE  Len(logs') >= 1
    BY <1>1, <2>5, WithoutLogLogs
  <2>6. ASSUME NEW c \in Cuts, logs' = CutTo(c)
        PROVE  Len(logs') >= 1
    BY <1>1, <2>6, CutLogs
  <2>7. ASSUME NEW c \in Cuts,
               logs' = [CutTo(c) EXCEPT
                          ![Len(logs)] = [records |-> Append(@.records, Torn),
                                          synced |-> @.synced + 1]]
        PROVE  Len(logs') >= 1
    BY <1>1, <2>7, CutTornLogs
  <2> QED
    BY <2>1, <2>2, <2>3, <2>4, <2>5, <2>6, <2>7 DEF LogsMove, LogsStay
<1> QED
  BY <1>2

(* open() goes on with a number. *)
LEMMA NextSequenceIdType ==
    ASSUME NEW l \in Log
    PROVE  NextSequenceId(l) \subseteq Nat
<1>1. l.records \in Seq(Record)
  BY DEF Log
<1>2. \A j \in DOMAIN l.records : l.records[j].seq + 1 \in Nat
  <2>1. \A j \in DOMAIN l.records : l.records[j] \in Record
    BY <1>1
  <2> QED
    BY <2>1 DEF Record
<1> QED
  BY <1>2 DEF NextSequenceId

(* open() *)
LEMMA OpenBase ==
    ASSUME Base, Open, logs' \in Seq(Log)
    PROVE  TypeOK' /\ Shape'
<1>1. logs' # << >>
  BY DEF Open
<1>2. sequenceId' \in Nat
  <2>1. logs # << >> => logs[Len(logs)] \in Log
    BY EmptySeq DEF Base, TypeOK
  <2> QED
    BY <2>1, NextSequenceIdType DEF Open
<1>3. TypeOK'
  BY <1>2 DEF Open, Base, TypeOK
<1>4. Shape'
  BY <1>1 DEF Open, Base, Shape, Holder
<1> QED
  BY <1>3, <1>4

(* A batch fails; the process goes on or ends. *)
LEMMA BatchFailsBase ==
    ASSUME Base, BatchFails, logs' \in Seq(Log), logs' # << >>
    PROVE  TypeOK' /\ Shape'
<1>1. up /\ lock # << >>
  BY DEF BatchFails, Holds
<1>2. used' \in [Bounds -> Nat]
  <2>1. CASE used' = [used EXCEPT !["faults"] = @ + 1, !["torn"] = @ + 1]
    <3>1. /\ used \in [Bounds -> Nat]
          /\ used["faults"] + 1 \in Nat /\ used["torn"] + 1 \in Nat
      BY DEF Base, TypeOK, Bounds
    <3> QED
      BY <2>1, <3>1
  <2>2. CASE Spend("faults")
    BY <2>2, SpendType DEF Base, Bounds
  <2>3. CASE used' = used
    BY <2>3 DEF Base, TypeOK
  <2>4. \/ used' = used \/ Spend("faults")
        \/ used' = [used EXCEPT !["faults"] = @ + 1, !["torn"] = @ + 1]
    BY DEF BatchFails
  <2> QED
    BY <2>1, <2>2, <2>3, <2>4
<1>3. CASE Release /\ UNCHANGED <<up, everyWrite, handle, sequenceId,
                                  pendingWrites>>
  <2>1. /\ lock' \in Seq(Actor) /\ work' \in Work
        /\ closing' \in {"no", "flush", "stop", "closed"}
    BY <1>1, <1>3, ReleaseType
  <2>2. Shape'
    BY <1>1, <1>3, ReleaseShape
  <2> QED
    BY <1>2, <1>3, <2>1, <2>2 DEF BatchFails, Base, TypeOK
<1>4. CASE LoseMemory
  BY <1>2, <1>4, LoseMemoryShape DEF BatchFails
<1> QED
  BY <1>3, <1>4 DEF BatchFails

(* The process ends. *)
LEMMA EndBase ==
    ASSUME Base, PowerLoss \/ Exit \/ CloseHandle, logs' \in Seq(Log)
    PROVE  TypeOK' /\ Shape'
<1>1. CASE PowerLoss
  <2>1. used' \in [Bounds -> Nat]
    <3>1. CASE used' = [used EXCEPT !["restarts"] = @ + 1, !["torn"] = @ + 1]
      BY <3>1, SMTT(30) DEF Base, TypeOK, Bounds
    <3>2. CASE Spend("restarts")
      BY <3>2, SpendType DEF Base, Bounds
    <3> QED
      BY <1>1, <3>1, <3>2 DEF PowerLoss
  <2> QED
    BY <1>1, <2>1, LoseMemoryShape DEF PowerLoss
<1>2. CASE Exit
  BY <1>2, LoseMemoryShape DEF Exit, Base, TypeOK
<1>3. CASE CloseHandle
  BY <1>3 DEF CloseHandle, Base, TypeOK, Shape, Holder
<1> QED
  BY <1>1, <1>2, <1>3

(* Base is inductive. *)
LEMMA NextBase == Base /\ [Next]_vars => Base'
<1> SUFFICES ASSUME Base, [Next]_vars PROVE Base'
  OBVIOUS
<1>1. LogsMove
  BY StepMovesLogs
<1>2. logs' \in Seq(Log) /\ SyncedInside'
  BY <1>1, LogsKeepType DEF Base, TypeOK
<1>3. up => logs' # << >>
  BY <1>1, LogsStayOpen DEF Base, Shape
<1>4. TypeOK' /\ Shape'
  <2>1. CASE Open
    BY <1>2, <2>1, OpenBase
  <2>2. CASE Append_
    BY <2>2, AppendBase
  <2>3. CASE FlushTimer \/ CheckpointCall \/ CloseCall
    BY <2>3, CallsBase
  <2>4. CASE Start
    BY <2>4, StartBase
  <2>5. CASE WriteEntry
    BY <1>2, <1>3, <2>5, WriteEntryBase DEF WriteEntry, Holds
  <2>6. CASE SyncBatch
    BY <1>2, <1>3, <2>6, SyncBatchBase DEF SyncBatch, Holds
  <2>7. CASE Rotate \/ Unlink \/ CheckpointDone \/ RotateFails
    <3>1. up
      BY <2>7 DEF Rotate, Unlink, CheckpointDone, RotateFails, Holds
    <3> QED
      BY <1>2, <1>3, <2>7, <3>1, CheckpointBase
  <2>8. CASE BatchFails
    BY <1>2, <1>3, <2>8, BatchFailsBase DEF BatchFails, Holds
  <2>9. CASE PowerLoss \/ Exit \/ CloseHandle
    BY <1>2, <2>9, EndBase
  <2>10. CASE Quiescent \/ UNCHANGED vars
    <3>1. UNCHANGED vars
      BY <2>10 DEF Quiescent
    <3>2. UNCHANGED <<up, logs, everyWrite, handle, sequenceId, pendingWrites,
                      lock, work, closing, calls, acked, retired, used>>
      BY <3>1 DEF vars, memory
    <3>3. TypeOK'
      BY <3>2 DEF Base, TypeOK
    <3>4. Shape'
      BY <3>2 DEF Base, Shape, Holder
    <3> QED
      BY <3>3, <3>4
  <2> QED
    BY <2>1, <2>2, <2>3, <2>4, <2>5, <2>6, <2>7, <2>8, <2>9, <2>10
       DEF Next, Step
<1> QED
  BY <1>2, <1>4 DEF Base

(* The log is always in shape. *)
LEMMA BaseHolds == Spec => []Base
BY InitBase, NextBase, PTL DEF Spec

(* Type correctness: whatever appends, timers, checkpoints, failing writes, *)
(* power losses and shutdowns do, every variable keeps its type; a batch   *)
(* is never read beyond its end and a log never counts more records as     *)
(* synced than it has.                                                     *)
THEOREM WALTypeCorrect == Spec => []TypeOK
<1>1. Base => TypeOK
  BY DEF Base
<1> QED
  BY <1>1, BaseHolds, PTL

-----------------------------------------------------------------------------
(* What was acknowledged is on the disk *)

(* Append id is in the synced part of a log.                               *)
Synced(id) ==
    \E i \in DOMAIN logs : \E j \in 1..logs[i].synced :
        logs[i].records[j].id = id

(* The first work.done records of the batch are in the newest log.         *)
Written ==
    Batching =>
        \A k \in 1..work.done : \E j \in DOMAIN Newest.records :
            Newest.records[j] = work.batch[k]

(* Logs are deleted when everything acknowledged has been retired.         *)
RetiredFirst == work.pc = "unlink" => acked \subseteq retired

DurableInv == Written /\ RetiredFirst /\ AckedDurable

(* In other words. *)
LEMMA AckedDurableSynced ==
    AckedDurable <=> \A id \in acked \ retired : Synced(id)
BY DEF AckedDurable, Synced

(* What is synced stays when one log changes at its end only.              *)
LEMMA SyncedInOneLog ==
    ASSUME logs \in Seq(Log), SyncedInside,
           Len(logs') >= Len(logs), NEW n,
           \A i \in DOMAIN logs : i # n => logs'[i] = logs[i],
           n \in DOMAIN logs =>
             /\ logs'[n].synced \in Nat /\ logs[n].synced <= logs'[n].synced
             /\ \A j \in 1..logs[n].synced :
                    logs'[n].records[j] = logs[n].records[j],
           logs' \in Seq(Log),
           NEW id, Synced(id)
    PROVE  Synced(id)'
<1>0. PICK i \in DOMAIN logs : \E j \in 1..logs[i].synced :
        logs[i].records[j].id = id
  BY DEF Synced
<1>1. PICK j \in 1..logs[i].synced : logs[i].records[j].id = id
  BY <1>0
<1>2. i \in DOMAIN logs' /\ logs[i] \in Log
  OBVIOUS
<1>3. logs[i].synced \in Nat
  BY <1>2, LogFields
<1>4. j \in 1..logs'[i].synced /\ logs'[i].records[j].id = id
  <2>1. CASE i = n
    BY <1>1, <1>3, <2>1
  <2>2. CASE i # n
    BY <1>1, <2>2
  <2> QED
    BY <2>1, <2>2
<1> QED
  BY <1>2, <1>4 DEF Synced

(* What is synced stays as long as no log is deleted. *)
LEMMA SyncedStays ==
    ASSUME logs \in Seq(Log), SyncedInside, LogsStay, NEW id, Synced(id)
    PROVE  Synced(id)'
<1> DEFINE n == Len(logs)
<1>0. logs' \in Seq(Log)
  BY LogsKeepType DEF LogsMove
<1>1. n \in DOMAIN logs /\ Newest \in Log /\ Newest.synced <= Len(Newest.records)
  <2>1. DOMAIN logs # {}
    BY DEF Synced
  <2>2. n \in DOMAIN logs
    BY <2>1
  <2> QED
    BY <2>2 DEF SyncedInside, Newest
<1>2. Newest.records \in Seq(Record) /\ Newest.synced \in Nat
  BY <1>1 DEF Log
<1>3. CASE logs' = logs
  BY <1>3 DEF Synced
<1>4. ASSUME NEW r \in Record, WriteRecord(r), logs # << >>
      PROVE  Synced(id)'
  <2> DEFINE longer == Append(Newest.records, r)
  <2>1. \A s \in Seq(Record) : \A j \in 1..Len(s) : Append(s, r)[j] = s[j]
    OBVIOUS
  <2>2. \A j \in 1..Newest.synced : longer[j] = Newest.records[j]
    BY <1>1, <1>2, <2>1
  <2>3. /\ Len(logs') = n
        /\ \A i \in DOMAIN logs : i # n => logs'[i] = logs[i]
        /\ logs'[n].records = longer
        /\ logs'[n].synced = Newest.synced
    BY <1>4, WriteRecordLogs
  <2> HIDE DEF longer
  <2>4. /\ logs'[n].synced \in Nat /\ logs[n].synced <= logs'[n].synced
        /\ \A j \in 1..logs[n].synced :
               logs'[n].records[j] = logs[n].records[j]
    BY <1>2, <2>2, <2>3 DEF Newest
  <2>5. Len(logs') >= Len(logs)
    BY <2>3
  <2> HIDE DEF n
  <2> QED
    BY <1>0, <2>3, <2>4, <2>5, SyncedInOneLog
<1>5. CASE SyncLog /\ logs # << >>
  <2>1. /\ Len(logs') = n
        /\ \A i \in DOMAIN logs : i # n => logs'[i] = logs[i]
        /\ logs'[n].records = Newest.records
        /\ logs'[n].synced = Len(Newest.records)
    BY <1>5, SyncLogLogs
  <2>2. /\ logs'[n].synced \in Nat /\ logs[n].synced <= logs'[n].synced
        /\ \A j \in 1..logs[n].synced :
               logs'[n].records[j] = logs[n].records[j]
    BY <1>1, <1>2, <2>1 DEF Newest
  <2> QED
    BY <1>0, <2>1, <2>2, SyncedInOneLog
<1>6. CASE logs' = Append(logs, EmptyLog)
  <2>1. Len(logs') = n + 1 /\ \A i \in DOMAIN logs : logs'[i] = logs[i]
    BY <1>6, AddLogLogs
  <2>2. n + 1 \notin DOMAIN logs
    OBVIOUS
  <2> QED
    BY <1>0, <2>1, <2>2, SyncedInOneLog
<1>7a. PICK i \in DOMAIN logs : \E j \in 1..logs[i].synced :
        logs[i].records[j].id = id
  BY DEF Synced
<1>7. PICK j \in 1..logs[i].synced : logs[i].records[j].id = id
  BY <1>7a
<1>8. logs[i] \in Log /\ logs[i].synced \in Nat
  BY LogFields
<1>9. ASSUME NEW c \in Cuts, logs' = CutTo(c)
      PROVE  Synced(id)'
  <2>1. /\ i \in DOMAIN logs' /\ logs'[i].synced = c[i] /\ c[i] \in Nat
        /\ logs[i].synced <= c[i]
        /\ \A k \in 1..c[i] : logs'[i].records[k] = logs[i].records[k]
    BY <1>9, CutLogs
  <2> QED
    BY <1>7, <1>8, <2>1 DEF Synced
<1>10. ASSUME logs # << >>, NEW c \in Cuts,
              logs' = [CutTo(c) EXCEPT
                         ![Len(logs)] = [records |-> Append(@.records, Torn),
                                         synced |-> @.synced + 1]]
       PROVE  Synced(id)'
  <2>1. /\ CutTo(c)[i].synced = c[i] /\ c[i] \in Nat
        /\ logs[i].synced <= c[i] /\ Len(CutTo(c)[i].records) = c[i]
        /\ \A k \in 1..c[i] : CutTo(c)[i].records[k] = logs[i].records[k]
    BY CutLogs
  <2>2. /\ Len(logs') = n
        /\ i # n => logs'[i] = CutTo(c)[i]
        /\ logs'[n].synced = c[n] + 1
        /\ logs'[n].records = Append(CutTo(c)[n].records, Torn)
    BY <1>10, CutTornLogs
  <2>3. i \in DOMAIN logs' /\ j \in 1..c[i]
    BY <1>0, <1>8, <2>1, <2>2
  <2>4. CASE i # n
    BY <1>7, <2>1, <2>2, <2>3, <2>4 DEF Synced
  <2>5. CASE i = n
    <3>1. CutTo(c)[i] \in Log
      BY CutLogs
    <3>2. \A s \in Seq(Record) : \A k \in 1..Len(s) : Append(s, Torn)[k] = s[k]
      BY TornType
    <3>3. logs'[i].records[j] = logs[i].records[j]
      BY <2>1, <2>2, <2>3, <2>5, <3>1, <3>2, SMTT(30) DEF Log
    <3>4. j \in 1..logs'[i].synced
      BY <2>1, <2>2, <2>3, <2>5
    <3> QED
      BY <1>7, <2>3, <3>3, <3>4 DEF Synced
  <2> QED
    BY <2>4, <2>5
<1> QED
  BY <1>3, <1>4, <1>5, <1>6, <1>9, <1>10 DEF LogsStay

(* Nothing is acknowledged at first. *)
LEMMA InitDurable == Init => DurableInv
<1> SUFFICES ASSUME Init PROVE DurableInv
  OBVIOUS
<1>1. work.pc = "start" /\ acked = {}
  BY DEF Init, IdleWork
<1> QED
  BY <1>1 DEF DurableInv, Written, Batching, RetiredFirst, AckedDurable

(* The steps that acknowledge, retire and delete nothing, and leave the    *)
(* holder of the lock where it is or send it back to the start.            *)
LEMMA KeepsDurable ==
    ASSUME Base, DurableInv, LogsStay, acked' = acked, retired' = retired,
           \/ work' = work /\ logs' = logs
           \/ work'.pc \in {"start", "rotate"}
           \/ work'.pc = "write" /\ work'.done = 0
    PROVE  DurableInv'
<1>1. Written'
  BY DEF DurableInv, Written, Batching, Newest
<1>2. RetiredFirst'
  BY DEF DurableInv, RetiredFirst
<1>3. AckedDurable'
  <2>1. \A id \in acked \ retired : Synced(id)
    BY AckedDurableSynced DEF DurableInv
  <2>2. \A id \in acked' \ retired' : Synced(id)'
    BY <2>1, SyncedStays DEF Base, TypeOK
  <2> QED
    BY <2>2 DEF AckedDurable, Synced
<1> QED
  BY <1>1, <1>2, <1>3 DEF DurableInv

(* Writing a record of the batch. *)
LEMMA WriteEntryDurable ==
    ASSUME Base, DurableInv, WriteEntry, LogsStay
    PROVE  DurableInv'
<1> DEFINE n == Len(logs)
           r == work.batch[work.done + 1]
           longer == Append(Newest.records, r)
<1>1. /\ work.pc = "write" /\ logs # << >> /\ logs \in Seq(Log)
      /\ work.done \in Nat /\ WriteRecord(r)
  BY DEF WriteEntry, Holds, Base, Shape, TypeOK, Work
<1>2. r \in Record
  BY <1>1, NextRecord
<1>3. Newest.records \in Seq(Record)
  <2>1. Newest \in Log
    BY <1>1, EmptySeq DEF Newest
  <2> QED
    BY <2>1, LogFields
<1>4. Len(logs') = n /\ logs'[n].records = longer
  BY <1>1, <1>2, WriteRecordLogs
<1>5. Newest' = logs'[n]
  BY <1>4 DEF Newest
<1>6. /\ work'.done = work.done + 1 /\ work'.batch = work.batch
      /\ work'.pc \in {"write", "sync"}
  BY <1>1 DEF WriteEntry, Base, TypeOK, Work
<1>7. \A k \in 1..Len(Newest.records) :
            k \in DOMAIN longer /\ longer[k] = Newest.records[k]
  BY <1>2, <1>3
<1>8. /\ Len(Newest.records) + 1 \in DOMAIN longer
      /\ longer[Len(Newest.records) + 1] = r
  BY <1>2, <1>3
<1>9. Written'
  <2>1. ASSUME NEW k \in 1..(work.done + 1)
        PROVE  \E j \in DOMAIN longer : longer[j] = work.batch[k]
    <3>1. CASE k = work.done + 1
      BY <1>8, <3>1
    <3>2. CASE k # work.done + 1
      <4>1. k \in 1..work.done
        BY <1>1, <3>2
      <4>2. PICK j \in DOMAIN Newest.records :
              Newest.records[j] = work.batch[k]
        BY <1>1, <4>1 DEF DurableInv, Written, Batching
      <4>3. j \in 1..Len(Newest.records)
        BY <1>3
      <4> HIDE DEF longer
      <4> QED
        BY <1>7, <4>2, <4>3
    <3> QED
      BY <3>1, <3>2
  <2> HIDE DEF longer
  <2> QED
    BY <1>4, <1>5, <1>6, <2>1 DEF Written
<1>10. RetiredFirst'
  BY <1>6 DEF RetiredFirst
<1>11. AckedDurable'
  <2>1. \A id \in acked \ retired : Synced(id)
    BY AckedDurableSynced DEF DurableInv
  <2>2. \A id \in acked' \ retired' : Synced(id)'
    BY <2>1, SyncedStays DEF Base, TypeOK, WriteEntry
  <2> QED
    BY <2>2 DEF AckedDurable, Synced
<1> QED
  BY <1>9, <1>10, <1>11 DEF DurableInv

(* The sync puts the whole batch on the disk. *)
LEMMA BatchSynced ==
    ASSUME Base, Written, SyncBatch, NEW id \in Ids(work.batch)
    PROVE  Synced(id)'
<1> DEFINE n == Len(logs)
<1>1. /\ work.pc = "sync" /\ logs # << >> /\ logs \in Seq(Log) /\ SyncLog
      /\ work.done = Len(work.batch) /\ work.batch \in Seq(Record)
  BY DEF SyncBatch, Holds, Base, Shape, TypeOK, Work
<1>2. PICK k \in 1..work.done : work.batch[k].id = id
  BY <1>1 DEF Ids
<1>3. PICK j \in DOMAIN Newest.records : Newest.records[j] = work.batch[k]
  BY <1>1 DEF Written, Batching
<1>4. /\ Len(logs') = n /\ logs' \in Seq(Log)
      /\ logs'[n].records = Newest.records
      /\ logs'[n].synced = Len(Newest.records)
  BY <1>1, SyncLogLogs
<1>5. Newest.records \in Seq(Record) /\ n \in 1..n
  <2>1. Newest \in Log /\ n \in 1..n
    BY <1>1, EmptySeq DEF Newest
  <2> QED
    BY <2>1, LogFields
<1>6. n \in DOMAIN logs' /\ j \in 1..logs'[n].synced
  BY <1>4, <1>5
<1>7. logs'[n].records[j].id = id
  BY <1>2, <1>3, <1>4
<1> QED
  BY <1>6, <1>7 DEF Synced

(* Acknowledging a batch. *)
LEMMA SyncBatchDurable ==
    ASSUME Base, DurableInv, SyncBatch, LogsStay
    PROVE  DurableInv'
<1>1. work'.pc \in {"start", "rotate"}
  BY DEF SyncBatch, Release, IdleWork
<1>2. Written' /\ RetiredFirst'
  BY <1>1 DEF Written, Batching, RetiredFirst
<1>3. AckedDurable'
  <2>1. \A id \in acked \ retired : Synced(id)
    BY AckedDurableSynced DEF DurableInv
  <2>2. \A id \in acked \ retired : Synced(id)'
    BY <2>1, SyncedStays DEF Base, TypeOK
  <2>3. \A id \in Ids(work.batch) : Synced(id)'
    BY BatchSynced DEF DurableInv
  <2>4. \A id \in acked' \ retired' : Synced(id)'
    BY <2>2, <2>3 DEF SyncBatch
  <2> QED
    BY <2>4 DEF AckedDurable, Synced
<1> QED
  BY <1>2, <1>3 DEF DurableInv

(* Every step keeps what was acknowledged. *)
LEMMA NextDurable == Base /\ DurableInv /\ [Next]_vars => DurableInv'
<1> SUFFICES ASSUME Base, DurableInv, [Next]_vars PROVE DurableInv'
  OBVIOUS
<1>1. LogsStay \/ Unlink
  BY StepMovesLogs
<1>2. ~up => work.pc = "start"
  BY DEF Base, Shape
<1>3. CASE Unlink
  <2>1. work.pc = "unlink" /\ work'.pc = "unlink"
    BY <1>3 DEF Unlink, Holds, Base, TypeOK, Work
  <2>2. acked' \subseteq retired'
    BY <1>3, <2>1 DEF Unlink, DurableInv, RetiredFirst
  <2> QED
    BY <2>1, <2>2 DEF DurableInv, Written, Batching, RetiredFirst,
                      AckedDurable
<1>4. CASE LogsStay /\ WriteEntry
  BY <1>4, WriteEntryDurable
<1>5. CASE LogsStay /\ SyncBatch
  BY <1>5, SyncBatchDurable
<1>6. CASE LogsStay /\ Rotate
  <2>1. work'.pc = "unlink" /\ retired' = acked /\ acked' = acked
    BY <1>6 DEF Rotate, Base, TypeOK, Work
  <2> QED
    BY <2>1 DEF DurableInv, Written, Batching, RetiredFirst, AckedDurable
<1>7. CASE LogsStay /\ Start
  <2>1. work = IdleWork /\ acked' = acked /\ retired' = retired
    BY <1>7 DEF Start, Holds, Base, Shape
  <2>2. \/ work'.pc \in {"start", "rotate"}
        \/ work'.pc = "write" /\ work'.done = 0
    <3>1. \/ \E b : work' = [work EXCEPT !.pc = "write", !.batch = b]
          \/ work' = [work EXCEPT !.pc = "rotate"]
          \/ work' = IdleWork
      BY <1>7 DEF Start, TakeBatch, Release
    <3>2. CASE \E b : work' = [work EXCEPT !.pc = "write", !.batch = b]
      <4>1. PICK b : work' = [work EXCEPT !.pc = "write", !.batch = b]
        BY <3>2
      <4>2. work'.pc = "write" /\ work'.done = 0
        BY <2>1, <4>1 DEF IdleWork
      <4> QED
        BY <4>2
    <3>3. CASE work' = [work EXCEPT !.pc = "rotate"] \/ work' = IdleWork
      BY <2>1, <3>3 DEF IdleWork
    <3> QED
      BY <3>1, <3>2, <3>3
  <2> QED
    BY <1>7, <2>1, <2>2, KeepsDurable
<1>8. CASE LogsStay /\ (CheckpointDone \/ RotateFails \/ BatchFails
                        \/ PowerLoss \/ Exit)
  <2>1. work'.pc = "start" /\ acked' = acked /\ retired' = retired
    BY <1>8 DEF CheckpointDone, RotateFails, BatchFails, PowerLoss, Exit,
                Release, LoseMemory, IdleWork
  <2> QED
    BY <1>8, <2>1, KeepsDurable
<1>9. CASE LogsStay /\ Open
  <2>1. work' = work /\ acked' = acked /\ retired' = retired
    BY <1>9 DEF Open
  <2>2. work'.pc = "start"
    BY <1>2, <1>9, <2>1 DEF Open
  <2> QED
    BY <1>9, <2>1, <2>2, KeepsDurable
<1>10. CASE LogsStay /\ (Append_ \/ FlushTimer \/ CheckpointCall
                         \/ CloseCall \/ CloseHandle)
  <2>1. UNCHANGED <<logs, work, acked, retired>>
    BY <1>10 DEF Append_, FlushTimer, CheckpointCall, CloseCall, CloseHandle
  <2> QED
    BY <1>10, <2>1, KeepsDurable
<1>11. CASE LogsStay /\ (Quiescent \/ UNCHANGED vars)
  <2>1. UNCHANGED <<logs, work, acked, retired>>
    BY <1>11 DEF Quiescent, vars, memory
  <2> QED
    BY <1>11, <2>1, KeepsDurable
<1> QED
  BY <1>1, <1>3, <1>4, <1>5, <1>6, <1>7, <1>8, <1>9, <1>10, <1>11
     DEF Next, Step

(* An acknowledged append is in the synced part of a log until a           *)
(* checkpoint that began after the acknowledgement retires it: no power    *)
(* loss, failing write, failing rotation, failing unlink or shutdown takes *)
(* it away.                                                                *)
THEOREM AckedIsDurable == Spec => []AckedDurable
<1>1. Spec => []DurableInv
  BY InitDurable, NextDurable, BaseHolds, PTL DEF Spec
<1>2. DurableInv => AckedDurable
  BY DEF DurableInv
<1> QED
  BY <1>1, <1>2, PTL

-----------------------------------------------------------------------------
(* Who waits for the lock, and in which order *)

(* r was appended before s. *)
Before(r, s) == r.id < s.id /\ r.seq < s.seq

(* Actor l in the queue brings a record of its own.                        *)
Writes(l) == lock[l].kind = "write"

(* append() has numbered record r. *)
Numbered(r) == r.id \in 1..calls /\ r.seq < sequenceId

(* Groups and single writes do not mix; records wait in the order of their *)
(* calls; the batch at work was appended before everything that waits.     *)
Modes ==
    /\ everyWrite => pendingWrites = << >>
    /\ ~everyWrite => \A l \in DOMAIN lock : ~Writes(l)

PendingInOrder ==
    /\ \A p \in DOMAIN pendingWrites : Numbered(pendingWrites[p])
    /\ \A p, q \in DOMAIN pendingWrites :
            p < q => Before(pendingWrites[p], pendingWrites[q])

LockInOrder ==
    /\ \A l \in DOMAIN lock : Writes(l) => Numbered(lock[l].record)
    /\ \A l, m \in DOMAIN lock :
            l < m /\ Writes(l) /\ Writes(m) =>
                Before(lock[l].record, lock[m].record)

BatchInOrder ==
    Batching =>
        /\ \A k \in DOMAIN work.batch : Numbered(work.batch[k])
        /\ \A k, m \in DOMAIN work.batch :
                k < m => Before(work.batch[k], work.batch[m])
        /\ \A k \in DOMAIN work.batch :
            /\ \A p \in DOMAIN pendingWrites :
                    Before(work.batch[k], pendingWrites[p])
            /\ \A l \in DOMAIN lock :
                    l > 1 /\ Writes(l) =>
                        Before(work.batch[k], lock[l].record)

QueueInv == Modes /\ PendingInOrder /\ LockInOrder /\ BatchInOrder

(* Nobody waits at first. *)
LEMMA InitQueue == Init => QueueInv
<1> SUFFICES ASSUME Init PROVE QueueInv
  OBVIOUS
<1>1. work.pc = "start" /\ lock = << >> /\ pendingWrites = << >>
  BY DEF Init, IdleWork
<1> QED
  BY <1>1 DEF QueueInv, Modes, PendingInOrder, LockInOrder, BatchInOrder,
              Batching

(* A step that leaves the queue alone. *)
LEMMA QueueStays ==
    ASSUME QueueInv,
           UNCHANGED <<everyWrite, pendingWrites, lock, sequenceId, calls>>,
           Batching' => Batching /\ work'.batch = work.batch
    PROVE  QueueInv'
<1>1. Modes' /\ PendingInOrder' /\ LockInOrder'
  BY DEF QueueInv, Modes, PendingInOrder, LockInOrder, Numbered, Before, Writes
<1>2. BatchInOrder'
  BY DEF QueueInv, BatchInOrder, Numbered, Before, Writes
<1> QED
  BY <1>1, <1>2 DEF QueueInv

(* The process ends, or has just been started. *)
LEMMA QueueEmpty ==
    ASSUME lock' = << >>, pendingWrites' = << >>, ~Batching'
    PROVE  QueueInv'
BY DEF QueueInv, Modes, PendingInOrder, LockInOrder, BatchInOrder

(* The next one gets the lock. *)
LEMMA QueueReleased ==
    ASSUME Base, QueueInv, lock # << >>, lock' = Tail(lock), ~Batching',
           UNCHANGED <<everyWrite, pendingWrites, sequenceId, calls>>
    PROVE  QueueInv'
<1>1. \A l \in DOMAIN lock' : l + 1 \in DOMAIN lock /\ lock'[l] = lock[l + 1]
  BY DEF Base, TypeOK
<1>2. Modes' /\ PendingInOrder'
  BY <1>1 DEF QueueInv, Modes, PendingInOrder, Numbered, Before, Writes
<1>3. LockInOrder'
  <2>1. ASSUME NEW l \in DOMAIN lock', Writes(l)'
        PROVE  Numbered(lock[l].record)'
    BY <1>1, <2>1 DEF QueueInv, LockInOrder, Numbered, Writes
  <2>2. ASSUME NEW l \in DOMAIN lock', NEW m \in DOMAIN lock', l < m,
               Writes(l)', Writes(m)'
        PROVE  Before(lock'[l].record, lock'[m].record)
    <3>1. l + 1 < m + 1
      BY <2>2 DEF Base, TypeOK
    <3> QED
      BY <1>1, <2>2, <3>1 DEF QueueInv, LockInOrder, Writes
  <2> QED
    BY <2>1, <2>2 DEF LockInOrder, Before
<1>4. BatchInOrder'
  BY DEF BatchInOrder
<1> QED
  BY <1>2, <1>3, <1>4 DEF QueueInv

(* A flusher stands in line: it brings no record. *)
LEMMA QueueFlusher ==
    ASSUME Base, QueueInv, NEW a \in Actor, a.kind # "write", Acquire(a),
           UNCHANGED <<everyWrite, pendingWrites, sequenceId, calls, work>>
    PROVE  QueueInv'
<1>1. \A l \in DOMAIN lock' : Writes(l)' =>
            l \in DOMAIN lock /\ Writes(l) /\ lock'[l] = lock[l]
  BY DEF Base, TypeOK, Acquire, Writes
<1>2. Modes' /\ PendingInOrder'
  BY <1>1 DEF QueueInv, Modes, PendingInOrder, Numbered, Before
<1>3. LockInOrder'
  BY <1>1 DEF QueueInv, LockInOrder, Numbered, Before
<1>4. BatchInOrder'
  BY <1>1 DEF QueueInv, BatchInOrder, Batching, Numbered, Before
<1> QED
  BY <1>2, <1>3, <1>4 DEF QueueInv

(* What append() numbers comes after everything that has a number. *)
LEMMA QueueAppend ==
    ASSUME Base, QueueInv, Append_
    PROVE  QueueInv'
<1> DEFINE new == [id |-> calls + 1, seq |-> sequenceId]
           a == [kind |-> "write", record |-> new]
           Later(r) == r.id \in 1..calls' /\ r.seq < sequenceId'
<1>1. /\ calls \in Nat /\ sequenceId \in Nat
      /\ lock \in Seq(Actor) /\ pendingWrites \in Seq(Record)
      /\ work.batch \in Seq(Record)
  BY DEF Base, TypeOK, Work
<1>2. calls' = calls + 1 /\ sequenceId' = sequenceId + 1 /\ work' = work
      /\ everyWrite' = everyWrite
  BY DEF Append_
<1>3. /\ \A r \in Record : Numbered(r) => Later(r) /\ Before(r, new)
      /\ Later(new) /\ new \in Record
  BY <1>1, <1>2 DEF Record, Numbered, Before
<1>4. /\ \A l \in DOMAIN lock : lock[l] \in Actor
      /\ \A p \in DOMAIN pendingWrites : pendingWrites[p] \in Record
      /\ \A k \in DOMAIN work.batch : work.batch[k] \in Record
  BY <1>1
<1>5. \A x \in Actor : x.record \in Record
  BY DEF Actor
<1> HIDE DEF new, Later
<1>6. CASE everyWrite
  <2>1. lock' = Append(lock, a) /\ pendingWrites' = pendingWrites
    BY <1>6 DEF Append_, Acquire, new
  <2>2. \A l \in DOMAIN lock' :
            \/ l \in DOMAIN lock /\ lock'[l] = lock[l]
            \/ l = Len(lock) + 1 /\ lock'[l] = a
    BY <1>1, <1>3, <2>1 DEF Actor
  <2>3. pendingWrites = << >>
    BY <1>6 DEF QueueInv, Modes
  <2>4. Modes' /\ PendingInOrder'
    BY <1>2, <1>6, <2>1, <2>3 DEF Modes, PendingInOrder
  <2>5. LockInOrder'
    <3>1. ASSUME NEW l \in DOMAIN lock', lock'[l].kind = "write"
          PROVE  Later(lock'[l].record)
      BY <1>3, <1>4, <1>5, <2>2, <3>1 DEF QueueInv, LockInOrder, Writes
    <3>2. ASSUME NEW l \in DOMAIN lock', NEW m \in DOMAIN lock', l < m,
                 lock'[l].kind = "write", lock'[m].kind = "write"
          PROVE  Before(lock'[l].record, lock'[m].record)
      <4>1. l \in DOMAIN lock /\ lock'[l] = lock[l]
        BY <1>1, <2>1, <2>2, <3>2
      <4>2. CASE m \in DOMAIN lock /\ lock'[m] = lock[m]
        BY <3>2, <4>1, <4>2 DEF QueueInv, LockInOrder, Writes
      <4>3. CASE lock'[m] = a
        BY <1>3, <1>4, <1>5, <3>2, <4>1, <4>3 DEF QueueInv, LockInOrder, Writes
      <4> QED
        BY <2>2, <4>2, <4>3
    <3> QED
      BY <3>1, <3>2 DEF LockInOrder, Writes, Before, Numbered, Later
  <2>6. BatchInOrder'
    <3> SUFFICES ASSUME Batching
                 PROVE  BatchInOrder'
      BY <1>2 DEF BatchInOrder, Batching
    <3>1. \A k \in DOMAIN work.batch :
            Later(work.batch[k]) /\ Before(work.batch[k], new)
      BY <1>3, <1>4 DEF QueueInv, BatchInOrder
    <3>2. ASSUME NEW k \in DOMAIN work.batch, NEW l \in DOMAIN lock',
                 l > 1, lock'[l].kind = "write"
          PROVE  Before(work.batch[k], lock'[l].record)
      BY <2>2, <3>1, <3>2 DEF QueueInv, BatchInOrder, Writes
    <3> QED
      BY <1>2, <2>1, <2>3, <3>1, <3>2
         DEF QueueInv, BatchInOrder, Writes, Before, Numbered, Later
  <2> QED
    BY <2>4, <2>5, <2>6 DEF QueueInv
<1>7. CASE ~everyWrite
  <2>1. pendingWrites' = Append(pendingWrites, new)
    BY <1>7 DEF Append_, new
  <2>2. \A p \in DOMAIN pendingWrites' :
            \/ p \in DOMAIN pendingWrites /\ pendingWrites'[p] = pendingWrites[p]
            \/ p = Len(pendingWrites) + 1 /\ pendingWrites'[p] = new
    BY <1>1, <1>3, <2>1
  <2>3. \A l \in DOMAIN lock' : lock'[l].kind # "write"
    <3>1. \A l \in DOMAIN lock : lock[l].kind # "write"
      BY <1>7 DEF QueueInv, Modes, Writes
    <3>2. lock' = lock \/ lock' = Append(lock, Flusher("flush"))
      BY <1>7 DEF Append_, Acquire
    <3> QED
      BY <1>1, <3>1, <3>2, FlusherType
  <2>4. Modes' /\ LockInOrder'
    BY <1>2, <1>7, <2>3 DEF Modes, LockInOrder, Writes
  <2>5. PendingInOrder'
    <3>1. ASSUME NEW p \in DOMAIN pendingWrites'
          PROVE  Later(pendingWrites'[p])
      BY <1>3, <1>4, <2>2 DEF QueueInv, PendingInOrder
    <3>2. ASSUME NEW p \in DOMAIN pendingWrites',
                 NEW q \in DOMAIN pendingWrites', p < q
          PROVE  Before(pendingWrites'[p], pendingWrites'[q])
      <4>1. p \in DOMAIN pendingWrites /\ pendingWrites'[p] = pendingWrites[p]
        BY <1>1, <2>1, <2>2, <3>2
      <4>2. CASE q \in DOMAIN pendingWrites
                 /\ pendingWrites'[q] = pendingWrites[q]
        BY <3>2, <4>1, <4>2 DEF QueueInv, PendingInOrder
      <4>3. CASE pendingWrites'[q] = new
        BY <1>3, <1>4, <4>1, <4>3 DEF QueueInv, PendingInOrder
      <4> QED
        BY <2>2, <4>2, <4>3
    <3> QED
      BY <3>1, <3>2 DEF PendingInOrder, Before, Numbered, Later
  <2>6. BatchInOrder'
    <3> SUFFICES ASSUME Batching
                 PROVE  BatchInOrder'
      BY <1>2 DEF BatchInOrder, Batching
    <3>1. \A k \in DOMAIN work.batch :
            Later(work.batch[k]) /\ Before(work.batch[k], new)
      BY <1>3, <1>4 DEF QueueInv, BatchInOrder
    <3>2. ASSUME NEW k \in DOMAIN work.batch, NEW p \in DOMAIN pendingWrites'
          PROVE  Before(work.batch[k], pendingWrites'[p])
      BY <2>2, <3>1 DEF QueueInv, BatchInOrder
    <3> QED
      BY <1>2, <2>3, <3>1, <3>2
         DEF QueueInv, BatchInOrder, Writes, Before, Numbered, Later
  <2> QED
    BY <2>4, <2>5, <2>6 DEF QueueInv
<1> QED
  BY <1>6, <1>7

(* The holder takes its record, or everything that is pending. *)
LEMMA QueueStart ==
    ASSUME Base, QueueInv, Start
    PROVE  QueueInv'
<1>1. /\ work = IdleWork /\ lock # << >> /\ lock \in Seq(Actor)
      /\ UNCHANGED <<everyWrite, sequenceId, calls>>
  BY DEF Start, Holds, Base, Shape, TypeOK
<1>2. CASE /\ Holder = "write" /\ lock' = lock
           /\ pendingWrites' = pendingWrites
           /\ work' = [work EXCEPT !.pc = "write",
                                   !.batch = <<Head(lock).record>>]
  <2>1. 1 \in DOMAIN lock /\ Writes(1) /\ Head(lock) = lock[1]
    BY <1>1, <1>2 DEF Holder, Writes
  <2>2. pendingWrites = << >>
    BY <2>1 DEF QueueInv, Modes
  <2>3. work'.batch = <<lock[1].record>>
    BY <1>1, <1>2, <2>1 DEF IdleWork
  <2>4. Modes' /\ PendingInOrder' /\ LockInOrder'
    BY <1>1, <1>2 DEF QueueInv, Modes, PendingInOrder, LockInOrder, Numbered,
                      Before, Writes
  <2>5. BatchInOrder'
    <3>1. \A k \in DOMAIN work'.batch : k = 1 /\ work'.batch[k] = lock[1].record
      BY <2>3
    <3>2. Numbered(lock[1].record)
      BY <2>1 DEF QueueInv, LockInOrder
    <3>3. ASSUME NEW l \in DOMAIN lock', l > 1, lock'[l].kind = "write"
          PROVE  Before(lock[1].record, lock'[l].record)
      BY <1>2, <2>1, <3>3 DEF QueueInv, LockInOrder, Writes
    <3> QED
      BY <1>1, <1>2, <2>2, <3>1, <3>2, <3>3
         DEF BatchInOrder, Writes, Before, Numbered
  <2> QED
    BY <2>4, <2>5 DEF QueueInv
<1>3. CASE pendingWrites # << >> /\ TakeBatch /\ lock' = lock
  <2>1. work'.batch = pendingWrites /\ pendingWrites' = << >>
    BY <1>1, <1>3 DEF TakeBatch, IdleWork
  <2>2. \A l \in DOMAIN lock' : lock'[l].kind # "write"
    BY <1>3 DEF QueueInv, Modes, Writes
  <2>3. Modes' /\ PendingInOrder' /\ LockInOrder'
    BY <2>1, <2>2 DEF Modes, PendingInOrder, LockInOrder, Writes
  <2>4. BatchInOrder'
    BY <1>1, <2>1, <2>2 DEF QueueInv, PendingInOrder, BatchInOrder, Writes,
                            Before, Numbered
  <2> QED
    BY <2>3, <2>4 DEF QueueInv
<1>4. CASE work' = [work EXCEPT !.pc = "rotate"] /\ lock' = lock
           /\ pendingWrites' = pendingWrites
  <2>1. ~Batching'
    BY <1>1, <1>4 DEF IdleWork, Batching
  <2> QED
    BY <1>1, <1>4, <2>1, QueueStays
<1>5. CASE Release /\ pendingWrites' = pendingWrites
  <2>1. ~Batching' /\ lock' = Tail(lock)
    BY <1>5 DEF Release, IdleWork, Batching
  <2> QED
    BY <1>1, <1>5, <2>1, QueueReleased
<1> QED
  BY <1>2, <1>3, <1>4, <1>5 DEF Start

(* No step puts the queue out of order. *)
LEMMA NextQueue == Base /\ QueueInv /\ [Next]_vars => QueueInv'
<1> SUFFICES ASSUME Base, QueueInv, [Next]_vars PROVE QueueInv'
  OBVIOUS
<1>1. CASE Open
  <2>1. lock' = << >> /\ pendingWrites' = << >> /\ ~Batching'
    BY <1>1 DEF Open, Base, Shape, Batching
  <2> QED
    BY <2>1, QueueEmpty
<1>2. CASE Append_
  BY <1>2, QueueAppend
<1>3. CASE FlushTimer \/ CheckpointCall
  <2>1. PICK k \in {"flush", "checkpoint"} : Acquire(Flusher(k))
    BY <1>3 DEF FlushTimer, CheckpointCall
  <2>2. UNCHANGED <<everyWrite, pendingWrites, sequenceId, calls, work>>
    BY <1>3 DEF FlushTimer, CheckpointCall
  <2> QED
    BY <2>1, <2>2, FlusherType, QueueFlusher
<1>4. CASE CloseCall
  <2>1. UNCHANGED <<everyWrite, pendingWrites, sequenceId, calls, work>>
    BY <1>4 DEF CloseCall
  <2>2. CASE Acquire(Flusher("close"))
    BY <2>1, <2>2, FlusherType, QueueFlusher
  <2>3. CASE lock' = lock
    BY <2>1, <2>3, QueueStays DEF Batching
  <2> QED
    BY <1>4, <2>2, <2>3 DEF CloseCall
<1>5. CASE Start
  BY <1>5, QueueStart
<1>6. CASE WriteEntry
  <2>1. work'.batch = work.batch /\ Batching
    BY <1>6 DEF WriteEntry, Holds, Base, TypeOK, Work, Batching
  <2> QED
    BY <1>6, <2>1, QueueStays DEF WriteEntry
<1>7. CASE SyncBatch
  <2>1. ~Batching'
    BY <1>7 DEF SyncBatch, Release, IdleWork, Batching
  <2>2. UNCHANGED <<everyWrite, pendingWrites, sequenceId, calls>>
    BY <1>7 DEF SyncBatch
  <2>3. CASE lock' = lock
    BY <2>1, <2>2, <2>3, QueueStays
  <2>4. CASE Release
    BY <1>7, <2>1, <2>2, <2>4, QueueReleased DEF SyncBatch, Holds, Release
  <2> QED
    BY <1>7, <2>3, <2>4 DEF SyncBatch
<1>8. CASE Rotate \/ Unlink
  <2>1. ~Batching'
    BY <1>8 DEF Rotate, Unlink, Holds, Base, TypeOK, Work, Batching
  <2> QED
    BY <1>8, <2>1, QueueStays DEF Rotate, Unlink
<1>9. CASE CheckpointDone \/ RotateFails
  <2>1. lock # << >> /\ lock' = Tail(lock) /\ ~Batching'
    BY <1>9 DEF CheckpointDone, RotateFails, Holds, Release, IdleWork, Batching
  <2> QED
    BY <1>9, <2>1, QueueReleased DEF CheckpointDone, RotateFails
<1>10. CASE BatchFails
  <2>1. CASE Release /\ UNCHANGED <<up, everyWrite, handle, sequenceId,
                                    pendingWrites>>
    <3>1. lock # << >> /\ lock' = Tail(lock) /\ ~Batching'
      BY <1>10, <2>1 DEF BatchFails, Holds, Release, IdleWork, Batching
    <3> QED
      BY <1>10, <2>1, <3>1, QueueReleased DEF BatchFails
  <2>2. CASE LoseMemory
    BY <2>2, QueueEmpty DEF LoseMemory, IdleWork, Batching
  <2> QED
    BY <1>10, <2>1, <2>2 DEF BatchFails
<1>11. CASE PowerLoss \/ Exit
  BY <1>11, QueueEmpty DEF PowerLoss, Exit, LoseMemory, IdleWork, Batching
<1>12. CASE CloseHandle \/ Quiescent \/ UNCHANGED vars
  BY <1>12, QueueStays DEF CloseHandle, Quiescent, vars, memory, Batching
<1> QED
  BY <1>1, <1>2, <1>3, <1>4, <1>5, <1>6, <1>7, <1>8, <1>9, <1>10, <1>11, <1>12
     DEF Next, Step

-----------------------------------------------------------------------------
(* What replay finds, and in which order *)

(* The records that have not been written.                                 *)
Queued ==
    {pendingWrites[p] : p \in DOMAIN pendingWrites}
    \cup {lock[l].record :
            l \in {m \in DOMAIN lock : Writes(m)
                                       /\ (m > 1 \/ work.pc = "start")}}
    \cup {work.batch[k] :
            k \in {m \in DOMAIN work.batch : work.pc = "write"
                                             /\ m > work.done}}

(* Whole records are ordered by number over all logs.                      *)
IdsAscend ==
    \A i, m \in DOMAIN logs :
        \A j \in DOMAIN logs[i].records : \A n \in DOMAIN logs[m].records :
            /\ i < m \/ (i = m /\ j < n)
            /\ logs[i].records[j] # Torn
            /\ logs[m].records[n] # Torn
            => logs[i].records[j].id < logs[m].records[n].id

(* In one log the records that can be read are ordered by sequence id.     *)
SeqsAscend ==
    \A i \in DOMAIN logs :
        \A j, n \in DOMAIN logs[i].records :
            j < n /\ Readable(logs[i], n) =>
                logs[i].records[j].seq < logs[i].records[n].seq

(* Every whole record was appended before everything that waits.           *)
LoggedFirst ==
    \A i \in DOMAIN logs : \A j \in DOMAIN logs[i].records :
        logs[i].records[j] # Torn =>
            /\ logs[i].records[j].id \in 1..calls
            /\ \A r \in Queued : logs[i].records[j].id < r.id

(* New sequence ids are above those that can be read in the newest log.    *)
SeqsFresh ==
    up => \A j \in DOMAIN Newest.records :
            Readable(Newest, j) =>
                /\ Newest.records[j].seq < sequenceId
                /\ \A r \in Queued : Newest.records[j].seq < r.seq

OrderInv == IdsAscend /\ SeqsAscend /\ LoggedFirst /\ SeqsFresh

(* What waits has a number. *)
LEMMA QueuedNumbered ==
    ASSUME QueueInv
    PROVE  \A r \in Queued : Numbered(r)
BY DEF QueueInv, PendingInOrder, LockInOrder, BatchInOrder, Batching, Queued

(* What waits is a record. *)
LEMMA QueuedType ==
    ASSUME TypeOK
    PROVE  Queued \subseteq Record
<1>1. \A p \in DOMAIN pendingWrites : pendingWrites[p] \in Record
  BY DEF TypeOK
<1>2. \A l \in DOMAIN lock : lock[l].record \in Record
  <2>1. \A l \in DOMAIN lock : lock[l] \in Actor
    BY DEF TypeOK
  <2> QED
    BY <2>1 DEF Actor
<1>3. \A k \in DOMAIN work.batch : work.batch[k] \in Record
  BY DEF TypeOK, Work
<1> QED
  BY <1>1, <1>2, <1>3 DEF Queued

(* The same one step later. *)
LEMMA QueuedTypeNext ==
    ASSUME TypeOK'
    PROVE  \A r \in Queued' : r.id \in Nat /\ r.seq \in Nat
<1>1. \A p \in DOMAIN pendingWrites' : pendingWrites'[p] \in Record
  BY DEF TypeOK
<1>2. \A l \in DOMAIN lock' : lock'[l].record \in Record
  <2>1. \A l \in DOMAIN lock' : lock'[l] \in Actor
    BY DEF TypeOK
  <2> QED
    BY <2>1 DEF Actor
<1>3. \A k \in DOMAIN work'.batch : work'.batch[k] \in Record
  BY DEF TypeOK, Work
<1>4. \A r \in Queued' : r \in Record
  BY <1>1, <1>2, <1>3 DEF Queued
<1> QED
  BY <1>4 DEF Record

(* Nothing new waits when the queue is left alone, ... *)
LEMMA QueuedStays ==
    ASSUME UNCHANGED <<pendingWrites, lock>>,
           work' = work \/ work'.pc \notin {"start", "write"}
    PROVE  Queued' \subseteq Queued
BY DEF Queued, Writes

(* ... when the next one gets the lock, ... *)
LEMMA QueuedReleased ==
    ASSUME Base, lock # << >>, lock' = Tail(lock), work'.pc = "start",
           pendingWrites' = pendingWrites
    PROVE  Queued' \subseteq Queued
<1>1. lock \in Seq(Actor)
  BY DEF Base, TypeOK
<1>2. \A l \in DOMAIN lock' :
        l + 1 \in DOMAIN lock /\ lock'[l] = lock[l + 1] /\ l + 1 > 1
  BY <1>1
<1> QED
  BY <1>2 DEF Queued, Writes

(* ... when a flusher stands in line, ... *)
LEMMA QueuedFlusher ==
    ASSUME Base, NEW a \in Actor, a.kind # "write", Acquire(a),
           UNCHANGED <<pendingWrites, work>>
    PROVE  Queued' \subseteq Queued
<1>1. \A l \in DOMAIN lock' : Writes(l)' =>
            l \in DOMAIN lock /\ Writes(l) /\ lock'[l] = lock[l]
  BY DEF Base, TypeOK, Acquire, Writes
<1> QED
  BY <1>1 DEF Queued

(* ... when the process ends, ... *)
LEMMA QueuedEmpty ==
    ASSUME lock' = << >>, pendingWrites' = << >>, work'.pc # "write"
    PROVE  Queued' = {}
BY DEF Queued

(* ... or when the holder of the lock takes a batch. *)
LEMMA QueuedStart ==
    ASSUME Base, Start
    PROVE  Queued' \subseteq Queued
<1>1. work = IdleWork /\ lock # << >> /\ lock \in Seq(Actor)
  BY DEF Start, Holds, Base, Shape, TypeOK
<1>2. CASE /\ Holder = "write" /\ lock' = lock
           /\ pendingWrites' = pendingWrites
           /\ work' = [work EXCEPT !.pc = "write",
                                   !.batch = <<Head(lock).record>>]
  <2>1. 1 \in DOMAIN lock /\ Writes(1) /\ Head(lock) = lock[1]
    BY <1>1, <1>2 DEF Holder, Writes
  <2>2. work'.batch = <<lock[1].record>> /\ work'.pc = "write"
    BY <1>1, <1>2, <2>1 DEF IdleWork
  <2>3. \A k \in DOMAIN work'.batch : work'.batch[k] = lock[1].record
    BY <2>2
  <2>4. lock[1].record \in Queued
    BY <1>1, <2>1 DEF Queued, IdleWork
  <2> QED
    BY <1>2, <2>2, <2>3, <2>4 DEF Queued, Writes
<1>3. CASE TakeBatch /\ lock' = lock
  <2>1. /\ work'.batch = pendingWrites /\ pendingWrites' = << >>
        /\ work'.pc = "write"
    BY <1>1, <1>3 DEF TakeBatch, IdleWork
  <2> QED
    BY <1>3, <2>1 DEF Queued, Writes
<1>4. CASE work' = [work EXCEPT !.pc = "rotate"] /\ lock' = lock
           /\ pendingWrites' = pendingWrites
  <2>1. work'.pc = "rotate"
    BY <1>1, <1>4 DEF IdleWork
  <2> QED
    BY <1>4, <2>1, QueuedStays
<1>5. CASE Release /\ pendingWrites' = pendingWrites
  BY <1>1, <1>5, QueuedReleased DEF Release, IdleWork
<1> QED
  BY <1>2, <1>3, <1>4, <1>5 DEF Start

(* The record that is written leaves the queue, and comes first in it.     *)
LEMMA QueuedWritten ==
    ASSUME Base, QueueInv, WriteEntry
    PROVE  /\ work.batch[work.done + 1] \in Queued
           /\ Queued' \subseteq Queued
           /\ \A r \in Queued' : Before(work.batch[work.done + 1], r)
<1> DEFINE d == work.done + 1
<1>1. /\ work.pc = "write" /\ work.done \in Nat /\ work.batch \in Seq(Record)
      /\ UNCHANGED <<pendingWrites, lock>>
  BY DEF WriteEntry, Holds, Base, TypeOK, Work
<1>2. work'.batch = work.batch /\ work'.done = d /\ work'.pc # "start"
  BY DEF WriteEntry, Base, TypeOK, Work
<1>3. d \in DOMAIN work.batch /\ d > work.done
  BY <1>1, NextRecord
<1>4. work.batch[d] \in Queued
  BY <1>1, <1>3 DEF Queued
<1>5. \A r \in Queued' :
        \/ \E p \in DOMAIN pendingWrites : r = pendingWrites[p]
        \/ \E l \in DOMAIN lock : l > 1 /\ Writes(l) /\ r = lock[l].record
        \/ \E k \in DOMAIN work.batch : k > d /\ r = work.batch[k]
  BY <1>1, <1>2 DEF Queued, Writes
<1>6. ASSUME NEW k \in DOMAIN work.batch, k > d
      PROVE  k > work.done
  BY <1>1, <1>6
<1>7. Queued' \subseteq Queued
  BY <1>1, <1>5, <1>6 DEF Queued
<1>8. \A r \in Queued' : Before(work.batch[d], r)
  <2>1. /\ \A k \in DOMAIN work.batch :
                d < k => Before(work.batch[d], work.batch[k])
        /\ \A p \in DOMAIN pendingWrites :
                Before(work.batch[d], pendingWrites[p])
        /\ \A l \in DOMAIN lock :
                l > 1 /\ Writes(l) => Before(work.batch[d], lock[l].record)
    BY <1>1, <1>3 DEF QueueInv, BatchInOrder, Batching
  <2>2. \A k \in DOMAIN work.batch : k > d => d < k
    BY <1>1
  <2> HIDE DEF d
  <2> QED
    BY <1>5, <2>1, <2>2
<1> QED
  BY <1>4, <1>7, <1>8

(* append() adds its record to what waits.                                 *)
LEMMA QueuedAppend ==
    ASSUME Base, Append_
    PROVE  Queued' \subseteq
                Queued \cup {[id |-> calls + 1, seq |-> sequenceId]}
<1> DEFINE new == [id |-> calls + 1, seq |-> sequenceId]
           a == [kind |-> "write", record |-> new]
<1>1. lock \in Seq(Actor) /\ pendingWrites \in Seq(Record) /\ work' = work
      /\ new \in Record
  BY DEF Base, TypeOK, Append_, Record
<1>2. CASE everyWrite
  <2>1. lock' = Append(lock, a) /\ pendingWrites' = pendingWrites
    BY <1>2 DEF Append_, Acquire
  <2>2. a \in Actor /\ a.record = new
    BY <1>1 DEF Actor
  <2> HIDE DEF new, a
  <2>3. \A l \in DOMAIN lock' :
            \/ l \in DOMAIN lock /\ lock'[l] = lock[l]
            \/ lock'[l] = a
    BY <1>1, <2>1, <2>2
  <2>4. Queued' \subseteq Queued \cup {new}
    BY <1>1, <2>1, <2>2, <2>3 DEF Queued, Writes
  <2> QED
    BY <2>4 DEF new
<1>3. CASE ~everyWrite
  <2>1. pendingWrites' = Append(pendingWrites, new)
    BY <1>3 DEF Append_
  <2>2. lock' = lock \/ lock' = Append(lock, Flusher("flush"))
    BY <1>3 DEF Append_, Acquire
  <2> HIDE DEF new
  <2>3. \A p \in DOMAIN pendingWrites' :
            \/ p \in DOMAIN pendingWrites /\ pendingWrites'[p] = pendingWrites[p]
            \/ pendingWrites'[p] = new
    BY <1>1, <2>1
  <2>4. \A l \in DOMAIN lock' : Writes(l)' =>
            l \in DOMAIN lock /\ Writes(l) /\ lock'[l] = lock[l]
    BY <1>1, <2>2, FlusherType DEF Writes
  <2>5. Queued' \subseteq Queued \cup {new}
    BY <1>1, <2>3, <2>4 DEF Queued
  <2> QED
    BY <2>5 DEF new
<1> QED
  BY <1>2, <1>3

-----------------------------------------------------------------------------
(* Losing and moving records *)

(* Every whole record of the new logs is one of the old, f telling from    *)
(* which log, at the same place; logs do not change places.                *)
Within(f) ==
    /\ \A i, m \in DOMAIN logs' : i < m => f[i] < f[m]
    /\ \A i \in DOMAIN logs' : \A j \in DOMAIN logs'[i].records :
        logs'[i].records[j] # Torn =>
            /\ f[i] \in DOMAIN logs
            /\ j \in DOMAIN logs[f[i]].records
            /\ logs'[i].records[j] = logs[f[i]].records[j]

(* Every whole record of the newest log was there before.                  *)
NewestKept ==
    \A j \in DOMAIN Newest'.records :
        Newest'.records[j] # Torn =>
            /\ j \in DOMAIN Newest.records
            /\ Newest'.records[j] = Newest.records[j]

(* Everything but writing a whole record only loses and moves records.     *)
LEMMA LogsEmbed ==
    ASSUME Base, LogsMove, ~WriteEntry
    PROVE  /\ \E f : Within(f)
           /\ NewestKept
<1> DEFINE n == Len(logs)
           same == [i \in Nat |-> i]
<1>1. logs \in Seq(Log) /\ logs' \in Seq(Log) /\ n \in Nat
  BY LogsKeepType DEF Base, TypeOK
<1>2. logs # << >> => n \in DOMAIN logs /\ Newest \in Log
  BY <1>1 DEF Newest
<1>3. CASE logs' = logs
  <2>1. Within(same)
    BY <1>1, <1>3 DEF Within
  <2>2. NewestKept
    BY <1>3 DEF NewestKept, Newest
  <2> QED
    BY <2>1, <2>2
<1>4. CASE logs' = <<EmptyLog>>
  <2>1. /\ DOMAIN logs' = {1} /\ logs'[1] = EmptyLog /\ Len(logs') = 1
        /\ DOMAIN EmptyLog.records = {}
    BY <1>4 DEF EmptyLog
  <2>2. Within(same)
    BY <2>1 DEF Within
  <2>3. NewestKept
    BY <2>1 DEF NewestKept, Newest
  <2> QED
    BY <2>2, <2>3
<1>5. CASE logs # << >> /\ WriteRecord(Torn)
  <2> DEFINE longer == Append(Newest.records, Torn)
  <2>1. /\ Len(logs') = n
        /\ \A i \in DOMAIN logs : i # n => logs'[i] = logs[i]
        /\ logs'[n].records = longer
    BY <1>1, <1>5, TornType, WriteRecordLogs
  <2>2. Newest.records \in Seq(Record)
    BY <1>2, <1>5, LogFields
  <2>3. \A j \in DOMAIN longer : longer[j] # Torn =>
            j \in DOMAIN Newest.records /\ longer[j] = Newest.records[j]
    BY <2>2, TornType
  <2> HIDE DEF longer
  <2>4. DOMAIN logs' = DOMAIN logs
    BY <1>1, <2>1
  <2>5. Within(same)
    BY <1>1, <1>2, <1>5, <2>1, <2>3, <2>4 DEF Within, Newest
  <2>6. NewestKept
    BY <2>1, <2>3 DEF NewestKept, Newest
  <2> QED
    BY <2>5, <2>6
<1>6. CASE logs # << >> /\ SyncLog
  <2>1. /\ Len(logs') = n
        /\ \A i \in DOMAIN logs : i # n => logs'[i] = logs[i]
        /\ logs'[n].records = Newest.records
    BY <1>1, <1>6, SyncLogLogs
  <2>2. DOMAIN logs' = DOMAIN logs
    BY <1>1, <2>1
  <2>3. \A i \in DOMAIN logs' : logs'[i].records = logs[i].records
    BY <2>1, <2>2 DEF Newest
  <2>4. Within(same)
    BY <1>1, <2>2, <2>3 DEF Within
  <2>5. NewestKept
    BY <2>1 DEF NewestKept, Newest
  <2> QED
    BY <2>4, <2>5
<1>7. CASE logs' = Append(logs, EmptyLog)
  <2>1. /\ Len(logs') = n + 1
        /\ \A i \in DOMAIN logs : logs'[i] = logs[i]
        /\ logs'[n + 1] = EmptyLog
        /\ DOMAIN EmptyLog.records = {}
    BY <1>1, <1>7, AddLogLogs DEF EmptyLog
  <2>2. \A i \in DOMAIN logs' : i \in DOMAIN logs \/ i = n + 1
    BY <1>1, <2>1
  <2>3. Within(same)
    BY <1>1, <2>1, <2>2 DEF Within
  <2>4. NewestKept
    BY <2>1 DEF NewestKept, Newest
  <2> QED
    BY <2>3, <2>4
<1>8. ASSUME NEW i \in 1..(Len(logs) - 1), logs' = WithoutLog(i)
      PROVE  (\E f : Within(f)) /\ NewestKept
  <2> DEFINE f == [j \in Nat |-> IF j < i THEN j ELSE j + 1]
  <2>a. i \in Nat /\ i <= n - 1 /\ DOMAIN logs = 1..n
    BY <1>1
  <2>1. /\ Len(logs') = n - 1
        /\ \A j \in DOMAIN logs' :
                logs'[j] = IF j < i THEN logs[j] ELSE logs[j + 1]
    BY <1>1, <1>8, WithoutLogLogs
  <2>b. DOMAIN logs' = 1..(n - 1) /\ DOMAIN logs' \subseteq Nat
    BY <1>1, <2>1
  <2>2. ASSUME NEW j \in DOMAIN logs'
        PROVE  f[j] \in DOMAIN logs /\ logs'[j] = logs[f[j]]
    <3>1. j \in Nat /\ j >= 1 /\ j <= n - 1
      BY <1>1, <2>b
    <3>2. f[j] = IF j < i THEN j ELSE j + 1
      BY <3>1
    <3> HIDE DEF f, n
    <3> QED
      BY <1>1, <2>a, <2>1, <3>1, <3>2
  <2>3. ASSUME NEW j \in DOMAIN logs', NEW m \in DOMAIN logs', j < m
        PROVE  f[j] < f[m]
    <3>1. j \in Nat /\ m \in Nat
      BY <2>b
    <3> QED
      BY <2>a, <2>3, <3>1
  <2>4. Within(f)
    <3> HIDE DEF f
    <3> QED
      BY <2>2, <2>3 DEF Within
  <2>5. n - 1 \in DOMAIN logs' /\ ~(n - 1 < i) /\ (n - 1) + 1 = n
    BY <1>1, <1>8, <2>1
  <2>6. Newest' = Newest
    BY <2>1, <2>5 DEF Newest
  <2>7. NewestKept
    BY <2>6 DEF NewestKept
  <2> QED
    BY <2>4, <2>7
<1>9. ASSUME logs # << >>, NEW c \in Cuts,
             /\ Len(logs') = n
             /\ \A i \in DOMAIN logs : i # n => logs'[i] = CutTo(c)[i]
             /\ logs'[n].records \in {CutTo(c)[n].records,
                                      Append(CutTo(c)[n].records, Torn)}
      PROVE  (\E f : Within(f)) /\ NewestKept
  <2>1. DOMAIN logs' = DOMAIN logs
    BY <1>1, <1>9
  <2>2. ASSUME NEW i \in DOMAIN logs, NEW j \in DOMAIN CutTo(c)[i].records
        PROVE  /\ j \in DOMAIN logs[i].records
               /\ CutTo(c)[i].records[j] = logs[i].records[j]
    <3>1. CutTo(c)[i] \in Log /\ logs[i] \in Log
      BY <1>1, CutLogs
    <3>2. CutTo(c)[i].records \in Seq(Record) /\ logs[i].records \in Seq(Record)
      BY <3>1, LogFields
    <3>3. /\ c[i] <= Len(logs[i].records) /\ c[i] \in Nat
          /\ Len(CutTo(c)[i].records) = c[i]
          /\ \A k \in 1..c[i] : CutTo(c)[i].records[k] = logs[i].records[k]
      BY <1>1, CutLogs
    <3> QED
      BY <3>2, <3>3
  <2>3. ASSUME NEW j \in DOMAIN logs'[n].records, logs'[n].records[j] # Torn
        PROVE  /\ j \in DOMAIN logs[n].records
               /\ logs'[n].records[j] = logs[n].records[j]
    <3> DEFINE cut == CutTo(c)[n].records
    <3>1. CutTo(c)[n] \in Log
      BY <1>1, <1>2, <1>9, CutLogs
    <3>2. cut \in Seq(Record)
      BY <3>1, LogFields
    <3>3. \A k \in DOMAIN Append(cut, Torn) : Append(cut, Torn)[k] # Torn =>
            k \in DOMAIN cut /\ Append(cut, Torn)[k] = cut[k]
      <4> HIDE DEF cut
      <4> QED
        BY <3>2, TornType
    <3>4. j \in DOMAIN cut /\ logs'[n].records[j] = cut[j]
      <4> DEFINE long == Append(cut, Torn)
      <4> HIDE DEF cut, long
      <4>1. logs'[n].records = cut \/ logs'[n].records = long
        BY <1>9 DEF cut, long
      <4>2. \A k \in DOMAIN long : long[k] # Torn =>
                k \in DOMAIN cut /\ long[k] = cut[k]
        BY <3>3 DEF long
      <4> QED
        BY <2>3, <4>1, <4>2
    <3> QED
      BY <1>2, <1>9, <2>2, <3>4
  <2>4. ASSUME NEW i \in DOMAIN logs', NEW j \in DOMAIN logs'[i].records,
               logs'[i].records[j] # Torn
        PROVE  /\ j \in DOMAIN logs[i].records
               /\ logs'[i].records[j] = logs[i].records[j]
    <3>1. CASE i = n
      BY <2>3, <2>4, <3>1
    <3>2. CASE i # n
      BY <1>9, <2>1, <2>2, <2>4, <3>2
    <3> QED
      BY <3>1, <3>2
  <2>5. Within(same)
    BY <1>1, <2>1, <2>4 DEF Within
  <2>6. NewestKept
    BY <1>9, <2>3 DEF NewestKept, Newest
  <2> QED
    BY <2>5, <2>6
<1>10. ASSUME logs # << >>, NEW c \in Cuts, logs' = CutTo(c)
       PROVE  (\E f : Within(f)) /\ NewestKept
  BY <1>1, <1>9, <1>10, CutLogs
<1>11. ASSUME logs # << >>, NEW c \in Cuts,
              logs' = [CutTo(c) EXCEPT
                         ![Len(logs)] = [records |-> Append(@.records, Torn),
                                         synced |-> @.synced + 1]]
       PROVE  (\E f : Within(f)) /\ NewestKept
  <2>1. /\ Len(logs') = n
        /\ \A i \in DOMAIN logs : i # n => logs'[i] = CutTo(c)[i]
        /\ logs'[n].records = Append(CutTo(c)[n].records, Torn)
    BY <1>1, <1>11, CutTornLogs
  <2> QED
    BY <1>9, <1>11, <2>1
<1>12. \/ logs' = logs
       \/ logs' = <<EmptyLog>>
       \/ logs # << >> /\ WriteRecord(Torn)
       \/ logs # << >> /\ SyncLog
       \/ logs' = Append(logs, EmptyLog)
       \/ \E i \in 1..(Len(logs) - 1) : logs' = WithoutLog(i)
       \/ /\ logs # << >>
          /\ \E c \in Cuts :
                \/ logs' = CutTo(c)
                \/ logs' = [CutTo(c) EXCEPT
                              ![Len(logs)] = [records |-> Append(@.records, Torn),
                                              synced |-> @.synced + 1]]
  BY DEF LogsMove, LogsStay
<1> QED
  BY <1>3, <1>4, <1>5, <1>6, <1>7, <1>8, <1>10, <1>11, <1>12

(* The smallest element of a set of natural numbers. *)
LEMMA SmallestOf ==
    ASSUME NEW T, T \subseteq Nat, T # {}
    PROVE  \E x \in T : \A y \in T : x <= y
<1> DEFINE R == {ss \in Nat \X Nat : ss[1] < ss[2]}
<1>1. IsWellFoundedOn(R, Nat)
  BY NatLessThanWellFounded DEF OpToRel
<1> HIDE DEF R
<1>2. PICK x \in T : \A y \in T : <<y, x>> \notin R
  BY <1>1, WFMin
<1>3. \A y \in T : ~(y < x)
  BY <1>2 DEF R
<1> QED
  BY <1>3

(* The largest element of a bounded one. *)
LEMMA LargestOf ==
    ASSUME NEW n \in Nat, NEW T, T \subseteq 0..n, T # {}
    PROVE  \E x \in T : \A y \in T : y <= x
<1> DEFINE U == {n - x : x \in T}
<1>1. U \subseteq Nat /\ U # {}
  <2>1. \A x \in T : n - x \in Nat
    OBVIOUS
  <2> QED
    BY <2>1
<1>2. PICK u \in U : \A v \in U : u <= v
  <2> HIDE DEF U
  <2> QED
    BY <1>1, SmallestOf
<1>3. PICK x \in T : u = n - x
  OBVIOUS
<1>4. \A y \in T : n - y \in U
  OBVIOUS
<1>5. ASSUME NEW y \in T
      PROVE  y <= x
  <2>1. u <= n - y
    BY <1>2, <1>4
  <2> QED
    BY <1>3, <2>1
<1> QED
  BY <1>5

(* open() goes on above everything that it can read in the newest log.     *)
LEMMA NextSequenceIdFresh ==
    ASSUME NEW l \in Log,
           \A j, n \in DOMAIN l.records :
                j < n /\ Readable(l, n) => l.records[j].seq < l.records[n].seq,
           NEW s \in NextSequenceId(l),
           NEW j \in DOMAIN l.records, Readable(l, j)
    PROVE  l.records[j].seq < s
<1> DEFINE good == {k \in DOMAIN l.records : Readable(l, k)}
           last == {k \in good : \A i \in good : i <= k}
<1>1. l.records \in Seq(Record)
  BY LogFields
<1>2. /\ good \subseteq 0..Len(l.records) /\ j \in good
      /\ Len(l.records) \in Nat
  BY <1>1
<1>3. last # {}
  <2> HIDE DEF good
  <2>1. \E x \in good : \A y \in good : y <= x
    BY <1>2, LargestOf
  <2> QED
    BY <2>1
<1>4. PICK k \in last : s = l.records[k].seq + 1
  BY <1>3 DEF NextSequenceId
<1>5. /\ k \in DOMAIN l.records /\ Readable(l, k) /\ j <= k
      /\ l.records[j] \in Record /\ l.records[k] \in Record
  BY <1>1, <1>2
<1>6. l.records[j].seq \in Nat /\ l.records[k].seq \in Nat
  BY <1>5 DEF Record
<1>7. j = k \/ j < k
  BY <1>1, <1>5
<1>8. l.records[j].seq <= l.records[k].seq
  BY <1>5, <1>6, <1>7
<1> QED
  BY <1>4, <1>6, <1>8

(* There is nothing to replay at first. *)
LEMMA InitOrder == Init => OrderInv
<1> SUFFICES ASSUME Init PROVE OrderInv
  OBVIOUS
<1>1. ~up /\ DOMAIN logs = {}
  BY DEF Init
<1> QED
  BY <1>1 DEF OrderInv, IdsAscend, SeqsAscend, LoggedFirst, SeqsFresh

(* Losing and moving records keeps their order. *)
LEMMA WithinAscends ==
    ASSUME Base, Base', IdsAscend, SeqsAscend, NEW f, Within(f)
    PROVE  IdsAscend' /\ SeqsAscend'
<1>1. IdsAscend'
  <2> SUFFICES ASSUME NEW i \in DOMAIN logs', NEW m \in DOMAIN logs',
                      NEW j \in DOMAIN logs'[i].records,
                      NEW n \in DOMAIN logs'[m].records,
                      i < m \/ (i = m /\ j < n),
                      logs'[i].records[j] # Torn,
                      logs'[m].records[n] # Torn
               PROVE  logs'[i].records[j].id < logs'[m].records[n].id
    BY DEF IdsAscend
  <2>1. /\ f[i] \in DOMAIN logs /\ j \in DOMAIN logs[f[i]].records
        /\ f[m] \in DOMAIN logs /\ n \in DOMAIN logs[f[m]].records
        /\ logs'[i].records[j] = logs[f[i]].records[j]
        /\ logs'[m].records[n] = logs[f[m]].records[n]
    BY DEF Within
  <2>2. f[i] < f[m] \/ (f[i] = f[m] /\ j < n)
    BY DEF Within
  <2> QED
    BY <2>1, <2>2 DEF IdsAscend
<1>2. SeqsAscend'
  <2> SUFFICES ASSUME NEW i \in DOMAIN logs',
                      NEW j \in DOMAIN logs'[i].records,
                      NEW n \in DOMAIN logs'[i].records,
                      j < n, Readable(logs'[i], n)
               PROVE  logs'[i].records[j].seq < logs'[i].records[n].seq
    BY DEF SeqsAscend
  <2>1. logs'[i] \in Log
    BY DEF Base, TypeOK
  <2>2. logs'[i].records \in Seq(Record)
    BY <2>1, LogFields
  <2>3. \A k \in 1..n : k \in DOMAIN logs'[i].records
    BY <2>2
  <2>4. \A k \in 1..n : logs'[i].records[k] # Torn
    BY DEF Readable
  <2>5. j \in 1..n /\ n \in 1..n
    BY <2>2
  <2>6. f[i] \in DOMAIN logs
    BY <2>3, <2>4, <2>5 DEF Within
  <2>7. \A k \in 1..n : /\ k \in DOMAIN logs[f[i]].records
                        /\ logs'[i].records[k] = logs[f[i]].records[k]
    BY <2>3, <2>4 DEF Within
  <2>8. Readable(logs[f[i]], n)
    BY <2>4, <2>7 DEF Readable
  <2> QED
    BY <2>5, <2>6, <2>7, <2>8 DEF SeqsAscend
<1> QED
  BY <1>1, <1>2

(* The steps that write no whole record, and number none or one more.      *)
LEMMA OrderStays ==
    ASSUME Base, Base', QueueInv, OrderInv,
           NEW f, Within(f),
           up' => up /\ NewestKept /\ sequenceId' >= sequenceId,
           calls' >= calls,
           \A r \in Queued' : r \in Queued
                              \/ (r.id > calls /\ r.seq >= sequenceId)
    PROVE  OrderInv'
<1>1. IdsAscend' /\ SeqsAscend'
  BY WithinAscends DEF OrderInv
<1>2. LoggedFirst'
  <2> SUFFICES ASSUME NEW i \in DOMAIN logs',
                      NEW j \in DOMAIN logs'[i].records,
                      logs'[i].records[j] # Torn
               PROVE  /\ logs'[i].records[j].id \in 1..calls'
                      /\ \A r \in Queued' : logs'[i].records[j].id < r.id
    BY DEF LoggedFirst
  <2> DEFINE id == logs'[i].records[j].id
  <2>1. id \in 1..calls /\ \A r \in Queued : id < r.id
    BY DEF Within, OrderInv, LoggedFirst
  <2>2. calls \in Nat /\ calls' \in Nat /\ \A r \in Queued' : r.id \in Nat
    <3>1. TypeOK /\ TypeOK'
      BY DEF Base
    <3> QED
      BY <3>1, QueuedTypeNext DEF TypeOK
  <2> HIDE DEF id
  <2>3. id \in 1..calls'
    BY <2>1, <2>2
  <2>4. \A r \in Queued' : id < r.id
    BY <2>1, <2>2
  <2> QED
    BY <2>3, <2>4 DEF id
<1>3. SeqsFresh'
  <2> SUFFICES ASSUME up', NEW j \in DOMAIN Newest'.records,
                      Readable(Newest', j)
               PROVE  /\ Newest'.records[j].seq < sequenceId'
                      /\ \A r \in Queued' : Newest'.records[j].seq < r.seq
    BY DEF SeqsFresh
  <2> DEFINE seq == Newest'.records[j].seq
  <2>1. up /\ NewestKept /\ sequenceId' >= sequenceId
    OBVIOUS
  <2>2. Newest' \in Log
    BY EmptySeq DEF Base, TypeOK, Shape, Newest
  <2>3. Newest'.records \in Seq(Record)
    BY <2>2, LogFields
  <2>4. \A k \in 1..j : k \in DOMAIN Newest'.records
                        /\ Newest'.records[k] # Torn
    BY <2>3 DEF Readable
  <2>5. \A k \in 1..j : k \in DOMAIN Newest.records
                        /\ Newest'.records[k] = Newest.records[k]
    BY <2>1, <2>4 DEF NewestKept
  <2>6. j \in 1..j
    BY <2>3
  <2>7. Readable(Newest, j) /\ j \in DOMAIN Newest.records
    BY <2>4, <2>5, <2>6 DEF Readable
  <2>8. seq < sequenceId /\ \A r \in Queued : seq < r.seq
    BY <2>1, <2>5, <2>6, <2>7 DEF OrderInv, SeqsFresh
  <2>9. seq \in Nat
    <3>1. Newest'.records[j] \in Record
      BY <2>3
    <3> QED
      BY <3>1 DEF Record
  <2>10. sequenceId \in Nat /\ sequenceId' \in Nat
         /\ \A r \in Queued' : r.seq \in Nat
    <3>1. TypeOK /\ TypeOK'
      BY DEF Base
    <3> QED
      BY <3>1, QueuedTypeNext DEF TypeOK
  <2> HIDE DEF seq
  <2>11. seq < sequenceId' /\ \A r \in Queued' : seq < r.seq
    BY <2>1, <2>8, <2>9, <2>10
  <2> QED
    BY <2>11 DEF seq
<1> QED
  BY <1>1, <1>2, <1>3 DEF OrderInv

(* Writing the next record of the batch puts it behind all others.         *)
LEMMA OrderWrite ==
    ASSUME Base, QueueInv, OrderInv, WriteEntry
    PROVE  OrderInv'
<1> DEFINE n == Len(logs)
           r == work.batch[work.done + 1]
           last == Len(Newest.records) + 1
           longer == Append(Newest.records, r)
<1>1. /\ up /\ logs # << >> /\ logs \in Seq(Log) /\ WriteRecord(r)
      /\ work.pc = "write" /\ n \in 1..n /\ n \in Nat
      /\ UNCHANGED <<calls, sequenceId>>
  BY DEF WriteEntry, Holds, Base, Shape, TypeOK
<1>2. /\ r \in Queued /\ r \in Record /\ Numbered(r)
      /\ Queued' \subseteq Queued
      /\ \A s \in Queued' : Before(r, s)
  BY <1>1, QueuedWritten, QueuedNumbered, NextRecord
<1>3. Newest \in Log /\ Newest.records \in Seq(Record) /\ last \in Nat
  <2>1. Newest \in Log
    BY <1>1 DEF Newest
  <2> QED
    BY <2>1, LogFields
<1>4. /\ DOMAIN logs' = 1..n /\ Len(logs') = n
      /\ \A i \in 1..n : i # n => logs'[i] = logs[i]
      /\ logs'[n].records = longer
  BY <1>1, <1>2, WriteRecordLogs
<1>5. /\ DOMAIN longer = 1..last /\ longer[last] = r
      /\ \A j \in 1..last : j # last =>
            j \in DOMAIN Newest.records /\ longer[j] = Newest.records[j]
  BY <1>2, <1>3
<1>6. Newest' = logs'[n] /\ Newest = logs[n] /\ DOMAIN logs = 1..n
  <2>1. Len(logs') = Len(logs)
    BY <1>4
  <2>2. Newest' = logs'[n] /\ Newest = logs[n]
    BY <2>1 DEF Newest
  <2>3. DOMAIN logs = 1..n
    BY <1>1
  <2> QED
    BY <2>2, <2>3
<1> HIDE DEF r, last, longer, n
<1>7. ASSUME NEW i \in 1..n, NEW j \in DOMAIN logs'[i].records,
             ~(i = n /\ j = last)
      PROVE  /\ j \in DOMAIN logs[i].records
             /\ logs'[i].records[j] = logs[i].records[j]
  BY <1>4, <1>5, <1>6, <1>7
<1>8. \A i \in 1..n : i <= n /\ i \in Nat
  BY <1>1
<1>9. IdsAscend'
  <2> SUFFICES ASSUME NEW i \in 1..n, NEW m \in 1..n,
                      NEW j \in DOMAIN logs'[i].records,
                      NEW k \in DOMAIN logs'[m].records,
                      i < m \/ (i = m /\ j < k),
                      logs'[i].records[j] # Torn,
                      logs'[m].records[k] # Torn
               PROVE  logs'[i].records[j].id < logs'[m].records[k].id
    BY <1>4 DEF IdsAscend
  <2>1. ~(i = n /\ j = last)
    BY <1>1, <1>3, <1>4, <1>5, <1>8
  <2>2. /\ j \in DOMAIN logs[i].records
        /\ logs'[i].records[j] = logs[i].records[j]
    BY <1>7, <2>1
  <2>3. CASE m = n /\ k = last
    BY <1>2, <1>4, <1>5, <1>6, <2>2, <2>3 DEF OrderInv, LoggedFirst
  <2>4. CASE ~(m = n /\ k = last)
    BY <1>6, <1>7, <2>2, <2>4 DEF OrderInv, IdsAscend
  <2> QED
    BY <2>3, <2>4
<1>10. ASSUME NEW j \in 1..last, Readable(logs'[n], j), j # last
       PROVE  Readable(Newest, j) /\ j \in DOMAIN Newest.records
              /\ longer[j] = Newest.records[j]
  <2>1. \A k \in 1..j : k \in 1..last /\ k # last
    BY <1>3, <1>10
  <2> QED
    BY <1>4, <1>5, <1>10, <2>1 DEF Readable
<1>11. ASSUME NEW j \in 1..last, NEW k \in 1..last, j < k,
              Readable(logs'[n], k)
       PROVE  Readable(logs'[n], j) /\ j # last
  <2>1. /\ last \in Nat /\ j \in Nat /\ k \in Nat /\ k <= last /\ j < k
        /\ 1..j \subseteq 1..k
    BY <1>3, <1>11
  <2> QED
    BY <1>11, <2>1 DEF Readable
<1>12. SeqsAscend'
  <2> SUFFICES ASSUME NEW i \in 1..n,
                      NEW j \in DOMAIN logs'[i].records,
                      NEW k \in DOMAIN logs'[i].records,
                      j < k, Readable(logs'[i], k)
               PROVE  logs'[i].records[j].seq < logs'[i].records[k].seq
    BY <1>4 DEF SeqsAscend
  <2>1. CASE i # n
    BY <1>4, <1>6, <2>1 DEF OrderInv, SeqsAscend
  <2>2. CASE i = n
    <3>1. j \in 1..last /\ k \in 1..last
      BY <1>4, <1>5, <2>2
    <3>2. Readable(logs'[n], j) /\ j # last
      BY <1>11, <2>2, <3>1
    <3>3. /\ Readable(Newest, j) /\ j \in DOMAIN Newest.records
          /\ longer[j] = Newest.records[j]
      BY <1>10, <3>1, <3>2
    <3>4. CASE k = last
      BY <1>1, <1>2, <1>4, <1>5, <2>2, <3>3, <3>4 DEF OrderInv, SeqsFresh
    <3>5. CASE k # last
      <4>1. /\ Readable(Newest, k) /\ k \in DOMAIN Newest.records
            /\ longer[k] = Newest.records[k]
        BY <1>10, <2>2, <3>1, <3>5
      <4> QED
        BY <1>1, <1>4, <1>6, <2>2, <3>3, <4>1 DEF OrderInv, SeqsAscend
    <3> QED
      BY <3>4, <3>5
  <2> QED
    BY <2>1, <2>2
<1>13. LoggedFirst'
  <2> SUFFICES ASSUME NEW i \in 1..n, NEW j \in DOMAIN logs'[i].records,
                      logs'[i].records[j] # Torn
               PROVE  /\ logs'[i].records[j].id \in 1..calls
                      /\ \A s \in Queued' : logs'[i].records[j].id < s.id
    BY <1>1, <1>4 DEF LoggedFirst
  <2>1. CASE i = n /\ j = last
    BY <1>2, <1>4, <1>5, <2>1 DEF Numbered, Before
  <2>2. CASE ~(i = n /\ j = last)
    BY <1>2, <1>6, <1>7, <2>2 DEF OrderInv, LoggedFirst
  <2> QED
    BY <2>1, <2>2
<1>14. SeqsFresh'
  <2> SUFFICES ASSUME NEW j \in 1..last, Readable(logs'[n], j)
               PROVE  /\ longer[j].seq < sequenceId
                      /\ \A s \in Queued' : longer[j].seq < s.seq
    BY <1>1, <1>4, <1>5, <1>6 DEF SeqsFresh
  <2>1. CASE j = last
    BY <1>2, <1>5, <2>1 DEF Numbered, Before
  <2>2. CASE j # last
    BY <1>1, <1>2, <1>10, <2>2 DEF OrderInv, SeqsFresh
  <2> QED
    BY <2>1, <2>2
<1> QED
  BY <1>9, <1>12, <1>13, <1>14 DEF OrderInv

(* open() numbers on from the newest log. *)
LEMMA OrderOpen ==
    ASSUME Base, OrderInv, Open
    PROVE  OrderInv'
<1>1. ~up /\ lock = << >> /\ pendingWrites = << >> /\ work.pc = "start"
  BY DEF Open, Base, Shape
<1>2. Queued' = {}
  BY <1>1, QueuedEmpty DEF Open
<1>3. CASE logs = << >>
  <2>1. logs' = <<EmptyLog>>
    BY <1>3 DEF Open
  <2>2. \A i \in DOMAIN logs' : DOMAIN logs'[i].records = {}
    BY <2>1 DEF EmptyLog
  <2>3. DOMAIN Newest'.records = {}
    BY <2>1 DEF EmptyLog, Newest
  <2> QED
    BY <2>2, <2>3 DEF OrderInv, IdsAscend, SeqsAscend, LoggedFirst, SeqsFresh
<1>4. CASE logs # << >>
  <2>1. /\ logs' = logs /\ calls' = calls
        /\ sequenceId' \in NextSequenceId(Newest)
    BY <1>4 DEF Open, Newest
  <2>2. IdsAscend' /\ SeqsAscend'
    BY <2>1 DEF OrderInv, IdsAscend, SeqsAscend
  <2>3. LoggedFirst'
    BY <1>2, <2>1 DEF OrderInv, LoggedFirst
  <2>4. Newest \in Log /\ Len(logs) \in DOMAIN logs
    BY <1>4 DEF Base, TypeOK, Newest
  <2>5. \A j \in DOMAIN Newest.records :
            Readable(Newest, j) => Newest.records[j].seq < sequenceId'
    BY <2>1, <2>4, NextSequenceIdFresh DEF OrderInv, SeqsAscend, Newest
  <2>6. SeqsFresh'
    BY <1>2, <2>1, <2>5 DEF SeqsFresh, Newest
  <2> QED
    BY <2>2, <2>3, <2>6 DEF OrderInv
<1> QED
  BY <1>3, <1>4

(* Only append() adds to what waits. *)
LEMMA NextQueued ==
    ASSUME Base, QueueInv, [Next]_vars, ~Append_
    PROVE  Queued' \subseteq Queued
<1>1. CASE FlushTimer \/ CheckpointCall \/ CloseCall
  <2>1. UNCHANGED <<pendingWrites, work>>
    BY <1>1 DEF FlushTimer, CheckpointCall, CloseCall
  <2>2. CASE \E k \in {"flush", "checkpoint", "close"} : Acquire(Flusher(k))
    BY <2>1, <2>2, FlusherType, QueuedFlusher
  <2>3. CASE lock' = lock
    BY <2>1, <2>3, QueuedStays
  <2> QED
    BY <1>1, <2>2, <2>3 DEF FlushTimer, CheckpointCall, CloseCall
<1>2. CASE Start
  BY <1>2, QueuedStart
<1>3. CASE WriteEntry
  BY <1>3, QueuedWritten
<1>4. CASE SyncBatch
  <2>1. CASE Release
    BY <1>4, <2>1, QueuedReleased DEF SyncBatch, Release, IdleWork, Holds
  <2>2. CASE lock' = lock /\ work' = [IdleWork EXCEPT !.pc = "rotate"]
    BY <1>4, <2>2, QueuedStays DEF SyncBatch, IdleWork
  <2> QED
    BY <1>4, <2>1, <2>2 DEF SyncBatch
<1>5. CASE Rotate \/ Unlink
  <2>1. work'.pc = "unlink"
    BY <1>5 DEF Rotate, Unlink, Holds, Base, TypeOK, Work
  <2> QED
    BY <1>5, <2>1, QueuedStays DEF Rotate, Unlink
<1>6. CASE CheckpointDone \/ RotateFails
  BY <1>6, QueuedReleased
     DEF CheckpointDone, RotateFails, Holds, Release, IdleWork
<1>7. CASE LoseMemory
  BY <1>7, QueuedEmpty DEF LoseMemory, IdleWork
<1>8. CASE BatchFails
  <2>1. CASE Release /\ UNCHANGED <<up, everyWrite, handle, sequenceId,
                                    pendingWrites>>
    BY <1>8, <2>1, QueuedReleased DEF BatchFails, Holds, Release, IdleWork
  <2> QED
    BY <1>7, <1>8, <2>1 DEF BatchFails
<1>9. CASE PowerLoss \/ Exit
  BY <1>7, <1>9 DEF PowerLoss, Exit
<1>10. CASE Open \/ CloseHandle \/ Quiescent \/ UNCHANGED vars
  <2>1. UNCHANGED <<pendingWrites, lock, work>>
    BY <1>10 DEF Open, CloseHandle, Quiescent, vars, memory
  <2> QED
    BY <2>1, QueuedStays
<1> QED
  BY <1>1, <1>2, <1>3, <1>4, <1>5, <1>6, <1>8, <1>9, <1>10 DEF Next, Step

(* Numbers go up as long as the process runs. *)
LEMMA NextNumbers ==
    ASSUME Base, [Next]_vars, ~Open
    PROVE  /\ calls' = IF Append_ THEN calls + 1 ELSE calls
           /\ calls' >= calls
           /\ up' => up /\ sequenceId' >= sequenceId
<1>1. calls \in Nat /\ sequenceId \in Nat
  BY DEF Base, TypeOK
<1>2. CASE Append_
  BY <1>1, <1>2 DEF Append_
<1>3. CASE ~Append_
  <2>1. calls' = calls
    BY <1>3 DEF Next, Step, FlushTimer, CheckpointCall, CloseCall, Start,
                WriteEntry, SyncBatch, Rotate, Unlink, CheckpointDone,
                RotateFails, BatchFails, PowerLoss, Exit, CloseHandle,
                Quiescent, vars
  <2>2. CASE LoseMemory
    BY <1>1, <1>3, <2>1, <2>2 DEF LoseMemory
  <2>3. CASE UNCHANGED <<up, sequenceId>>
    BY <1>1, <1>3, <2>1, <2>3
  <2>4. CASE Next /\ ~(PowerLoss \/ Exit \/ BatchFails)
    <3>1. UNCHANGED <<up, sequenceId>>
      BY <1>3, <2>4 DEF Next, Step, FlushTimer, CheckpointCall, CloseCall,
                Start, WriteEntry, SyncBatch, Rotate, Unlink, CheckpointDone,
                RotateFails, CloseHandle, Quiescent, vars, memory
    <3> QED
      BY <2>3, <3>1
  <2>5. CASE PowerLoss \/ Exit \/ BatchFails
    BY <2>2, <2>3, <2>5 DEF PowerLoss, Exit, BatchFails
  <2>6. CASE UNCHANGED vars
    BY <2>3, <2>6 DEF vars, memory
  <2> QED
    BY <2>4, <2>5, <2>6
<1> QED
  BY <1>2, <1>3

(* No step puts the logs out of order. *)
LEMMA NextOrder ==
    Base /\ Base' /\ QueueInv /\ OrderInv /\ [Next]_vars => OrderInv'
<1> SUFFICES ASSUME Base, Base', QueueInv, OrderInv, [Next]_vars
             PROVE  OrderInv'
  OBVIOUS
<1>1. CASE WriteEntry
  BY <1>1, OrderWrite
<1>2. CASE Open
  BY <1>2, OrderOpen
<1>3. CASE ~WriteEntry /\ ~Open
  <2>1. (\E f : Within(f)) /\ NewestKept
    BY <1>3, StepMovesLogs, LogsEmbed
  <2>2. PICK f : Within(f)
    BY <2>1
  <2>3. calls' >= calls /\ (up' => up /\ sequenceId' >= sequenceId)
    BY <1>3, NextNumbers
  <2>4. \A r \in Queued' : r \in Queued
                           \/ (r.id > calls /\ r.seq >= sequenceId)
    <3>1. CASE Append_
      <4>1. Queued' \subseteq
                Queued \cup {[id |-> calls + 1, seq |-> sequenceId]}
        BY <3>1, QueuedAppend
      <4>2. calls \in Nat /\ sequenceId \in Nat
        BY DEF Base, TypeOK
      <4> QED
        BY <4>1, <4>2
    <3>2. CASE ~Append_
      BY <3>2, NextQueued
    <3> QED
      BY <3>1, <3>2
  <2> QED
    BY <2>1, <2>2, <2>3, <2>4, OrderStays
<1> QED
  BY <1>1, <1>2, <1>3

(* The queue and the logs are always in order. *)
LEMMA OrderHolds == Spec => [](QueueInv /\ OrderInv)
<1>1. Init => QueueInv /\ OrderInv
  BY InitQueue, InitOrder
<1>2. Base /\ Base' /\ QueueInv /\ OrderInv /\ [Next]_vars
        => QueueInv' /\ OrderInv'
  BY NextQueue, NextOrder
<1> QED
  BY <1>1, <1>2, BaseHolds, PTL DEF Spec

(* Replay returns records in the order in which append() was called, and   *)
(* none twice, whatever batches, single writes, checkpoints, failures and  *)
(* restarts did to the logs before; in every log their sequence ids        *)
(* increase.                                                               *)
THEOREM ReplaysInOrder == Spec => []ReplayInOrder
<1>1. ASSUME Base, OrderInv
      PROVE  ReplayInOrder
  <2> SUFFICES ASSUME NEW i \in DOMAIN logs, NEW m \in DOMAIN logs,
                      NEW j \in DOMAIN logs[i].records,
                      NEW n \in DOMAIN logs[m].records,
                      i < m \/ (i = m /\ j < n),
                      Readable(logs[i], j), Readable(logs[m], n)
               PROVE  /\ logs[i].records[j].id < logs[m].records[n].id
                      /\ i = m =>
                            logs[i].records[j].seq < logs[m].records[n].seq
    BY DEF ReplayInOrder
  <2>1. logs[i] \in Log /\ logs[m] \in Log /\ i \in Nat /\ m \in Nat
    BY <1>1 DEF Base, TypeOK
  <2>2. logs[i].records \in Seq(Record) /\ logs[m].records \in Seq(Record)
    BY <2>1, LogFields
  <2>3. j \in 1..j /\ n \in 1..n
    BY <2>2
  <2>4. logs[i].records[j] # Torn /\ logs[m].records[n] # Torn
    BY <2>3 DEF Readable
  <2>5. logs[i].records[j].id < logs[m].records[n].id
    BY <1>1, <2>4 DEF OrderInv, IdsAscend
  <2>6. i = m => logs[i].records[j].seq < logs[m].records[n].seq
    BY <1>1, <2>1 DEF OrderInv, SeqsAscend
  <2> QED
    BY <2>5, <2>6
<1>2. Base /\ OrderInv => ReplayInOrder
  BY <1>1
<1> QED
  BY <1>2, BaseHolds, OrderHolds, PTL

-----------------------------------------------------------------------------
(* Nothing is missing between two acknowledged appends *)

(* What is acknowledged was appended before everything that waits or is    *)
(* at work.                                                                *)
AckedFirst ==
    \A b \in acked :
        /\ b \in 1..calls
        /\ \A r \in Queued : b < r.id
        /\ Batching => \A k \in DOMAIN work.batch : b < work.batch[k].id

Whole == \A i \in DOMAIN logs : \A j \in DOMAIN logs[i].records :
            logs[i].records[j] # Torn

(* Append id has left the logs, and with it everything before it.          *)
Gone(id) ==
    \A i \in DOMAIN logs : \A j \in DOMAIN logs[i].records :
        logs[i].records[j] # Torn => id < logs[i].records[j].id

HoleInv ==
    /\ AckedFirst
    /\ used["torn"] = 0 => Whole
    /\ used["unlinkFaults"] = 0 =>
        /\ work.pc = "unlink" => work.done = 0
        /\ \A b \in acked : Synced(b) \/ Gone(b)

(* The counters of the bounds go up. *)
LEMMA UsedGrows ==
    ASSUME Base, [Next]_vars
    PROVE  /\ used'["torn"] = 0 => used["torn"] = 0
           /\ used'["unlinkFaults"] = 0 => used["unlinkFaults"] = 0
<1>1. /\ used \in [Bounds -> Nat]
      /\ used["torn"] \in Nat /\ used["unlinkFaults"] \in Nat
  BY DEF Base, TypeOK, Bounds
<1>2. CASE used' = used
  BY <1>2
<1>3. ASSUME NEW b \in Bounds, Spend(b)
      PROVE  /\ used'["torn"] = 0 => used["torn"] = 0
             /\ used'["unlinkFaults"] = 0 => used["unlinkFaults"] = 0
  BY <1>1, <1>3 DEF Spend, Bounds
<1>4. ASSUME NEW b \in {"faults", "restarts"},
             used' = [used EXCEPT ![b] = @ + 1, !["torn"] = @ + 1]
      PROVE  /\ used'["torn"] = 0 => used["torn"] = 0
             /\ used'["unlinkFaults"] = 0 => used["unlinkFaults"] = 0
  BY <1>1, <1>4 DEF Bounds
<1>5. CASE Next /\ ~(BatchFails \/ PowerLoss)
  <2>1. used' = used \/ \E b \in Bounds : Spend(b)
    BY <1>5 DEF Next, Step, Open, Append_, FlushTimer, CheckpointCall,
                CloseCall, Start, WriteEntry, SyncBatch, Rotate, Unlink,
                CheckpointDone, RotateFails, Exit, CloseHandle, Quiescent,
                vars, Bounds
  <2> QED
    BY <1>2, <1>3, <2>1
<1>6. CASE BatchFails
  <2>1. \/ used' = used \/ Spend("faults")
        \/ used' = [used EXCEPT !["faults"] = @ + 1, !["torn"] = @ + 1]
    BY <1>6 DEF BatchFails
  <2> QED
    BY <1>2, <1>3, <1>4, <2>1 DEF Bounds
<1>7. CASE PowerLoss
  <2>1. \/ Spend("restarts")
        \/ used' = [used EXCEPT !["restarts"] = @ + 1, !["torn"] = @ + 1]
    BY <1>7 DEF PowerLoss
  <2> QED
    BY <1>3, <1>4, <2>1 DEF Bounds
<1>8. CASE UNCHANGED vars
  BY <1>2, <1>8 DEF vars
<1> QED
  BY <1>5, <1>6, <1>7, <1>8

(* A step without a torn record leaves no torn record.                     *)
LEMMA WholeStays ==
    ASSUME Base, Base', QueueInv, [Next]_vars, Whole, used'["torn"] = 0
    PROVE  Whole'
<1>1. logs \in Seq(Log) /\ logs' \in Seq(Log)
  BY DEF Base, TypeOK
<1>2. used["torn"] + 1 # 0
  BY SMTT(30) DEF Base, TypeOK, Bounds
<1>4. CASE logs' = logs
  BY <1>4 DEF Whole
<1>5. CASE WriteEntry
  <2> DEFINE n == Len(logs)
             r == work.batch[work.done + 1]
             longer == Append(Newest.records, r)
  <2>1. /\ logs # << >> /\ WriteRecord(r) /\ work.pc = "write"
        /\ n \in DOMAIN logs /\ Newest \in Log
    BY <1>1, <1>5 DEF WriteEntry, Holds, Base, Shape, Newest
  <2>2. r \in Record /\ r \in Queued
    BY <1>5, <2>1, NextRecord, QueuedWritten
  <2>3. r # Torn
    <3>1. r.id \in 1..calls
      BY <2>2, QueuedNumbered DEF Numbered
    <3> QED
      BY <3>1 DEF Torn
  <2>4. /\ Len(logs') = n
        /\ \A i \in DOMAIN logs : i # n => logs'[i] = logs[i]
        /\ logs'[n].records = longer
    BY <1>1, <2>1, <2>2, WriteRecordLogs
  <2>5. Newest.records \in Seq(Record)
    BY <2>1, LogFields
  <2>6. \A j \in DOMAIN longer : longer[j] = r
            \/ (j \in DOMAIN Newest.records /\ longer[j] = Newest.records[j])
    BY <2>2, <2>5
  <2>7. DOMAIN logs' = DOMAIN logs
    BY <1>1, <2>4
  <2> HIDE DEF longer, r, n
  <2>8. \A j \in DOMAIN longer : longer[j] # Torn
    BY <2>1, <2>3, <2>6 DEF Whole, Newest, n
  <2> QED
    BY <2>4, <2>7, <2>8 DEF Whole
<1>6. CASE logs # << >> /\ SyncLog
  <2>1. DOMAIN logs' = DOMAIN logs
    BY <1>1, <1>6, SyncLogLogs
  <2>2. \A i \in DOMAIN logs : logs'[i].records = logs[i].records
    BY <1>1, <1>6, SyncLogLogs DEF Newest
  <2> QED
    BY <2>1, <2>2 DEF Whole
<1>7. CASE logs' = Append(logs, EmptyLog) \/ logs' = <<EmptyLog>>
  <2>1. \A i \in DOMAIN logs' :
            \/ i \in DOMAIN logs /\ logs'[i] = logs[i]
            \/ logs'[i] = EmptyLog
    <3>1. CASE logs' = Append(logs, EmptyLog)
      BY <1>1, <3>1, AddLogLogs
    <3>2. CASE logs' = <<EmptyLog>>
      BY <3>2
    <3> QED
      BY <1>7, <3>1, <3>2
  <2>2. DOMAIN EmptyLog.records = {}
    BY DEF EmptyLog
  <2> QED
    BY <2>1, <2>2 DEF Whole
<1>8. ASSUME NEW i \in 1..(Len(logs) - 1), logs' = WithoutLog(i)
      PROVE  Whole'
  <2>1. \A j \in DOMAIN logs' : \E k \in DOMAIN logs : logs'[j] = logs[k]
    <3>1. /\ DOMAIN logs' = 1..(Len(logs) - 1)
          /\ \A j \in DOMAIN logs' :
                logs'[j] = IF j < i THEN logs[j] ELSE logs[j + 1]
      BY <1>1, <1>8, WithoutLogLogs
    <3>2. \A j \in 1..(Len(logs) - 1) : j \in DOMAIN logs /\ j + 1 \in DOMAIN logs
      BY <1>1
    <3> QED
      BY <3>1, <3>2
  <2> QED
    BY <2>1 DEF Whole
<1>9. ASSUME NEW c \in Cuts, logs' = CutTo(c)
      PROVE  Whole'
  <2>1. DOMAIN logs' = DOMAIN logs
    BY <1>1, <1>9, CutLogs
  <2>2. ASSUME NEW i \in DOMAIN logs, NEW j \in DOMAIN logs'[i].records
        PROVE  /\ j \in DOMAIN logs[i].records
               /\ logs'[i].records[j] = logs[i].records[j]
    <3>1. logs'[i] \in Log /\ logs[i] \in Log
      BY <1>1, <2>1
    <3>2. logs'[i].records \in Seq(Record) /\ logs[i].records \in Seq(Record)
      BY <3>1, LogFields
    <3>3. /\ c[i] <= Len(logs[i].records) /\ c[i] \in Nat
          /\ Len(logs'[i].records) = c[i]
          /\ \A k \in 1..c[i] : logs'[i].records[k] = logs[i].records[k]
      BY <1>1, <1>9, CutLogs
    <3> QED
      BY <3>2, <3>3
  <2> QED
    BY <2>1, <2>2 DEF Whole
<1>10. CASE BatchFails
  <2>1. logs' = logs \/ used' = [used EXCEPT !["faults"] = @ + 1,
                                             !["torn"] = @ + 1]
    BY <1>10 DEF BatchFails
  <2>2. used' # [used EXCEPT !["faults"] = @ + 1, !["torn"] = @ + 1]
    BY <1>2 DEF Base, TypeOK, Bounds
  <2> QED
    BY <1>4, <2>1, <2>2
<1>11. CASE PowerLoss
  <2>1. used' # [used EXCEPT !["restarts"] = @ + 1, !["torn"] = @ + 1]
    BY <1>2 DEF Base, TypeOK, Bounds
  <2>2. \E c \in Cuts : logs' = CutTo(c)
    BY <1>11, <2>1 DEF PowerLoss
  <2> QED
    BY <1>9, <2>2
<1>12. CASE Unlink
  <2>1. work.done \in Nat
    BY DEF Base, TypeOK, Work
  <2>2. work.done + 1 \in 1..(Len(logs) - 1)
    BY <1>1, <1>12, <2>1 DEF Unlink
  <2>3. logs' = logs \/ logs' = WithoutLog(work.done + 1)
    BY <1>12 DEF Unlink
  <2> QED
    BY <1>4, <1>8, <2>2, <2>3
<1>13. CASE Open \/ Rotate
  BY <1>4, <1>7, <1>13 DEF Open, Rotate
<1>14. CASE SyncBatch
  BY <1>6, <1>14 DEF SyncBatch, Holds, Base, Shape
<1>15. CASE Append_ \/ FlushTimer \/ CheckpointCall \/ CloseCall \/ Start
            \/ CheckpointDone \/ RotateFails \/ Exit \/ CloseHandle
            \/ Quiescent \/ UNCHANGED vars
  BY <1>4, <1>15 DEF Append_, FlushTimer, CheckpointCall, CloseCall, Start,
      CheckpointDone, RotateFails, Exit, CloseHandle, Quiescent, vars
<1> QED
  BY <1>5, <1>10, <1>11, <1>12, <1>13, <1>14, <1>15 DEF Next, Step

(* What the holder of the lock takes was waiting. *)
LEMMA StartTakes ==
    ASSUME Base, Start
    PROVE  Batching' => \A k \in DOMAIN work'.batch : work'.batch[k] \in Queued
<1>1. work = IdleWork /\ lock # << >> /\ lock \in Seq(Actor)
  BY DEF Start, Holds, Base, Shape, TypeOK
<1>2. CASE /\ Holder = "write"
           /\ work' = [work EXCEPT !.pc = "write",
                                   !.batch = <<Head(lock).record>>]
  <2>1. 1 \in DOMAIN lock /\ Writes(1) /\ Head(lock) = lock[1]
    BY <1>1, <1>2 DEF Holder, Writes
  <2>2. work'.batch = <<lock[1].record>>
    BY <1>1, <1>2, <2>1 DEF IdleWork
  <2>3. lock[1].record \in Queued
    BY <1>1, <2>1 DEF Queued, IdleWork
  <2> QED
    BY <2>2, <2>3
<1>3. CASE TakeBatch
  <2>1. work'.batch = pendingWrites
    BY <1>1, <1>3 DEF TakeBatch, IdleWork
  <2> QED
    BY <2>1 DEF Queued
<1>4. CASE work' = [work EXCEPT !.pc = "rotate"] \/ work' = IdleWork
  BY <1>1, <1>4 DEF IdleWork, Batching
<1> QED
  BY <1>2, <1>3, <1>4 DEF Start, Release

(* A step that is not a start puts no other batch to work.                 *)
LEMMA BatchStays ==
    ASSUME Base, [Next]_vars, ~Start
    PROVE  Batching' => Batching /\ work'.batch = work.batch
<1>1. work \in Work
  BY DEF Base, TypeOK
<1>2. CASE work' = work
  BY <1>2 DEF Batching
<1>3. CASE work'.pc \notin {"write", "sync"}
  BY <1>3 DEF Batching
<1>4. CASE WriteEntry
  BY <1>1, <1>4 DEF WriteEntry, Holds, Work, Batching
<1>5. CASE SyncBatch
  BY <1>3, <1>5 DEF SyncBatch, Release, IdleWork
<1>6. CASE Rotate \/ Unlink
  BY <1>1, <1>3, <1>6 DEF Rotate, Unlink, Holds, Work
<1>7. CASE CheckpointDone \/ RotateFails \/ BatchFails \/ PowerLoss \/ Exit
  BY <1>3, <1>7 DEF CheckpointDone, RotateFails, BatchFails, PowerLoss, Exit,
                    Release, LoseMemory, IdleWork
<1>8. CASE Open \/ Append_ \/ FlushTimer \/ CheckpointCall \/ CloseCall
           \/ CloseHandle \/ Quiescent \/ UNCHANGED vars
  BY <1>2, <1>8 DEF Open, Append_, FlushTimer, CheckpointCall, CloseCall,
                    CloseHandle, Quiescent, vars, memory
<1> QED
  BY <1>4, <1>5, <1>6, <1>7, <1>8 DEF Next, Step

(* Only the end of a batch acknowledges. *)
LEMMA AckedStays ==
    ASSUME [Next]_vars, ~SyncBatch
    PROVE  acked' = acked
BY DEF Next, Step, Open, Append_, FlushTimer, CheckpointCall, CloseCall, Start,
       WriteEntry, Rotate, Unlink, CheckpointDone, RotateFails, BatchFails,
       PowerLoss, Exit, CloseHandle, Quiescent, vars

(* What comes next comes after what was acknowledged. *)
LEMMA NextAckedFirst ==
    ASSUME Base, QueueInv, AckedFirst, [Next]_vars
    PROVE  AckedFirst'
<1>1. calls \in Nat
  BY DEF Base, TypeOK
<1>2. CASE SyncBatch
  <2>1. ~Batching' /\ ~Append_ /\ ~Open /\ work.pc = "sync"
    BY <1>2 DEF SyncBatch, Release, IdleWork, Batching, Holds, Append_, Open,
                Base, Shape
  <2>2. Queued' \subseteq Queued /\ calls' = calls
    BY <1>2, <2>1, NextQueued, NextNumbers DEF Next, Step
  <2>3. \A k \in DOMAIN work.batch :
            /\ work.batch[k].id \in 1..calls
            /\ \A r \in Queued : work.batch[k].id < r.id
    BY <2>1 DEF QueueInv, BatchInOrder, Batching, Numbered, Before, Queued
  <2>4. \A b \in acked' : b \in acked \/
            \E k \in DOMAIN work.batch : b = work.batch[k].id
    BY <1>2 DEF SyncBatch, Ids
  <2> QED
    BY <2>1, <2>2, <2>3, <2>4 DEF AckedFirst
<1>3. CASE ~SyncBatch
  <2>1. acked' = acked
    BY <1>3, AckedStays
  <2>2. calls' >= calls /\ calls' \in Nat
    <3>1. CASE Open
      BY <1>1, <3>1 DEF Open
    <3>2. CASE ~Open
      BY <1>1, <3>2, NextNumbers
    <3> QED
      BY <3>1, <3>2
  <2>3. ASSUME NEW b \in acked, NEW r \in Queued'
        PROVE  b < r.id
    <3>1. CASE Append_
      <4>1. r \in Queued \/ r.id = calls + 1
        BY <3>1, QueuedAppend
      <4> QED
        BY <1>1, <4>1 DEF AckedFirst
    <3>2. CASE ~Append_
      BY <3>2, NextQueued DEF AckedFirst
    <3> QED
      BY <3>1, <3>2
  <2>4. ASSUME Batching', NEW b \in acked, NEW k \in DOMAIN work'.batch
        PROVE  b < work'.batch[k].id
    <3>1. CASE Start
      BY <2>4, <3>1, StartTakes DEF AckedFirst
    <3>2. CASE ~Start
      BY <2>4, <3>2, BatchStays DEF AckedFirst
    <3> QED
      BY <3>1, <3>2
  <2>5. \A b \in acked : b \in 1..calls'
    BY <1>1, <2>2 DEF AckedFirst
  <2> QED
    BY <2>1, <2>3, <2>4, <2>5 DEF AckedFirst
<1> QED
  BY <1>2, <1>3

(* The first log leaves with everything before its last record.            *)
LEMMA OldestUnlinked ==
    ASSUME Base, Base', OrderInv, 1 \in 1..(Len(logs) - 1),
           logs' = WithoutLog(1), NEW id \in Nat \ {0}, Synced(id)
    PROVE  Synced(id)' \/ Gone(id)'
<1>1. PICK i \in DOMAIN logs : \E j \in 1..logs[i].synced :
        logs[i].records[j].id = id
  BY DEF Synced
<1>2. PICK j \in 1..logs[i].synced : logs[i].records[j].id = id
  BY <1>1
<1>3. logs \in Seq(Log)
  BY DEF Base, TypeOK
<1>4. /\ DOMAIN logs' = 1..(Len(logs) - 1)
      /\ \A m \in DOMAIN logs' : logs'[m] = logs[m + 1]
  BY <1>3, WithoutLogLogs
<1>5. CASE i # 1
  <2>1. i - 1 \in DOMAIN logs' /\ (i - 1) + 1 = i
    BY <1>3, <1>4, <1>5
  <2>2. logs'[i - 1] = logs[i]
    BY <1>4, <2>1
  <2> QED
    BY <1>2, <2>1, <2>2 DEF Synced
<1>6. CASE i = 1
  <2>1. logs[i] \in Log /\ logs[i].synced <= Len(logs[i].records)
    BY <1>3 DEF Base, SyncedInside
  <2>2. j \in DOMAIN logs[i].records
    <3>1. logs[i].records \in Seq(Record) /\ logs[i].synced \in Nat
      BY <2>1, LogFields
    <3> QED
      BY <2>1, <3>1
  <2>3. logs[i].records[j] # Torn
    BY <1>2 DEF Torn
  <2>4. ASSUME NEW m \in DOMAIN logs', NEW k \in DOMAIN logs'[m].records,
               logs'[m].records[k] # Torn
        PROVE  id < logs'[m].records[k].id
    <3>1. m + 1 \in DOMAIN logs /\ i < m + 1 /\ logs'[m] = logs[m + 1]
      BY <1>3, <1>4, <1>6
    <3> QED
      BY <1>2, <2>2, <2>3, <2>4, <3>1 DEF OrderInv, IdsAscend
  <2> QED
    BY <2>4 DEF Gone
<1> QED
  BY <1>5, <1>6

(* What has left the logs stays away. *)
LEMMA GoneStays ==
    ASSUME Base, QueueInv, AckedFirst, [Next]_vars, NEW id \in acked, Gone(id)
    PROVE  Gone(id)'
<1>1. CASE ~WriteEntry
  <2>1. PICK f : Within(f)
    BY <1>1, StepMovesLogs, LogsEmbed
  <2> QED
    BY <2>1 DEF Within, Gone
<1>2. CASE WriteEntry
  <2> DEFINE n == Len(logs)
             r == work.batch[work.done + 1]
             longer == Append(Newest.records, r)
  <2>1. /\ logs # << >> /\ WriteRecord(r) /\ work.pc = "write"
        /\ n \in DOMAIN logs /\ Newest \in Log /\ logs \in Seq(Log)
    BY <1>2 DEF WriteEntry, Holds, Base, TypeOK, Shape, Newest
  <2>2. r \in Record /\ r \in Queued
    BY <1>2, <2>1, NextRecord, QueuedWritten
  <2>3. id < r.id
    BY <2>2 DEF AckedFirst
  <2>4. /\ Len(logs') = n /\ logs' \in Seq(Log)
        /\ \A i \in DOMAIN logs : i # n => logs'[i] = logs[i]
        /\ logs'[n].records = longer
    BY <2>1, <2>2, WriteRecordLogs
  <2>5. Newest.records \in Seq(Record)
    BY <2>1, LogFields
  <2>6. \A j \in DOMAIN longer : longer[j] = r
            \/ (j \in DOMAIN Newest.records /\ longer[j] = Newest.records[j])
    BY <2>2, <2>5
  <2>7. DOMAIN logs' = DOMAIN logs
    BY <2>1, <2>4
  <2> HIDE DEF longer, r, n
  <2>8. \A j \in DOMAIN longer : longer[j] # Torn => id < longer[j].id
    BY <2>1, <2>3, <2>6 DEF Gone, Newest, n
  <2> QED
    BY <2>4, <2>7, <2>8 DEF Gone
<1> QED
  BY <1>1, <1>2

(* There are no holes at first. *)
LEMMA InitHole == Init => HoleInv
<1> SUFFICES ASSUME Init PROVE HoleInv
  OBVIOUS
<1>1. acked = {} /\ DOMAIN logs = {} /\ work.pc = "start"
  BY DEF Init, IdleWork
<1> QED
  BY <1>1 DEF HoleInv, AckedFirst, Whole

(* No step makes a hole. *)
LEMMA NextHole ==
    Base /\ Base' /\ DurableInv /\ QueueInv /\ OrderInv /\ HoleInv
        /\ [Next]_vars => HoleInv'
<1> SUFFICES ASSUME Base, Base', DurableInv, QueueInv, OrderInv, HoleInv,
                    [Next]_vars
             PROVE  HoleInv'
  OBVIOUS
<1>1. AckedFirst'
  BY NextAckedFirst DEF HoleInv
<1>2. used'["torn"] = 0 => Whole'
  BY UsedGrows, WholeStays DEF HoleInv
<1>3. ASSUME used'["unlinkFaults"] = 0
      PROVE  work'.pc = "unlink" => work'.done = 0
  <2>1. used["unlinkFaults"] = 0
    BY <1>3, UsedGrows
  <2>2. work \in Work /\ (work.pc = "unlink" => work.done = 0)
    BY <2>1 DEF HoleInv, Base, TypeOK
  <2>3. CASE work' = work \/ work'.pc # "unlink"
    BY <2>2, <2>3
  <2>4. CASE Rotate
    <3>1. work'.done = work.done /\ work.done = 0
      BY <2>2, <2>4 DEF Rotate, Holds, Base, Shape, Work
    <3> QED
      BY <3>1
  <2>5. CASE Unlink
    <3>1. ~Spend("unlinkFaults")
      BY <1>3, <2>1 DEF Spend, Base, TypeOK, Bounds
    <3> QED
      BY <2>3, <2>5, <3>1 DEF Unlink
  <2>6. CASE Start
    <3>1. work = IdleWork
      BY <2>6 DEF Start, Holds, Base, Shape
    <3>2. \/ \E b : work' = [work EXCEPT !.pc = "write", !.batch = b]
          \/ work' = [work EXCEPT !.pc = "rotate"]
          \/ work' = IdleWork
      BY <2>6 DEF Start, TakeBatch, Release
    <3>3. CASE \E b : work' = [work EXCEPT !.pc = "write", !.batch = b]
      <4>1. PICK b : work' = [work EXCEPT !.pc = "write", !.batch = b]
        BY <3>3
      <4>2. work'.pc = "write"
        BY <3>1, <4>1 DEF IdleWork
      <4> QED
        BY <4>2
    <3>4. CASE work' = [work EXCEPT !.pc = "rotate"] \/ work' = IdleWork
      BY <3>1, <3>4 DEF IdleWork
    <3> QED
      BY <3>2, <3>3, <3>4
  <2>7. CASE WriteEntry
    BY <2>2, <2>3, <2>7 DEF WriteEntry, Work
  <2>8. CASE SyncBatch
    BY <2>3, <2>8 DEF SyncBatch, Release, IdleWork
  <2>9. CASE CheckpointDone \/ RotateFails \/ BatchFails \/ PowerLoss \/ Exit
    BY <2>3, <2>9 DEF CheckpointDone, RotateFails, BatchFails, PowerLoss,
                      Exit, Release, LoseMemory, IdleWork
  <2>10. CASE Open \/ Append_ \/ FlushTimer \/ CheckpointCall \/ CloseCall
              \/ CloseHandle \/ Quiescent \/ UNCHANGED vars
    BY <2>3, <2>10 DEF Open, Append_, FlushTimer, CheckpointCall, CloseCall,
                       CloseHandle, Quiescent, vars, memory
  <2> QED
    BY <2>4, <2>5, <2>6, <2>7, <2>8, <2>9, <2>10 DEF Next, Step
<1>4. ASSUME used'["unlinkFaults"] = 0, NEW b \in acked'
      PROVE  Synced(b)' \/ Gone(b)'
  <2>1. used["unlinkFaults"] = 0
    BY <1>4, UsedGrows
  <2>2. CASE SyncBatch /\ b \in Ids(work.batch)
    BY <2>2, BatchSynced DEF DurableInv
  <2>3. b \in acked \/ (SyncBatch /\ b \in Ids(work.batch))
    BY <1>4, AckedStays DEF SyncBatch
  <2>4. CASE b \in acked /\ Gone(b)
    BY <2>4, GoneStays DEF HoleInv
  <2>5. CASE b \in acked /\ Synced(b)
    <3>1. CASE LogsStay
      BY <2>5, <3>1, SyncedStays DEF Base, TypeOK
    <3>2. CASE Unlink
      <4>1. work.done = 0 /\ ~Spend("unlinkFaults") /\ logs \in Seq(Log)
        BY <1>4, <2>1, <3>2
           DEF HoleInv, Unlink, Holds, Spend, Base, TypeOK, Bounds
      <4>2. logs' = WithoutLog(1) /\ 1 \in 1..(Len(logs) - 1)
        BY <3>2, <4>1 DEF Unlink
      <4>3. b \in 1..calls /\ calls \in Nat
        BY <2>5 DEF HoleInv, AckedFirst, Base, TypeOK
      <4>4. b \in Nat \ {0}
        BY <4>3
      <4> QED
        BY <2>5, <4>2, <4>4, OldestUnlinked
    <3> QED
      BY <3>1, <3>2, StepMovesLogs
  <2>6. b \in acked => Synced(b) \/ Gone(b)
    BY <2>1 DEF HoleInv
  <2> QED
    BY <2>2, <2>3, <2>4, <2>5, <2>6
<1> QED
  BY <1>1, <1>2, <1>3, <1>4 DEF HoleInv

(* Replay never goes back in time: without torn records and failing        *)
(* unlinks, when it returns an acknowledged append it also returns every   *)
(* later acknowledged one, however many logs a checkpoint has deleted when *)
(* the power fails.                                                        *)
THEOREM ReplaysWithoutHoles == Spec => []ReplayHasNoHoles
<1>1. Spec => []DurableInv
  BY InitDurable, NextDurable, BaseHolds, PTL DEF Spec
<1>2. Spec => []HoleInv
  BY <1>1, InitHole, NextHole, BaseHolds, OrderHolds, PTL DEF Spec
<1>3. ASSUME Base, HoleInv
      PROVE  ReplayHasNoHoles
  <2> SUFFICES ASSUME used["torn"] = 0, used["unlinkFaults"] = 0,
                      NEW a \in acked, NEW b \in acked, a < b, Replayed(a)
               PROVE  Replayed(b)
    BY DEF ReplayHasNoHoles
  <2>1. Whole /\ (Synced(b) \/ Gone(b))
    BY <1>3 DEF HoleInv
  <2>2. a \in Nat /\ b \in Nat
    BY <1>3 DEF Base, TypeOK
  <2>3. ~Gone(b)
    <3>1. PICK i \in DOMAIN logs : \E j \in DOMAIN logs[i].records :
            Readable(logs[i], j) /\ logs[i].records[j].id = a
      BY DEF Replayed
    <3>2. PICK j \in DOMAIN logs[i].records :
            Readable(logs[i], j) /\ logs[i].records[j].id = a
      BY <3>1
    <3>3. logs[i].records[j] # Torn
      BY <2>1 DEF Whole
    <3> QED
      BY <2>2, <3>2, <3>3 DEF Gone
  <2>4. PICK i \in DOMAIN logs : \E j \in 1..logs[i].synced :
            logs[i].records[j].id = b
    BY <2>1, <2>3 DEF Synced
  <2>5. PICK j \in 1..logs[i].synced : logs[i].records[j].id = b
    BY <2>4
  <2>6. logs[i] \in Log /\ logs[i].synced <= Len(logs[i].records)
    BY <1>3 DEF Base, TypeOK, SyncedInside
  <2>7. logs[i].records \in Seq(Record) /\ logs[i].synced \in Nat
    BY <2>6, LogFields
  <2>8. \A k \in 1..j : k \in DOMAIN logs[i].records
    BY <2>6, <2>7
  <2>9. j \in DOMAIN logs[i].records /\ Readable(logs[i], j)
    BY <2>1, <2>6, <2>7, <2>8 DEF Whole, Readable
  <2> QED
    BY <2>5, <2>9 DEF Replayed
<1>4. Base /\ HoleInv => ReplayHasNoHoles
  BY <1>3
<1> QED
  BY <1>2, <1>4, BaseHolds, PTL
=============================================================================
