---------------------------- MODULE Replication -----------------------------
(***************************************************************************)
(* Primary-backup replication: the primary's ReplicationManager, the       *)
(* backup's ReplicationServer and the TCP connections between them.        *)
(*                                                                         *)
(* Every entry the primary's log has synced is handed to replicate(),      *)
(* which writes it to the socket when it is connected and forgets it when  *)
(* it is not.  Entries are numbered in that order.  The backup applies     *)
(* what one connection brings entry by entry and answers each with an      *)
(* acknowledgement.  A connection is reliable and ordered until one end    *)
(* closes it; each end learns of the close on its own.  What the primary   *)
(* has received of an acknowledgement when a connection ends stays in its  *)
(* receive buffer, in front of what later connections bring.               *)
(***************************************************************************)
EXTENDS Integers, Sequences

CONSTANTS
    Conns,              \* names of connections; reused when both ends are done
    None,               \* no connection
    MaxWrites,          \* bound: entries written on the primary
    Kinds,              \* the disturbances that may happen
    MaxDisturbances     \* bound: disturbances, of all kinds together

(* An inactivity timeout of the primary's socket, a connection that        *)
(* breaks, a restart of either end, an entry the backup fails to apply, a  *)
(* close the backup is never told about, entries that the backup's store   *)
(* loses by itself.                                                        *)
Disturbances == {"timeout", "networkError", "primaryRestart",
                 "backupRestart", "applyFault", "silentEnd", "storeLoss"}

ASSUME ReplicationAssumption ==
    /\ None \notin Conns
    /\ MaxWrites \in Nat
    /\ Kinds \subseteq Disturbances
    /\ MaxDisturbances \in Nat

VARIABLES
    written,       \* number of entries the primary has written
    connected,     \* ReplicationManager.connected
    connecting,    \* who awaits connect(): nobody, startApplication, the timer
    timer,         \* reconnectTimer is set
    socket,        \* ReplicationManager.socket
    pendingAcks,   \* entries sent and not yet answered, in order
    stray,         \* ReplicationManager.buffer holds bytes of a connection
                   \* that has ended
    conn,          \* the connections, as both ends see them
    serverUp,      \* the backup runs and listens
    primarySocket, \* ReplicationServer.primarySocket
    applied,       \* auxiliary: how often the backup has applied each entry
    lost,          \* auxiliary: entries the backup's store lost by itself
    confirmed,     \* auxiliary: entries the primary counts as replicated
    misread,       \* auxiliary: those it counts by bytes that are no answer
    disturbances   \* how many there have been

manager == <<connected, connecting, timer, socket, pendingAcks, stray>>
entries == <<applied, lost, confirmed, misread>>
vars == <<written, manager, conn, serverUp, primarySocket, entries,
          disturbances>>

-----------------------------------------------------------------------------
(* The entries of the primary's log. *)
Entries == 1..MaxWrites

Ack == [id : Nat, ok : BOOLEAN]

Connection ==
    [primary : {"none", "connecting", "open", "closed"},
     backup : {"none", "backlog", "accepted", "errored", "gone"},
     toBackup : Seq(Nat),    \* sent by the primary, not received
     buffer : Seq(Nat),      \* received, not applied; the socket is paused
     handling : Seq(Ack),    \* the entry in entryHandler, if any
     toPrimary : Seq(Ack),   \* acknowledgements on their way
     answered : BOOLEAN,     \* an acknowledgement was sent to a closed peer
     silent : BOOLEAN]       \* the close of the primary gets lost

NoConnection ==
    [primary |-> "none", backup |-> "none", toBackup |-> << >>,
     buffer |-> << >>, handling |-> << >>, toPrimary |-> << >>,
     answered |-> FALSE, silent |-> FALSE]

Disturb(kind) ==
    /\ kind \in Kinds
    /\ disturbances < MaxDisturbances
    /\ disturbances' = disturbances + 1

Busy(c) == conn[c].buffer # << >> \/ conn[c].handling # << >>

Free(c) == /\ conn[c].primary \in {"none", "closed"}
           /\ conn[c].backup \in {"none", "gone"}
           /\ ~Busy(c)

Current == conn[socket]

-----------------------------------------------------------------------------
(* The primary starts with connect(), before its servers take requests.    *)
Init ==
    /\ written = 0
    /\ connected = FALSE
    /\ connecting = "start"
    /\ timer = FALSE
    /\ socket \in Conns
    /\ pendingAcks = << >>
    /\ stray = FALSE
    /\ conn = [c \in Conns |->
                 IF c = socket
                 THEN [NoConnection EXCEPT !.primary = "connecting"]
                 ELSE NoConnection]
    /\ serverUp \in BOOLEAN
    /\ primarySocket = None
    /\ applied = [id \in Entries |-> 0]
    /\ lost = {}
    /\ confirmed = {}
    /\ misread = {}
    /\ disturbances = 0

(* establishConnection on a new socket.                                    *)
Establish(who, conns) ==
    \E c \in Conns :
        /\ Free(c)
        /\ socket' = c
        /\ connecting' = who
        /\ conn' = [conns EXCEPT
                      ![c] = [NoConnection EXCEPT !.primary = "connecting"]]

(* The 'connect' event.                                                    *)
Connected ==
    /\ connecting # "no"
    /\ Current.primary = "connecting"
    /\ serverUp
    /\ connected' = TRUE
    /\ connecting' = "no"
    /\ conn' = [conn EXCEPT ![socket].primary = "open",
                            ![socket].backup = "backlog"]
    /\ UNCHANGED <<written, timer, socket, pendingAcks, stray, serverUp,
                   primarySocket, entries, disturbances>>

(* Mutant: the pending entries survive the connection. *)
RejectNone == UNCHANGED pendingAcks

RejectAllPending == pendingAcks' = << >>

(* The receive buffer outlives the socket: if answers are on their way,    *)
(* the first may have come in part.                                        *)
CutAnswer == stray' \in {stray, stray \/ Current.toPrimary # << >>}

(***************************************************************************)
(* handleConnectionError.  While connecting, scheduleReconnect does        *)
(* nothing; then connect() rejects, and only the timer's own attempt is    *)
(* followed by another one: startApplication just goes on.                 *)
(***************************************************************************)
HandleConnectionError ==
    /\ connected' = FALSE
    /\ RejectAllPending
    /\ CutAnswer
    /\ connecting' = "no"
    /\ timer' = (timer \/ connecting # "start")
    /\ conn' = [conn EXCEPT ![socket].primary = "closed",
                            ![socket].toPrimary = << >>]
    /\ UNCHANGED <<written, socket, serverUp, primarySocket, entries>>

(* Nobody listens.                                                         *)
ConnectFails ==
    /\ Current.primary = "connecting"
    /\ ~serverUp
    /\ HandleConnectionError
    /\ UNCHANGED disturbances

(* The 'timeout' event: nothing was sent or received for a while, or the   *)
(* connection took too long to establish.                                  *)
Timeout ==
    /\ Current.primary \in {"connecting", "open"}
    /\ Disturb("timeout")
    /\ HandleConnectionError

(* The 'error' event on an established connection.                         *)
NetworkError ==
    /\ Current.primary = "open"
    /\ Disturb("networkError")
    /\ HandleConnectionError

(* The 'close' event after the backup closed its end.                      *)
HandleConnectionClose ==
    /\ Current.primary = "open"
    /\ Current.backup = "gone"
    /\ connected' = FALSE
    /\ RejectAllPending
    /\ CutAnswer
    /\ timer' = TRUE
    /\ conn' = [conn EXCEPT ![socket].primary = "closed",
                            ![socket].toPrimary = << >>]
    /\ UNCHANGED <<written, connecting, socket, serverUp, primarySocket,
                   entries, disturbances>>

(* Mutant: the timer fires and nothing is tried. *)
ReconnectIdle ==
    /\ timer
    /\ timer' = FALSE
    /\ UNCHANGED <<written, connected, connecting, socket, pendingAcks, stray,
                   conn, serverUp, primarySocket, entries, disturbances>>

(* The reconnect timer fires and calls connect().                          *)
Reconnect ==
    /\ timer
    /\ timer' = FALSE
    /\ IF connected \/ connecting # "no"
       THEN UNCHANGED <<connecting, socket, conn>>
       ELSE Establish("timer", conn)
    /\ UNCHANGED <<written, connected, pendingAcks, stray, serverUp,
                   primarySocket, entries, disturbances>>

(* A synced write reaches replicate(): sent, or dropped and a reconnect    *)
(* scheduled.                                                              *)
Replicate ==
    /\ connecting # "start"
    /\ written < MaxWrites
    /\ written' = written + 1
    /\ IF connected
       THEN /\ pendingAcks' = Append(pendingAcks, written + 1)
            /\ conn' = IF Current.backup = "gone" THEN conn
                       ELSE [conn EXCEPT ![socket].toBackup =
                                            Append(@, written + 1)]
            /\ UNCHANGED timer
       ELSE /\ timer' = (timer \/ connecting = "no")
            /\ UNCHANGED <<pendingAcks, conn>>
    /\ UNCHANGED <<connected, connecting, socket, stray, serverUp,
                   primarySocket, entries, disturbances>>

AnswerArrives ==
    /\ Current.primary = "open"
    /\ Current.toPrimary # << >>

(* handleAck: answers are matched with pending entries by position.        *)
HandleAck ==
    /\ AnswerArrives
    /\ ~stray
    /\ conn' = [conn EXCEPT ![socket].toPrimary = Tail(@)]
    /\ IF pendingAcks = << >>
       THEN UNCHANGED <<pendingAcks, confirmed>>
       ELSE /\ pendingAcks' = Tail(pendingAcks)
            /\ confirmed' = IF Head(Current.toPrimary).ok
                            THEN confirmed \cup {Head(pendingAcks)}
                            ELSE confirmed
    /\ UNCHANGED <<written, connected, connecting, timer, socket, stray,
                   serverUp, primarySocket, applied, lost, misread,
                   disturbances>>

(* The process starts again.                                               *)
Restart ==
    /\ connected' = FALSE
    /\ timer' = FALSE
    /\ pendingAcks' = << >>
    /\ stray' = FALSE
    /\ Establish("start", [conn EXCEPT ![socket].primary = "closed",
                                       ![socket].toPrimary = << >>])
    /\ UNCHANGED <<written, serverUp, primarySocket, applied, lost>>

(* Frames that begin with bytes of an ended connection: parseMessage waits *)
(* for more, answers the head of pendingAcks with whatever is where a      *)
(* status should be, or throws, which ends the process.                    *)
Misanswer ==
    /\ pendingAcks # << >>
    /\ confirmed' = confirmed \cup {Head(pendingAcks)}
    /\ misread' = misread \cup {Head(pendingAcks)}

MisreadAck ==
    /\ AnswerArrives
    /\ stray
    /\ conn' = [conn EXCEPT ![socket].toPrimary = Tail(@)]
    /\ \/ pendingAcks' = pendingAcks /\ UNCHANGED <<confirmed, misread>>
       \/ /\ pendingAcks # << >>
          /\ pendingAcks' = Tail(pendingAcks)
          /\ Misanswer \/ UNCHANGED <<confirmed, misread>>
    /\ UNCHANGED <<written, connected, connecting, timer, socket, stray,
                   serverUp, primarySocket, applied, lost, disturbances>>

MisreadThrows ==
    /\ AnswerArrives
    /\ stray
    /\ Misanswer \/ UNCHANGED <<confirmed, misread>>
    /\ Restart
    /\ UNCHANGED disturbances

(* The primary stops or crashes and starts again.                          *)
PrimaryRestart ==
    /\ Disturb("primaryRestart")
    /\ Restart
    /\ UNCHANGED <<confirmed, misread>>

-----------------------------------------------------------------------------
(* The backup. *)

(* handleConnection: one primary at a time.                                *)
HandleConnection(c) ==
    /\ serverUp
    /\ conn[c].backup = "backlog"
    /\ IF primarySocket = None
       THEN /\ conn' = [conn EXCEPT ![c].backup = "accepted"]
            /\ primarySocket' = c
       ELSE /\ conn' = [conn EXCEPT ![c].backup = "gone",
                                    ![c].toBackup = << >>]
            /\ UNCHANGED primarySocket
    /\ UNCHANGED <<written, manager, serverUp, entries, disturbances>>

(* The 'data' event: the socket is paused until the chunk is processed.    *)
Receive(c) ==
    /\ conn[c].backup = "accepted"
    /\ ~Busy(c)
    /\ \E n \in 1..Len(conn[c].toBackup) :
        conn' = [conn EXCEPT
                   ![c].buffer = SubSeq(conn[c].toBackup, 1, n),
                   ![c].toBackup = SubSeq(@, n + 1, Len(@))]
    /\ UNCHANGED <<written, manager, serverUp, primarySocket, entries,
                   disturbances>>

(* Mutant: a closed connection's buffer is not advanced. *)
HandleReplicateAgain(c) ==
    /\ conn[c].buffer # << >>
    /\ conn[c].handling = << >>
    /\ applied' = [applied EXCEPT ![Head(conn[c].buffer)] = @ + 1]
    /\ conn' = [conn EXCEPT
                  ![c].buffer = IF conn[c].primary = "closed" THEN @
                                ELSE Tail(@),
                  ![c].handling = <<[id |-> Head(conn[c].buffer),
                                     ok |-> TRUE]>>]
    /\ UNCHANGED <<written, manager, serverUp, primarySocket, lost, confirmed,
                   misread, disturbances>>

(* processBuffer, handleReplicate: the next entry is handed to the store   *)
(* and takes its place in the backup's log; it goes on when the socket is  *)
(* closed meanwhile.                                                       *)
HandleReplicate(c) ==
    /\ conn[c].buffer # << >>
    /\ conn[c].handling = << >>
    /\ LET id == Head(conn[c].buffer)
       IN  \/ /\ applied' = [applied EXCEPT ![id] = @ + 1]
              /\ conn' = [conn EXCEPT
                            ![c].buffer = Tail(@),
                            ![c].handling = <<[id |-> id, ok |-> TRUE]>>]
              /\ UNCHANGED disturbances
           \/ /\ Disturb("applyFault")
              /\ conn' = [conn EXCEPT
                            ![c].buffer = Tail(@),
                            ![c].handling = <<[id |-> id, ok |-> FALSE]>>]
              /\ UNCHANGED applied
    /\ UNCHANGED <<written, manager, serverUp, primarySocket, lost, confirmed,
                   misread>>

(* Mutant: the answer is always OK. *)
AnswerOK(c) ==
    [conn EXCEPT
        ![c].handling = << >>,
        ![c].answered = @ \/ conn[c].primary = "closed",
        ![c].toPrimary = IF conn[c].primary = "open" /\
                            conn[c].backup = "accepted"
                         THEN Append(@, [conn[c].handling[1] EXCEPT
                                           !.ok = TRUE]) ELSE @]

(* The answer is written to the socket; a closed peer will reset it.       *)
Answer(c) ==
    [conn EXCEPT
        ![c].handling = << >>,
        ![c].answered = @ \/ conn[c].primary = "closed",
        ![c].toPrimary = IF conn[c].primary = "open" /\
                            conn[c].backup = "accepted"
                         THEN @ \o conn[c].handling ELSE @]

SendAck(c) ==
    /\ conn[c].handling # << >>
    /\ conn' = Answer(c)
    /\ UNCHANGED <<written, manager, serverUp, primarySocket, entries,
                   disturbances>>

(***************************************************************************)
(* The backup learns that the primary has closed: from the socket, also a  *)
(* paused one when the connection is reset, or because an answer could not *)
(* be delivered.  Data still on its way may get lost.  The handlers of     *)
(* 'error' and 'close' forget primarySocket, whichever connection that is  *)
(* by then.                                                                *)
(***************************************************************************)
SeesEnd(c) ==
    /\ conn[c].backup = "accepted"
    /\ conn[c].primary = "closed"
    /\ conn[c].answered \/ ~conn[c].silent

SocketError(c) ==
    /\ SeesEnd(c)
    /\ conn' = [conn EXCEPT ![c].backup = "errored", ![c].toBackup = << >>]
    /\ primarySocket' = None
    /\ UNCHANGED <<written, manager, serverUp, entries, disturbances>>

SocketClose(c) ==
    /\ SeesEnd(c) \/ conn[c].backup = "errored"
    /\ conn' = [conn EXCEPT ![c].backup = "gone", ![c].toBackup = << >>]
    /\ primarySocket' = None
    /\ UNCHANGED <<written, manager, serverUp, entries, disturbances>>

(* The network drops the close: the backup's end stays open.               *)
SilentEnd(c) ==
    /\ conn[c].backup = "accepted"
    /\ conn[c].primary = "closed"
    /\ ~conn[c].silent
    /\ Disturb("silentEnd")
    /\ conn' = [conn EXCEPT ![c].silent = TRUE]
    /\ UNCHANGED <<written, manager, serverUp, primarySocket, entries>>

(* The backup's entries but these.                                         *)
Without(ids) == [id \in Entries |-> IF id \in ids THEN 0 ELSE applied[id]]

(* The backup stops.  Entries that its log had not synced may be lost.     *)
Handled == {conn[c].handling[1].id : c \in {d \in Conns :
                conn[d].handling # << >> /\ conn[d].handling[1].ok}}

BackupStop ==
    /\ serverUp
    /\ Disturb("backupRestart")
    /\ serverUp' = FALSE
    /\ primarySocket' = None
    /\ \E ids \in SUBSET Handled : applied' = Without(ids)
    /\ conn' = [c \in Conns |->
                  [conn[c] EXCEPT
                     !.backup = IF @ = "none" THEN "none" ELSE "gone",
                     !.toBackup = << >>, !.buffer = << >>,
                     !.handling = << >>]]
    /\ UNCHANGED <<written, manager, lost, confirmed, misread>>

(* The backup's store loses entries whose writes it has acknowledged, as   *)
(* LSMStore and WAL show: with a log that a checkpoint removes too early,  *)
(* behind a torn record, in a failed flush.                                *)
StoreLoses ==
    /\ Disturb("storeLoss")
    /\ \E ids \in SUBSET {id \in Entries : applied[id] > 0} :
        /\ ids # {}
        /\ applied' = Without(ids)
        /\ lost' = lost \cup ids
    /\ UNCHANGED <<written, manager, conn, serverUp, primarySocket, confirmed,
                   misread>>

BackupStart ==
    /\ ~serverUp
    /\ serverUp' = TRUE
    /\ UNCHANGED <<written, manager, conn, primarySocket, entries,
                   disturbances>>

(* Nothing is on its way and nobody waits for anything.                    *)
Quiescent ==
    /\ connecting = "no"
    /\ ~timer
    /\ serverUp
    /\ \A c \in Conns : /\ ~Busy(c)
                        /\ conn[c].backup \notin {"backlog", "errored"}
    /\ UNCHANGED vars

BackupStep(c) ==
    \/ HandleConnection(c) \/ Receive(c) \/ HandleReplicate(c) \/ SendAck(c)

BackupSees(c) == SocketError(c) \/ SocketClose(c)

Next ==
    \/ Connected \/ ConnectFails \/ Timeout \/ NetworkError
    \/ HandleConnectionClose \/ Reconnect \/ Replicate \/ HandleAck
    \/ MisreadAck \/ MisreadThrows \/ PrimaryRestart
    \/ \E c \in Conns : BackupStep(c)
    \/ \E c \in Conns : BackupSees(c)
    \/ \E c \in Conns : SilentEnd(c)
    \/ BackupStop \/ StoreLoses \/ BackupStart
    \/ Quiescent

Spec == Init /\ [][Next]_vars

(* Connection attempts end, timers fire, sent bytes arrive, handlers       *)
(* finish, a stopped backup is started again; nobody is obliged to write,  *)
(* to fail or to stop.                                                     *)
Fairness ==
    /\ WF_vars(Connected)
    /\ WF_vars(ConnectFails)
    /\ WF_vars(HandleConnectionClose)
    /\ WF_vars(Reconnect)
    /\ WF_vars(HandleAck)
    /\ \A c \in Conns : WF_vars(BackupStep(c)) /\ WF_vars(BackupSees(c))
    /\ WF_vars(BackupStart)

FairSpec == Spec /\ Fairness

-----------------------------------------------------------------------------
(* Properties *)

(* Every variable has its type. *)
TypeOK ==
    /\ written \in Nat
    /\ connected \in BOOLEAN
    /\ connecting \in {"no", "start", "timer"}
    /\ timer \in BOOLEAN
    /\ socket \in Conns
    /\ pendingAcks \in Seq(Nat)
    /\ stray \in BOOLEAN
    /\ conn \in [Conns -> Connection]
    /\ serverUp \in BOOLEAN
    /\ primarySocket \in Conns \cup {None}
    /\ applied \in [Entries -> Nat]
    /\ lost \subseteq Entries
    /\ confirmed \subseteq Nat
    /\ misread \subseteq confirmed
    /\ disturbances \in Nat

(* While a connection lives nothing on it is lost or reordered: the        *)
(* pending entries are exactly those whose answer, handler, buffer or      *)
(* transmission is under way, in that order.  So handleAck, which matches  *)
(* by position, matches an answer with its own entry, as long as the       *)
(* receive buffer holds nothing of an earlier connection.                  *)
IdsOf(acks) == [i \in DOMAIN acks |-> acks[i].id]

PipelineIntact ==
    connected /\ ~stray /\ Current.backup \in {"backlog", "accepted"} =>
        pendingAcks = IdsOf(Current.toPrimary) \o IdsOf(Current.handling)
                         \o Current.buffer \o Current.toBackup

(* An entry that an answer of the backup made the primary count as         *)
(* replicated is on the backup, whatever restarts and reconnects happened  *)
(* since, unless the backup's own store has lost it; an entry that bytes   *)
(* of an ended connection confirmed need never have got there.             *)
ConfirmedApplied ==
    \A id \in confirmed \ (misread \cup lost) : applied[id] > 0

(* No entry is applied twice.                                              *)
AppliedOnce == \A id \in Entries : applied[id] <= 1

(* Once a reconnect is scheduled, the backup eventually serves a           *)
(* connection of the primary again, unless the primary is restarted or the *)
(* backup was never told of a close (it then refuses every new connection).*)
Served == connected /\ Current.backup = "accepted"

Reconnects ==
    (timer \/ connecting = "timer")
        ~> (Served \/ connecting = "start" \/ \E c \in Conns : conn[c].silent)

(* Every entry that was sent is eventually confirmed or given up, unless   *)
(* bytes of an ended connection stand in front of the answers.             *)
AcksSettle == (pendingAcks # << >>) ~> (pendingAcks = << >> \/ stray)

=============================================================================
