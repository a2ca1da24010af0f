-------------------------- MODULE ReplicationProofs --------------------------
(***************************************************************************)
(* Replication keeps answers and entries together, for every number of     *)
(* connections, entries and disturbances: while a connection lives its     *)
(* pipeline is intact, an entry that an answer made the primary count as   *)
(* replicated is on the backup unless the backup's own store lost it, and  *)
(* no entry is applied twice.                                              *)
(***************************************************************************)
EXTENDS Replication, SequenceTheorems, TLAPS

(* The fields of a connection. *)
LEMMA ConnFields ==
    ASSUME NEW k \in Connection
    PROVE  /\ k.primary \in {"none", "connecting", "open", "closed"}
           /\ k.backup \in {"none", "backlog", "accepted", "errored", "gone"}
           /\ k.toBackup \in Seq(Nat) /\ k.buffer \in Seq(Nat)
           /\ k.handling \in Seq(Ack) /\ k.toPrimary \in Seq(Ack)
           /\ k.answered \in BOOLEAN /\ k.silent \in BOOLEAN
BY DEF Connection

(* A fresh connection. *)
LEMMA NoConnectionType ==
    /\ NoConnection \in Connection
    /\ [NoConnection EXCEPT !.primary = "connecting"] \in Connection
<1>1. NoConnection \in Connection
  BY DEF NoConnection, Connection
<1>2. [NoConnection EXCEPT !.primary = "connecting"] \in Connection
  BY <1>1 DEF Connection
<1> QED
  BY <1>1, <1>2

(* One connection changes and the others do not. *)
LEMMA OneMoves ==
    ASSUME TypeOK, NEW c \in Conns, NEW k \in Connection,
           conn' = [conn EXCEPT ![c] = k]
    PROVE  /\ conn' \in [Conns -> Connection]
           /\ conn'[c] = k
           /\ \A d \in Conns \ {c} : conn'[d] = conn[d]
BY DEF TypeOK

-----------------------------------------------------------------------------
(* What each step does to the connections *)

(* The connection of the primary is established. *)
LEMMA ConnectedMoves ==
    ASSUME TypeOK, Connected
    PROVE  /\ conn' \in [Conns -> Connection]
           /\ \A d \in Conns \ {socket} : conn'[d] = conn[d]
           /\ conn'[socket].primary = "open"
           /\ conn'[socket].backup = "backlog"
           /\ conn'[socket].toBackup = conn[socket].toBackup
           /\ conn'[socket].buffer = conn[socket].buffer
           /\ conn'[socket].handling = conn[socket].handling
           /\ conn'[socket].toPrimary = conn[socket].toPrimary
<1>1. conn \in [Conns -> Connection] /\ socket \in Conns
      /\ conn[socket] \in Connection
  BY DEF TypeOK
<1> DEFINE k == [conn[socket] EXCEPT !.primary = "open", !.backup = "backlog"]
<1>2. conn' = [conn EXCEPT ![socket] = k]
  BY <1>1 DEF Connected, Connection
<1>3. k \in Connection
  BY <1>1 DEF Connection
<1>4. conn'[socket] = k
  BY <1>1, <1>2
<1>5. /\ conn' \in [Conns -> Connection]
      /\ \A d \in Conns \ {socket} : conn'[d] = conn[d]
  BY <1>1, <1>2, <1>3
<1> QED
  BY <1>1, <1>4, <1>5 DEF Connection

(* The primary's end of a connection after it is closed. *)
Closed(k) == [k EXCEPT !.primary = "closed", !.toPrimary = << >>]

(* Closing touches nothing else. *)
LEMMA ClosedFields ==
    ASSUME NEW k \in Connection
    PROVE  /\ Closed(k) \in Connection
           /\ Closed(k).primary = "closed"
           /\ Closed(k).backup = k.backup
           /\ Closed(k).toBackup = k.toBackup
           /\ Closed(k).buffer = k.buffer
           /\ Closed(k).handling = k.handling
           /\ Closed(k).toPrimary = << >>
<1> DEFINE none == << >>
<1>1. none \in Seq(Ack)
  OBVIOUS
<1> HIDE DEF none
<1>2. [k EXCEPT !.primary = "closed", !.toPrimary = none] \in Connection
  BY <1>1 DEF Connection
<1>3. Closed(k) \in Connection
  BY <1>2 DEF Closed, none
<1>4. /\ Closed(k).primary = "closed"
      /\ Closed(k).toPrimary = << >>
  BY DEF Closed, Connection
<1>5. /\ Closed(k).backup = k.backup
      /\ Closed(k).toBackup = k.toBackup
      /\ Closed(k).buffer = k.buffer
      /\ Closed(k).handling = k.handling
  BY DEF Closed, Connection
<1> QED
  BY <1>3, <1>4, <1>5

(* The primary gives a connection up. *)
LEMMA ClosesMoves ==
    ASSUME TypeOK,
           conn' = [conn EXCEPT ![socket].primary = "closed",
                                ![socket].toPrimary = << >>]
    PROVE  /\ conn' \in [Conns -> Connection]
           /\ conn'[socket] = Closed(conn[socket])
           /\ \A d \in Conns \ {socket} : conn'[d] = conn[d]
<1>1. conn \in [Conns -> Connection] /\ socket \in Conns
      /\ conn[socket] \in Connection
  BY DEF TypeOK
<1>2. conn' = [conn EXCEPT ![socket] = Closed(conn[socket])]
  BY <1>1 DEF Connection, Closed
<1> QED
  BY <1>1, <1>2, ClosedFields, OneMoves

(* The primary sends an entry. *)
LEMMA SendMoves ==
    ASSUME TypeOK, NEW id \in Nat,
           conn' = [conn EXCEPT ![socket].toBackup = Append(@, id)]
    PROVE  /\ conn' \in [Conns -> Connection]
           /\ \A d \in Conns \ {socket} : conn'[d] = conn[d]
           /\ conn'[socket].primary = conn[socket].primary
           /\ conn'[socket].backup = conn[socket].backup
           /\ conn'[socket].toBackup = Append(conn[socket].toBackup, id)
           /\ conn'[socket].buffer = conn[socket].buffer
           /\ conn'[socket].handling = conn[socket].handling
           /\ conn'[socket].toPrimary = conn[socket].toPrimary
<1>1. conn \in [Conns -> Connection] /\ socket \in Conns
      /\ conn[socket] \in Connection
  BY DEF TypeOK
<1> DEFINE x == Append(conn[socket].toBackup, id)
           k == [conn[socket] EXCEPT !.toBackup = x]
<1>2. x \in Seq(Nat)
  BY <1>1 DEF Connection
<1>3. conn' = [conn EXCEPT ![socket] = k]
  BY <1>1 DEF Connection
<1> HIDE DEF x
<1>4. k \in Connection
  BY <1>1, <1>2 DEF Connection
<1>5. conn'[socket] = k
  BY <1>1, <1>3
<1>6. /\ conn' \in [Conns -> Connection]
      /\ \A d \in Conns \ {socket} : conn'[d] = conn[d]
  BY <1>1, <1>3, <1>4
<1> QED
  BY <1>1, <1>5, <1>6 DEF Connection, x

(* The primary reads an answer. *)
LEMMA AckMoves ==
    ASSUME TypeOK, conn[socket].toPrimary # << >>,
           conn' = [conn EXCEPT ![socket].toPrimary = Tail(@)]
    PROVE  /\ conn' \in [Conns -> Connection]
           /\ \A d \in Conns \ {socket} : conn'[d] = conn[d]
           /\ conn'[socket].primary = conn[socket].primary
           /\ conn'[socket].backup = conn[socket].backup
           /\ conn'[socket].toBackup = conn[socket].toBackup
           /\ conn'[socket].buffer = conn[socket].buffer
           /\ conn'[socket].handling = conn[socket].handling
           /\ conn'[socket].toPrimary = Tail(conn[socket].toPrimary)
<1>1. conn \in [Conns -> Connection] /\ socket \in Conns
      /\ conn[socket] \in Connection
  BY DEF TypeOK
<1> DEFINE x == Tail(conn[socket].toPrimary)
           k == [conn[socket] EXCEPT !.toPrimary = x]
<1>2. x \in Seq(Ack)
  BY <1>1 DEF Connection
<1>3. conn' = [conn EXCEPT ![socket] = k]
  BY <1>1 DEF Connection
<1> HIDE DEF x
<1>4. k \in Connection
  BY <1>1, <1>2 DEF Connection
<1>5. conn'[socket] = k
  BY <1>1, <1>3
<1>6. /\ conn' \in [Conns -> Connection]
      /\ \A d \in Conns \ {socket} : conn'[d] = conn[d]
  BY <1>1, <1>3, <1>4
<1> QED
  BY <1>1, <1>5, <1>6 DEF Connection, x

(* The backup's end of a connection after it is closed or broken. *)
Lost(k, end) == [k EXCEPT !.backup = end, !.toBackup = << >>]

(* Losing touches nothing else. *)
LEMMA LostFields ==
    ASSUME NEW k \in Connection, NEW end \in {"errored", "gone"}
    PROVE  /\ Lost(k, end) \in Connection
           /\ Lost(k, end).primary = k.primary
           /\ Lost(k, end).backup = end
           /\ Lost(k, end).toBackup = << >>
           /\ Lost(k, end).buffer = k.buffer
           /\ Lost(k, end).handling = k.handling
           /\ Lost(k, end).toPrimary = k.toPrimary
<1> DEFINE none == << >>
<1>1. none \in Seq(Nat)
  OBVIOUS
<1> HIDE DEF none
<1>2. [k EXCEPT !.backup = end, !.toBackup = none] \in Connection
  BY <1>1 DEF Connection
<1>3. Lost(k, end) \in Connection
  BY <1>2 DEF Lost, none
<1>4. Lost(k, end).backup = end /\ Lost(k, end).toBackup = << >>
  BY DEF Lost, Connection
<1>5. /\ Lost(k, end).primary = k.primary
      /\ Lost(k, end).buffer = k.buffer
      /\ Lost(k, end).handling = k.handling
      /\ Lost(k, end).toPrimary = k.toPrimary
  BY DEF Lost, Connection
<1> QED
  BY <1>3, <1>4, <1>5

(* The backup gives a connection up. *)
LEMMA LosesMoves ==
    ASSUME TypeOK, NEW c \in Conns, NEW end \in {"errored", "gone"},
           conn' = [conn EXCEPT ![c].backup = end, ![c].toBackup = << >>]
    PROVE  /\ conn' \in [Conns -> Connection]
           /\ conn'[c] = Lost(conn[c], end)
           /\ \A d \in Conns \ {c} : conn'[d] = conn[d]
<1>1. conn \in [Conns -> Connection] /\ conn[c] \in Connection
  BY DEF TypeOK
<1>2. conn' = [conn EXCEPT ![c] = Lost(conn[c], end)]
  BY <1>1 DEF Connection, Lost
<1> QED
  BY <1>1, <1>2, LostFields, OneMoves

(* The primary's end of that connection stays. *)
LEMMA LosesKeepsEnds ==
    ASSUME TypeOK, NEW c \in Conns, NEW end \in {"errored", "gone"},
           conn' = [conn EXCEPT ![c].backup = end, ![c].toBackup = << >>]
    PROVE  \A d \in Conns : conn'[d].primary = conn[d].primary
<1>1. /\ conn'[c] = Lost(conn[c], end)
      /\ \A d \in Conns \ {c} : conn'[d] = conn[d]
  BY LosesMoves
<1>2. conn[c] \in Connection
  BY DEF TypeOK
<1>3. Lost(conn[c], end).primary = conn[c].primary
  BY <1>2, LostFields
<1> QED
  BY <1>1, <1>3

(* The backup accepts a connection. *)
LEMMA AcceptMoves ==
    ASSUME TypeOK, NEW c \in Conns,
           conn' = [conn EXCEPT ![c].backup = "accepted"]
    PROVE  /\ conn' \in [Conns -> Connection]
           /\ \A d \in Conns \ {c} : conn'[d] = conn[d]
           /\ conn'[c].primary = conn[c].primary
           /\ conn'[c].backup = "accepted"
           /\ conn'[c].toBackup = conn[c].toBackup
           /\ conn'[c].buffer = conn[c].buffer
           /\ conn'[c].handling = conn[c].handling
           /\ conn'[c].toPrimary = conn[c].toPrimary
<1>1. conn \in [Conns -> Connection] /\ conn[c] \in Connection
  BY DEF TypeOK
<1> DEFINE k == [conn[c] EXCEPT !.backup = "accepted"]
<1>2. conn' = [conn EXCEPT ![c] = k]
  BY <1>1 DEF Connection
<1>3. k \in Connection
  BY <1>1 DEF Connection
<1>4. conn'[c] = k
  BY <1>1, <1>2
<1>5. /\ conn' \in [Conns -> Connection]
      /\ \A d \in Conns \ {c} : conn'[d] = conn[d]
  BY <1>1, <1>2, <1>3
<1> QED
  BY <1>1, <1>4, <1>5 DEF Connection

(* The close of a connection goes unnoticed. *)
LEMMA SilentMoves ==
    ASSUME TypeOK, NEW c \in Conns, conn' = [conn EXCEPT ![c].silent = TRUE]
    PROVE  /\ conn' \in [Conns -> Connection]
           /\ \A d \in Conns \ {c} : conn'[d] = conn[d]
           /\ conn'[c].primary = conn[c].primary
           /\ conn'[c].backup = conn[c].backup
           /\ conn'[c].toBackup = conn[c].toBackup
           /\ conn'[c].buffer = conn[c].buffer
           /\ conn'[c].handling = conn[c].handling
           /\ conn'[c].toPrimary = conn[c].toPrimary
<1>1. conn \in [Conns -> Connection] /\ conn[c] \in Connection
  BY DEF TypeOK
<1> DEFINE k == [conn[c] EXCEPT !.silent = TRUE]
<1>2. conn' = [conn EXCEPT ![c] = k]
  BY <1>1 DEF Connection
<1>3. k \in Connection
  BY <1>1 DEF Connection
<1>4. conn'[c] = k
  BY <1>1, <1>2
<1>5. /\ conn' \in [Conns -> Connection]
      /\ \A d \in Conns \ {c} : conn'[d] = conn[d]
  BY <1>1, <1>2, <1>3
<1> QED
  BY <1>1, <1>4, <1>5 DEF Connection

(* The backup reads a chunk. *)
LEMMA ReceiveMoves ==
    ASSUME TypeOK, NEW c \in Conns, NEW n \in 1..Len(conn[c].toBackup),
           conn' = [conn EXCEPT
                      ![c].buffer = SubSeq(conn[c].toBackup, 1, n),
                      ![c].toBackup = SubSeq(@, n + 1, Len(@))]
    PROVE  /\ conn' \in [Conns -> Connection]
           /\ \A d \in Conns \ {c} : conn'[d] = conn[d]
           /\ conn'[c].primary = conn[c].primary
           /\ conn'[c].backup = conn[c].backup
           /\ conn'[c].toBackup =
                SubSeq(conn[c].toBackup, n + 1, Len(conn[c].toBackup))
           /\ conn'[c].buffer = SubSeq(conn[c].toBackup, 1, n)
           /\ conn'[c].handling = conn[c].handling
           /\ conn'[c].toPrimary = conn[c].toPrimary
<1>1. conn \in [Conns -> Connection] /\ conn[c] \in Connection
  BY DEF TypeOK
<1> DEFINE x == SubSeq(conn[c].toBackup, 1, n)
           y == SubSeq(conn[c].toBackup, n + 1, Len(conn[c].toBackup))
           k == [conn[c] EXCEPT !.buffer = x, !.toBackup = y]
<1>2. x \in Seq(Nat) /\ y \in Seq(Nat)
  <2> DEFINE s == conn[c].toBackup
  <2>1. s \in Seq(Nat)
    BY <1>1 DEF Connection
  <2> HIDE DEF s
  <2>2. SubSeq(s, 1, n) \in Seq(Nat) /\ SubSeq(s, n + 1, Len(s)) \in Seq(Nat)
    <3>1. n \in 1..Len(s)
      BY DEF s
    <3> QED
      BY <2>1, <3>1
  <2> QED
    BY <2>2 DEF s
<1>3. conn' = [conn EXCEPT ![c] = k]
  BY <1>1 DEF Connection
<1> HIDE DEF x, y
<1>4. k \in Connection
  BY <1>1, <1>2 DEF Connection
<1>5. conn'[c] = k
  BY <1>1, <1>3
<1>6. /\ conn' \in [Conns -> Connection]
      /\ \A d \in Conns \ {c} : conn'[d] = conn[d]
  BY <1>1, <1>3, <1>4
<1> QED
  BY <1>1, <1>5, <1>6 DEF Connection, x, y

(* The backup hands the next entry to its store. *)
LEMMA HandleMoves ==
    ASSUME TypeOK, NEW c \in Conns, NEW answer \in Ack,
           conn[c].buffer # << >>,
           conn' = [conn EXCEPT ![c].buffer = Tail(@),
                                ![c].handling = <<answer>>]
    PROVE  /\ conn' \in [Conns -> Connection]
           /\ \A d \in Conns \ {c} : conn'[d] = conn[d]
           /\ conn'[c].primary = conn[c].primary
           /\ conn'[c].backup = conn[c].backup
           /\ conn'[c].toBackup = conn[c].toBackup
           /\ conn'[c].buffer = Tail(conn[c].buffer)
           /\ conn'[c].handling = <<answer>>
           /\ conn'[c].toPrimary = conn[c].toPrimary
<1>1. conn \in [Conns -> Connection] /\ conn[c] \in Connection
  BY DEF TypeOK
<1> DEFINE x == Tail(conn[c].buffer)
           y == <<answer>>
           k == [conn[c] EXCEPT !.buffer = x, !.handling = y]
<1>2. x \in Seq(Nat) /\ y \in Seq(Ack)
  BY <1>1 DEF Connection
<1>3. conn' = [conn EXCEPT ![c] = k]
  BY <1>1 DEF Connection
<1> HIDE DEF x, y
<1>4. k \in Connection
  BY <1>1, <1>2 DEF Connection
<1>5. conn'[c] = k
  BY <1>1, <1>3
<1>6. /\ conn' \in [Conns -> Connection]
      /\ \A d \in Conns \ {c} : conn'[d] = conn[d]
  BY <1>1, <1>3, <1>4
<1> QED
  BY <1>1, <1>5, <1>6 DEF Connection, x, y

(* The backup answers. *)
LEMMA AnswerMoves ==
    ASSUME TypeOK, NEW c \in Conns, conn' = Answer(c)
    PROVE  /\ conn' \in [Conns -> Connection]
           /\ \A d \in Conns \ {c} : conn'[d] = conn[d]
           /\ conn'[c].primary = conn[c].primary
           /\ conn'[c].backup = conn[c].backup
           /\ conn'[c].toBackup = conn[c].toBackup
           /\ conn'[c].buffer = conn[c].buffer
           /\ conn'[c].handling = << >>
           /\ conn'[c].toPrimary =
                IF conn[c].primary = "open" /\ conn[c].backup = "accepted"
                THEN conn[c].toPrimary \o conn[c].handling
                ELSE conn[c].toPrimary
<1>1. conn \in [Conns -> Connection] /\ conn[c] \in Connection
  BY DEF TypeOK
<1> DEFINE x == IF conn[c].primary = "open" /\ conn[c].backup = "accepted"
                THEN conn[c].toPrimary \o conn[c].handling
                ELSE conn[c].toPrimary
           y == << >>
           b == conn[c].answered \/ conn[c].primary = "closed"
           k == [conn[c] EXCEPT !.handling = y, !.answered = b, !.toPrimary = x]
<1>2. x \in Seq(Ack) /\ y \in Seq(Ack) /\ b \in BOOLEAN
  BY <1>1 DEF Connection
<1>3. conn' = [conn EXCEPT ![c] = k]
  BY <1>1 DEF Connection, Answer
<1> HIDE DEF x, y, b
<1>4. k \in Connection
  BY <1>1, <1>2 DEF Connection
<1>5. conn'[c] = k
  BY <1>1, <1>3
<1>6. /\ conn' \in [Conns -> Connection]
      /\ \A d \in Conns \ {c} : conn'[d] = conn[d]
  BY <1>1, <1>3, <1>4
<1> QED
  BY <1>1, <1>5, <1>6 DEF Connection, x, y

(* The backup's end of every connection after it has stopped. *)
Stopped(k) ==
    [k EXCEPT !.backup = IF @ = "none" THEN "none" ELSE "gone",
              !.toBackup = << >>, !.buffer = << >>, !.handling = << >>]

(* Stopping leaves what is on its way to the primary. *)
LEMMA StoppedFields ==
    ASSUME NEW k \in Connection
    PROVE  /\ Stopped(k) \in Connection
           /\ Stopped(k).primary = k.primary
           /\ Stopped(k).backup = IF k.backup = "none" THEN "none" ELSE "gone"
           /\ Stopped(k).toBackup = << >>
           /\ Stopped(k).buffer = << >>
           /\ Stopped(k).handling = << >>
           /\ Stopped(k).toPrimary = k.toPrimary
<1> DEFINE end == IF k.backup = "none" THEN "none" ELSE "gone"
           none == << >>
<1>1. none \in Seq(Nat) /\ none \in Seq(Ack)
  OBVIOUS
<1>2. end \in {"none", "backlog", "accepted", "errored", "gone"}
  OBVIOUS
<1>3. Stopped(k) = [k EXCEPT !.backup = end, !.toBackup = none,
                             !.buffer = none, !.handling = none]
  BY DEF Stopped, Connection
<1> HIDE DEF none, end
<1>4. Stopped(k) \in Connection
  BY <1>1, <1>2, <1>3 DEF Connection
<1>5. /\ Stopped(k).backup = end
      /\ Stopped(k).toBackup = none
      /\ Stopped(k).buffer = none
      /\ Stopped(k).handling = none
  BY <1>3 DEF Connection
<1>6. Stopped(k).primary = k.primary /\ Stopped(k).toPrimary = k.toPrimary
  BY <1>3 DEF Connection
<1> QED
  BY <1>4, <1>5, <1>6 DEF none, end

(* The backup stops. *)
LEMMA StopMoves ==
    ASSUME TypeOK, BackupStop
    PROVE  /\ conn' \in [Conns -> Connection]
           /\ \A c \in Conns : conn'[c] = Stopped(conn[c])
<1>1. \A c \in Conns : conn[c] \in Connection
  BY DEF TypeOK
<1>2. conn' = [c \in Conns |-> Stopped(conn[c])]
  BY DEF BackupStop, Stopped
<1> QED
  BY <1>1, <1>2, StoppedFields

(* A new connection of the primary. *)
NewConnection == [NoConnection EXCEPT !.primary = "connecting"]

(* There is nothing on a new connection. *)
LEMMA NewFields ==
    /\ NewConnection \in Connection
    /\ NewConnection.primary = "connecting" /\ NewConnection.backup = "none"
    /\ NewConnection.toBackup = << >> /\ NewConnection.buffer = << >>
    /\ NewConnection.handling = << >> /\ NewConnection.toPrimary = << >>
<1>1. NewConnection \in Connection
  BY NoConnectionType DEF NewConnection
<1> QED
  BY <1>1 DEF NewConnection, NoConnection

(* The primary tries a new connection. *)
LEMMA EstablishMoves ==
    ASSUME TypeOK, NEW who, NEW conns \in [Conns -> Connection],
           Establish(who, conns)
    PROVE  /\ socket' \in Conns /\ Free(socket')
           /\ connecting' = who
           /\ conn' \in [Conns -> Connection]
           /\ conn'[socket'] = NewConnection
           /\ \A d \in Conns \ {socket'} : conn'[d] = conns[d]
<1>1. PICK c \in Conns :
        /\ Free(c) /\ socket' = c /\ connecting' = who
        /\ conn' = [conns EXCEPT ![c] = NewConnection]
  BY DEF Establish, NewConnection
<1> QED
  BY <1>1, NewFields

(* The primary restarts, of itself or because it misreads an answer. *)
Restarts == PrimaryRestart \/ MisreadThrows

(* What it starts with. *)
LEMMA RestartsAre ==
    ASSUME Restarts
    PROVE  Restart /\ ~connected' /\ ~stray' /\ pendingAcks' = << >>
BY DEF Restarts, PrimaryRestart, MisreadThrows, Restart

(* Its connections then. *)
LEMMA RestartMoves ==
    ASSUME TypeOK, Restart
    PROVE  /\ socket' \in Conns
           /\ connecting' = "start"
           /\ conn' \in [Conns -> Connection]
           /\ conn'[socket'] = NewConnection
           /\ \A d \in Conns \ {socket'} :
                conn'[d] = IF d = socket THEN Closed(conn[d]) ELSE conn[d]
<1> DEFINE conns == [conn EXCEPT ![socket].primary = "closed",
                                 ![socket].toPrimary = << >>]
<1>1. conn \in [Conns -> Connection] /\ socket \in Conns
      /\ conn[socket] \in Connection
  BY DEF TypeOK
<1>2. conns = [conn EXCEPT ![socket] = Closed(conn[socket])]
  BY <1>1 DEF Connection, Closed
<1>3. Establish("start", conns)
  BY DEF Restart
<1> HIDE DEF conns
<1>4. Closed(conn[socket]) \in Connection
  BY <1>1, ClosedFields
<1>5. /\ conns \in [Conns -> Connection]
      /\ \A d \in Conns :
            conns[d] = IF d = socket THEN Closed(conn[d]) ELSE conn[d]
  BY <1>1, <1>2, <1>4
<1> QED
  BY <1>3, <1>5, EstablishMoves

-----------------------------------------------------------------------------
(* Types *)

(* Everything is typed at first. *)
LEMMA InitType == Init => TypeOK
<1> SUFFICES ASSUME Init PROVE TypeOK
  OBVIOUS
<1>1. conn \in [Conns -> Connection]
  BY NewFields, NoConnectionType DEF Init, NewConnection
<1>2. << >> \in Seq(Nat)
  OBVIOUS
<1> QED
  BY <1>1, <1>2, ReplicationAssumption DEF Init, TypeOK

(* What is misread is counted among the confirmed entries. *)
LEMMA MisanswerType ==
    ASSUME TypeOK, Misanswer \/ UNCHANGED <<confirmed, misread>>
    PROVE  /\ confirmed' \subseteq Nat /\ misread' \subseteq confirmed'
           /\ confirmed' \ misread' \subseteq confirmed \ misread
<1>1. CASE Misanswer
  <2>1. Head(pendingAcks) \in Nat
    BY <1>1 DEF Misanswer, TypeOK
  <2> QED
    BY <1>1, <2>1 DEF Misanswer, TypeOK
<1>2. CASE UNCHANGED <<confirmed, misread>>
  BY <1>2 DEF TypeOK
<1> QED
  BY <1>1, <1>2

(* The primary's end keeps the types. *)
LEMMA PrimaryType ==
    ASSUME TypeOK,
           \/ Connected \/ ConnectFails \/ Timeout \/ NetworkError
           \/ HandleConnectionClose \/ Reconnect \/ Restarts
    PROVE  TypeOK'
<1>1. << >> \in Seq(Nat)
  OBVIOUS
<1>2. CASE Connected
  BY <1>2, ConnectedMoves DEF Connected, entries, TypeOK
<1>3. CASE ConnectFails \/ Timeout \/ NetworkError
  <2>1. HandleConnectionError /\ disturbances' \in Nat
    BY <1>3 DEF ConnectFails, Timeout, NetworkError, Disturb, TypeOK
  <2>2. conn' \in [Conns -> Connection]
    BY <2>1, ClosesMoves DEF HandleConnectionError
  <2> QED
    BY <1>1, <2>1, <2>2
    DEF HandleConnectionError, RejectAllPending, CutAnswer, entries, TypeOK
<1>4. CASE HandleConnectionClose
  <2>1. conn' \in [Conns -> Connection]
    BY <1>4, ClosesMoves DEF HandleConnectionClose
  <2> QED
    BY <1>1, <1>4, <2>1
    DEF HandleConnectionClose, RejectAllPending, CutAnswer, entries, TypeOK
<1>5. CASE Reconnect
  <2>1. /\ socket' \in Conns /\ connecting' \in {"no", "start", "timer"}
        /\ conn' \in [Conns -> Connection]
    BY <1>5, EstablishMoves DEF Reconnect, TypeOK
  <2> QED
    BY <1>5, <2>1 DEF Reconnect, entries, TypeOK
<1>6. CASE Restarts
  <2>1. disturbances' \in Nat /\ Restart
    BY <1>6 DEF Restarts, PrimaryRestart, MisreadThrows, Disturb, TypeOK
  <2>2. confirmed' \subseteq Nat /\ misread' \subseteq confirmed'
    BY <1>6, MisanswerType
    DEF Restarts, PrimaryRestart, MisreadThrows, TypeOK
  <2>3. conn' \in [Conns -> Connection] /\ socket' \in Conns
        /\ connecting' = "start"
    BY <2>1, RestartMoves
  <2> QED
    BY <1>1, <2>1, <2>2, <2>3 DEF Restart, TypeOK
<1> QED
  BY <1>2, <1>3, <1>4, <1>5, <1>6

(* Sending an entry and reading an answer keep the types. *)
LEMMA SendType ==
    ASSUME TypeOK, Replicate \/ HandleAck \/ MisreadAck
    PROVE  TypeOK'
<1>1. CASE Replicate
  <2>1. written + 1 \in Nat
    BY DEF TypeOK
  <2>2. conn' \in [Conns -> Connection]
    <3>1. CASE connected /\ Current.backup # "gone"
      <4>1. conn' = [conn EXCEPT ![socket].toBackup = Append(@, written + 1)]
        BY <1>1, <3>1 DEF Replicate
      <4> QED
        BY <2>1, <4>1, SendMoves
    <3>2. CASE ~(connected /\ Current.backup # "gone")
      <4>1. conn' = conn
        BY <1>1, <3>2 DEF Replicate
      <4> QED
        BY <4>1 DEF TypeOK
    <3> QED
      BY <3>1, <3>2
  <2>3. pendingAcks' \in Seq(Nat)
    <3>1. \/ pendingAcks' = Append(pendingAcks, written + 1)
          \/ pendingAcks' = pendingAcks
      BY <1>1 DEF Replicate
    <3>2. pendingAcks \in Seq(Nat)
      BY DEF TypeOK
    <3> QED
      BY <2>1, <3>1, <3>2
  <2>4. written' \in Nat /\ timer' \in BOOLEAN
    BY <1>1, <2>1 DEF Replicate, TypeOK
  <2>5. UNCHANGED <<connected, connecting, socket, stray, serverUp,
                    primarySocket, applied, lost, confirmed, misread,
                    disturbances>>
    BY <1>1 DEF Replicate, entries
  <2> QED
    BY <2>2, <2>3, <2>4, <2>5 DEF TypeOK
<1>2. CASE HandleAck
  <2>1. conn' \in [Conns -> Connection]
    <3>1. /\ conn[socket].toPrimary # << >>
          /\ conn' = [conn EXCEPT ![socket].toPrimary = Tail(@)]
      BY <1>2 DEF HandleAck, AnswerArrives, Current
    <3> QED
      BY <3>1, AckMoves
  <2>2. /\ pendingAcks' \in Seq(Nat) /\ confirmed' \subseteq Nat
        /\ confirmed \subseteq confirmed'
    <3>1. CASE pendingAcks = << >>
      BY <1>2, <3>1 DEF HandleAck, TypeOK
    <3>2. CASE pendingAcks # << >>
      <4>1. /\ pendingAcks \in Seq(Nat) /\ pendingAcks # << >>
            /\ pendingAcks' = Tail(pendingAcks)
            /\ confirmed' \subseteq confirmed \cup {Head(pendingAcks)}
            /\ confirmed \subseteq confirmed'
        BY <1>2, <3>2 DEF HandleAck, TypeOK
      <4>2. Tail(pendingAcks) \in Seq(Nat) /\ Head(pendingAcks) \in Nat
        BY <4>1
      <4> QED
        BY <4>1, <4>2 DEF TypeOK
    <3> QED
      BY <3>1, <3>2
  <2>3. UNCHANGED <<written, connected, connecting, timer, socket, stray,
                    serverUp, primarySocket, applied, lost, misread,
                    disturbances>>
    BY <1>2 DEF HandleAck
  <2> QED
    BY <2>1, <2>2, <2>3 DEF TypeOK
<1>3. CASE MisreadAck
  <2>1. conn' \in [Conns -> Connection]
    <3>1. /\ conn[socket].toPrimary # << >>
          /\ conn' = [conn EXCEPT ![socket].toPrimary = Tail(@)]
      BY <1>3 DEF MisreadAck, AnswerArrives, Current
    <3> QED
      BY <3>1, AckMoves
  <2>2. pendingAcks' \in Seq(Nat)
    <3>1. pendingAcks \in Seq(Nat)
      BY DEF TypeOK
    <3>2. \/ pendingAcks' = pendingAcks
          \/ pendingAcks # << >> /\ pendingAcks' = Tail(pendingAcks)
      BY <1>3 DEF MisreadAck
    <3> QED
      BY <3>1, <3>2
  <2>3. confirmed' \subseteq Nat /\ misread' \subseteq confirmed'
    BY <1>3, MisanswerType DEF MisreadAck
  <2>4. UNCHANGED <<written, connected, connecting, timer, socket, stray,
                    serverUp, primarySocket, applied, lost, disturbances>>
    BY <1>3 DEF MisreadAck
  <2> QED
    BY <2>1, <2>2, <2>3, <2>4 DEF TypeOK
<1> QED
  BY <1>1, <1>2, <1>3

(* The entry the backup handles and its answer. *)
LEMMA HandledHead ==
    ASSUME TypeOK, NEW c \in Conns, conn[c].buffer # << >>, NEW ok \in BOOLEAN
    PROVE  /\ Head(conn[c].buffer) \in Nat
           /\ [id |-> Head(conn[c].buffer), ok |-> ok] \in Ack
<1>1. conn[c].buffer \in Seq(Nat)
  BY DEF TypeOK, Connection
<1>2. Head(conn[c].buffer) \in Nat
  BY <1>1, SMTT(30)
<1> QED
  BY <1>2 DEF Ack

(* The backup handles an entry. *)
LEMMA HandleReplicateMoves ==
    ASSUME TypeOK, NEW c \in Conns, HandleReplicate(c)
    PROVE  \E ok \in BOOLEAN :
             LET id == Head(conn[c].buffer)
             IN  /\ conn' = [conn EXCEPT ![c].buffer = Tail(@),
                                ![c].handling = <<[id |-> id, ok |-> ok]>>]
                 /\ applied' = IF ok THEN [applied EXCEPT ![id] = @ + 1]
                                     ELSE applied
                 /\ disturbances' \in Nat
<1> DEFINE id == Head(conn[c].buffer)
<1>1. CASE /\ applied' = [applied EXCEPT ![id] = @ + 1]
           /\ conn' = [conn EXCEPT ![c].buffer = Tail(@),
                          ![c].handling = <<[id |-> id, ok |-> TRUE]>>]
           /\ UNCHANGED disturbances
  <2>1. disturbances' \in Nat
    BY <1>1 DEF TypeOK
  <2> WITNESS TRUE \in BOOLEAN
  <2> QED
    BY <1>1, <2>1
<1>2. CASE /\ Disturb("applyFault")
           /\ conn' = [conn EXCEPT ![c].buffer = Tail(@),
                          ![c].handling = <<[id |-> id, ok |-> FALSE]>>]
           /\ UNCHANGED applied
  <2>1. disturbances' \in Nat
    BY <1>2 DEF Disturb, TypeOK
  <2> WITNESS FALSE \in BOOLEAN
  <2> QED
    BY <1>2, <2>1
<1> QED
  BY <1>1, <1>2 DEF HandleReplicate

(* The backup keeps the types. *)
LEMMA BackupType ==
    ASSUME TypeOK, NEW c \in Conns,
           BackupStep(c) \/ BackupSees(c) \/ SilentEnd(c)
    PROVE  TypeOK'
<1>1. CASE HandleConnection(c)
  <2>1. CASE primarySocket = None
    BY <1>1, <2>1, AcceptMoves DEF HandleConnection, manager, entries, TypeOK
  <2>2. CASE primarySocket # None
    BY <1>1, <2>2, LosesMoves DEF HandleConnection, manager, entries, TypeOK
  <2> QED
    BY <2>1, <2>2
<1>2. CASE Receive(c)
  <2>1. conn' \in [Conns -> Connection]
    BY <1>2, ReceiveMoves DEF Receive
  <2> QED
    BY <1>2, <2>1 DEF Receive, manager, entries, TypeOK
<1>3. CASE HandleReplicate(c)
  <2>1. PICK ok \in BOOLEAN :
          LET id == Head(conn[c].buffer)
          IN  /\ conn' = [conn EXCEPT ![c].buffer = Tail(@),
                             ![c].handling = <<[id |-> id, ok |-> ok]>>]
              /\ applied' = IF ok THEN [applied EXCEPT ![id] = @ + 1]
                                  ELSE applied
              /\ disturbances' \in Nat
    BY <1>3, HandleReplicateMoves
  <2>2. conn[c].buffer # << >>
    BY <1>3 DEF HandleReplicate
  <2>3. conn' \in [Conns -> Connection]
    <3> DEFINE answer == [id |-> Head(conn[c].buffer), ok |-> ok]
    <3>1. answer \in Ack
      BY <2>2, HandledHead
    <3>2. conn' = [conn EXCEPT ![c].buffer = Tail(@),
                               ![c].handling = <<answer>>]
      BY <2>1
    <3> HIDE DEF answer
    <3> QED
      BY <2>2, <3>1, <3>2, HandleMoves
  <2>4. applied' \in [Entries -> Nat]
    <3> DEFINE id == Head(conn[c].buffer)
               n == applied[id] + 1
    <3>1. applied \in [Entries -> Nat]
      BY DEF TypeOK
    <3>2. id \in Entries => n \in Nat
      BY <3>1
    <3>3. [applied EXCEPT ![id] = @ + 1] = [applied EXCEPT ![id] = n]
      BY <3>1
    <3>4. applied' = [applied EXCEPT ![id] = n] \/ applied' = applied
      BY <2>1, <3>3
    <3> HIDE DEF id, n
    <3> QED
      BY <3>1, <3>2, <3>4
  <2>5. UNCHANGED <<written, manager, serverUp, primarySocket, lost,
                    confirmed, misread>>
    BY <1>3 DEF HandleReplicate
  <2> QED
    BY <2>1, <2>3, <2>4, <2>5 DEF manager, entries, TypeOK
<1>4. CASE SendAck(c)
  BY <1>4, AnswerMoves DEF SendAck, manager, entries, TypeOK
<1>5. CASE SocketError(c) \/ SocketClose(c)
  <2>1. \E end \in {"errored", "gone"} :
          conn' = [conn EXCEPT ![c].backup = end, ![c].toBackup = << >>]
    BY <1>5 DEF SocketError, SocketClose
  <2>2. conn' \in [Conns -> Connection]
    BY <2>1, LosesMoves
  <2>3. /\ primarySocket' = None
        /\ UNCHANGED <<written, manager, serverUp, entries, disturbances>>
    BY <1>5 DEF SocketError, SocketClose
  <2> QED
    BY <2>2, <2>3 DEF manager, entries, TypeOK
<1>6. CASE SilentEnd(c)
  <2>1. conn' \in [Conns -> Connection]
    BY <1>6, SilentMoves DEF SilentEnd
  <2>2. disturbances' \in Nat
    BY <1>6 DEF SilentEnd, Disturb, TypeOK
  <2>3. UNCHANGED <<written, manager, serverUp, primarySocket, entries>>
    BY <1>6 DEF SilentEnd
  <2> QED
    BY <2>1, <2>2, <2>3 DEF manager, entries, TypeOK
<1> QED
  BY <1>1, <1>2, <1>3, <1>4, <1>5, <1>6 DEF BackupStep, BackupSees

(* Losing entries keeps the counts. *)
LEMMA WithoutType ==
    ASSUME TypeOK, NEW ids
    PROVE  Without(ids) \in [Entries -> Nat]
BY DEF TypeOK, Without

(* Every step keeps the types. *)
LEMMA NextType == TypeOK /\ [Next]_vars => TypeOK'
<1> SUFFICES ASSUME TypeOK, [Next]_vars PROVE TypeOK'
  OBVIOUS
<1>1. CASE BackupStop
  <2>1. applied' \in [Entries -> Nat]
    BY <1>1, WithoutType DEF BackupStop
  <2>2. disturbances' \in Nat
    <3>1. Disturb("backupRestart")
      BY <1>1 DEF BackupStop
    <3> QED
      BY <3>1 DEF Disturb, TypeOK
  <2>3. conn' \in [Conns -> Connection]
    BY <1>1, StopMoves
  <2>4. /\ serverUp' = FALSE /\ primarySocket' = None
        /\ UNCHANGED <<written, manager, lost, confirmed, misread>>
    BY <1>1 DEF BackupStop
  <2> QED
    BY <2>1, <2>2, <2>3, <2>4 DEF manager, entries, TypeOK
<1>2. CASE BackupStart \/ Quiescent \/ UNCHANGED vars
  BY <1>2 DEF BackupStart, Quiescent, vars, manager, entries, TypeOK
<1>3. CASE StoreLoses
  <2>1. applied' \in [Entries -> Nat] /\ lost' \subseteq Entries
    BY <1>3, WithoutType DEF StoreLoses, TypeOK
  <2>2. disturbances' \in Nat
    BY <1>3 DEF StoreLoses, Disturb, TypeOK
  <2>3. UNCHANGED <<written, manager, conn, serverUp, primarySocket,
                    confirmed, misread>>
    BY <1>3 DEF StoreLoses
  <2> QED
    BY <2>1, <2>2, <2>3 DEF manager, TypeOK
<1> QED
  BY <1>1, <1>2, <1>3, PrimaryType, SendType, BackupType DEF Next, Restarts

(* Every variable keeps its type. *)
THEOREM ReplicationTypeCorrect == Spec => []TypeOK
BY InitType, NextType, PTL DEF Spec

-----------------------------------------------------------------------------
(* The ends of the connections *)

(* What the primary believes about its socket is so, and every other       *)
(* connection is closed on its side.                                       *)
Ends ==
    /\ connected <=> Current.primary = "open"
    /\ connecting # "no" <=> Current.primary = "connecting"
    /\ Current.primary # "none"
    /\ \A c \in Conns \ {socket} : conn[c].primary \in {"none", "closed"}
    /\ ~connected => pendingAcks = << >>

(* What may be under way on a connection, by the state of its ends. *)
Shaped(k) ==
    /\ k.backup = "none" => /\ k.toBackup = << >> /\ k.buffer = << >>
                            /\ k.handling = << >> /\ k.toPrimary = << >>
    /\ k.primary \in {"none", "connecting"} => k.backup = "none"
    /\ k.primary = "open" => k.backup # "none"
    /\ k.backup = "backlog" => /\ k.buffer = << >> /\ k.handling = << >>
                               /\ k.toPrimary = << >>
    /\ k.primary # "open" => k.toPrimary = << >>
    /\ Len(k.handling) <= 1

Shape == \A c \in Conns : Shaped(conn[c])

(* The backup changes nothing of the primary. *)
LEMMA BackupKeepsEnds ==
    ASSUME TypeOK,
           \/ \E c \in Conns :
                BackupStep(c) \/ BackupSees(c) \/ SilentEnd(c)
           \/ BackupStop \/ StoreLoses \/ BackupStart \/ Quiescent
           \/ UNCHANGED vars
    PROVE  /\ UNCHANGED <<connected, connecting, socket, pendingAcks, stray>>
           /\ \A d \in Conns : conn'[d].primary = conn[d].primary
<1>1. UNCHANGED <<connected, connecting, socket, pendingAcks, stray>>
  BY DEF BackupStep, BackupSees, HandleConnection, Receive, HandleReplicate,
         SendAck, SocketError, SocketClose, SilentEnd, BackupStop, StoreLoses,
         BackupStart, Quiescent, vars, manager
<1>2. ASSUME NEW c \in Conns,
             BackupStep(c) \/ BackupSees(c) \/ SilentEnd(c)
      PROVE  \A d \in Conns : conn'[d].primary = conn[d].primary
  <2>1. CASE HandleConnection(c)
    <3>1. CASE primarySocket = None
      BY <2>1, <3>1, AcceptMoves DEF HandleConnection
    <3>2. CASE primarySocket # None
      <4>1. conn' = [conn EXCEPT ![c].backup = "gone", ![c].toBackup = << >>]
        BY <2>1, <3>2 DEF HandleConnection
      <4> QED
        BY <4>1, LosesKeepsEnds
    <3> QED
      BY <3>1, <3>2
  <2>2. CASE Receive(c)
    BY <2>2, ReceiveMoves DEF Receive
  <2>3. CASE HandleReplicate(c)
    <3>1. conn[c].buffer # << >>
      BY <2>3 DEF HandleReplicate
    <3>2. \E answer \in Ack :
             conn' = [conn EXCEPT ![c].buffer = Tail(@),
                                  ![c].handling = <<answer>>]
      BY <2>3, <3>1, HandleReplicateMoves, HandledHead
    <3> QED
      BY <3>1, <3>2, HandleMoves
  <2>4. CASE SendAck(c)
    BY <2>4, AnswerMoves DEF SendAck
  <2>5. CASE SocketError(c) \/ SocketClose(c)
    <3>1. \E end \in {"errored", "gone"} :
            conn' = [conn EXCEPT ![c].backup = end, ![c].toBackup = << >>]
      BY <2>5 DEF SocketError, SocketClose
    <3> QED
      BY <3>1, LosesKeepsEnds
  <2>6. CASE SilentEnd(c)
    BY <2>6, SilentMoves DEF SilentEnd
  <2> QED
    BY <1>2, <2>1, <2>2, <2>3, <2>4, <2>5, <2>6 DEF BackupStep, BackupSees
<1>3. ASSUME BackupStop
      PROVE  \A d \in Conns : conn'[d].primary = conn[d].primary
  <2>1. \A d \in Conns : conn'[d] = Stopped(conn[d])
    BY <1>3, StopMoves
  <2>2. \A d \in Conns : conn[d] \in Connection
    BY DEF TypeOK
  <2>3. \A d \in Conns : Stopped(conn[d]).primary = conn[d].primary
    BY <2>2, StoppedFields
  <2> QED
    BY <2>1, <2>3
<1>4. ASSUME StoreLoses \/ BackupStart \/ Quiescent \/ UNCHANGED vars
      PROVE  UNCHANGED conn
  BY <1>4 DEF StoreLoses, BackupStart, Quiescent, vars
<1> QED
  BY <1>1, <1>2, <1>3, <1>4

(* The primary has one socket at first. *)
LEMMA InitEnds == Init => Ends
BY NewFields DEF Init, Ends, Current, NewConnection, NoConnection

(* Every step keeps the primary's view of its socket true. *)
LEMMA NextEnds == TypeOK /\ Ends /\ [Next]_vars => Ends'
<1> SUFFICES ASSUME TypeOK, Ends, [Next]_vars PROVE Ends'
  OBVIOUS
<1>0. socket \in Conns /\ \A d \in Conns : conn[d] \in Connection
  BY DEF TypeOK
<1>1. CASE Connected
  <2>1. UNCHANGED <<socket, pendingAcks>> /\ connected' /\ connecting' = "no"
    BY <1>1 DEF Connected
  <2> QED
    BY <1>0, <1>1, <2>1, ConnectedMoves DEF Ends, Current
<1>2. CASE ConnectFails \/ Timeout \/ NetworkError
  <2>1. HandleConnectionError
    BY <1>2 DEF ConnectFails, Timeout, NetworkError
  <2>2. /\ ~connected' /\ connecting' = "no" /\ socket' = socket
        /\ pendingAcks' = << >>
    BY <2>1 DEF HandleConnectionError, RejectAllPending
  <2>3. /\ conn'[socket] = Closed(conn[socket])
        /\ \A d \in Conns \ {socket} : conn'[d] = conn[d]
    BY <2>1, ClosesMoves DEF HandleConnectionError
  <2> QED
    BY <1>0, <2>2, <2>3, ClosedFields DEF Ends, Current
<1>3. CASE HandleConnectionClose
  <2>1. /\ ~connected' /\ connecting' = connecting /\ socket' = socket
        /\ pendingAcks' = << >> /\ Current.primary = "open"
    BY <1>3 DEF HandleConnectionClose, RejectAllPending
  <2>2. /\ conn'[socket] = Closed(conn[socket])
        /\ \A d \in Conns \ {socket} : conn'[d] = conn[d]
    BY <1>3, ClosesMoves DEF HandleConnectionClose
  <2> QED
    BY <1>0, <2>1, <2>2, ClosedFields DEF Ends, Current
<1>4. CASE Reconnect
  <2>1. CASE connected \/ connecting # "no"
    BY <1>4, <2>1 DEF Reconnect, Ends, Current
  <2>2. CASE ~(connected \/ connecting # "no")
    <3>1. /\ Establish("timer", conn)
          /\ UNCHANGED <<connected, pendingAcks>>
      BY <1>4, <2>2 DEF Reconnect
    <3>2. conn \in [Conns -> Connection]
      BY DEF TypeOK
    <3>3. /\ socket' \in Conns /\ connecting' = "timer"
          /\ conn'[socket'] = NewConnection
          /\ \A d \in Conns \ {socket'} : conn'[d] = conn[d]
      BY <3>1, <3>2, EstablishMoves
    <3>4. \A d \in Conns : conn[d].primary \in {"none", "closed"}
      BY <1>0, <2>2, ConnFields DEF Ends, Current
    <3> QED
      BY <2>2, <3>1, <3>3, <3>4, NewFields DEF Ends, Current
  <2> QED
    BY <2>1, <2>2
<1>5. CASE Restarts
  <2>1. ~connected' /\ pendingAcks' = << >> /\ Restart
    BY <1>5, RestartsAre
  <2>2. \A d \in Conns \ {socket'} : conn'[d].primary \in {"none", "closed"}
    BY <1>0, <2>1, RestartMoves, ClosedFields DEF Ends
  <2> QED
    BY <2>1, <2>2, RestartMoves, NewFields DEF Ends, Current
<1>6. CASE Replicate
  <2>1. /\ UNCHANGED <<connected, connecting, socket>>
        /\ ~connected => UNCHANGED pendingAcks
    BY <1>6 DEF Replicate
  <2>2. \A d \in Conns : conn'[d].primary = conn[d].primary
    <3>1. CASE connected /\ Current.backup # "gone"
      <4>1. conn' = [conn EXCEPT ![socket].toBackup = Append(@, written + 1)]
        BY <1>6, <3>1 DEF Replicate
      <4>2. written + 1 \in Nat
        BY DEF TypeOK
      <4> QED
        BY <4>1, <4>2, SendMoves
    <3>2. CASE ~(connected /\ Current.backup # "gone")
      BY <1>6, <3>2 DEF Replicate
    <3> QED
      BY <3>1, <3>2
  <2> QED
    BY <1>0, <2>1, <2>2 DEF Ends, Current
<1>7. CASE HandleAck \/ MisreadAck
  <2>1. UNCHANGED <<connected, connecting, socket>> /\ Current.primary = "open"
    BY <1>7 DEF HandleAck, MisreadAck, AnswerArrives
  <2>2. \A d \in Conns : conn'[d].primary = conn[d].primary
    BY <1>7, AckMoves DEF HandleAck, MisreadAck, AnswerArrives, Current
  <2>3. connected'
    BY <2>1 DEF Ends
  <2> QED
    BY <1>0, <2>1, <2>2, <2>3 DEF Ends, Current
<1>8. CASE \/ \E c \in Conns :
                BackupStep(c) \/ BackupSees(c) \/ SilentEnd(c)
           \/ BackupStop \/ StoreLoses \/ BackupStart \/ Quiescent
           \/ UNCHANGED vars
  BY <1>0, <1>8, BackupKeepsEnds DEF Ends, Current
<1> QED
  BY <1>1, <1>2, <1>3, <1>4, <1>5, <1>6, <1>7, <1>8 DEF Next, Restarts

-----------------------------------------------------------------------------
(* The shape of a connection *)

(* Nothing is on a connection at first. *)
LEMMA InitShape == Init => Shape
<1>1. Shaped(NoConnection) /\ Shaped(NewConnection)
  BY NewFields DEF NewConnection, NoConnection, Shaped
<1> QED
  BY <1>1 DEF Init, Shape, NewConnection

(* A closed connection has its shape. *)
LEMMA ClosedShape ==
    ASSUME NEW k \in Connection, Shaped(k) PROVE Shaped(Closed(k))
<1> DEFINE m == Closed(k)
<1>1. /\ m.primary = "closed" /\ m.backup = k.backup
      /\ m.toBackup = k.toBackup /\ m.buffer = k.buffer
      /\ m.handling = k.handling /\ m.toPrimary = << >>
  BY ClosedFields
<1> HIDE DEF m
<1>2. Shaped(m)
  BY <1>1 DEF Shaped
<1> QED
  BY <1>2 DEF m

(* A connection the backup gave up has its shape, unless it is still new.  *)
LEMMA LostShape ==
    ASSUME NEW k \in Connection, NEW end \in {"errored", "gone"}, Shaped(k),
           k.backup # "none"
    PROVE  Shaped(Lost(k, end))
<1> DEFINE m == Lost(k, end)
<1>1. /\ m.primary = k.primary /\ m.backup = end
      /\ m.handling = k.handling /\ m.toPrimary = k.toPrimary
  BY LostFields
<1> HIDE DEF m
<1>2. Shaped(m)
  BY <1>1 DEF Shaped
<1> QED
  BY <1>2 DEF m

(* So does a connection whose backup has stopped. *)
LEMMA StoppedShape ==
    ASSUME NEW k \in Connection, Shaped(k) PROVE Shaped(Stopped(k))
<1> DEFINE m == Stopped(k)
<1>1. /\ m.primary = k.primary
      /\ m.backup = IF k.backup = "none" THEN "none" ELSE "gone"
      /\ m.toBackup = << >> /\ m.buffer = << >> /\ m.handling = << >>
      /\ m.toPrimary = k.toPrimary
  BY StoppedFields
<1> HIDE DEF m
<1>2. Shaped(m)
  BY <1>1 DEF Shaped
<1> QED
  BY <1>2 DEF m

(* The primary's steps keep every connection in shape. *)
LEMMA PrimaryShape ==
    ASSUME TypeOK, Ends, Shape,
           \/ Connected \/ ConnectFails \/ Timeout \/ NetworkError
           \/ HandleConnectionClose \/ Reconnect \/ Replicate \/ HandleAck
           \/ MisreadAck \/ Restarts
    PROVE  Shape'
<1>0. socket \in Conns /\ \A d \in Conns : conn[d] \in Connection /\ Shaped(conn[d])
  BY DEF TypeOK, Shape
<1>1. Shaped(NewConnection)
  BY NewFields DEF Shaped
<1>2. CASE Connected
  <2>1. Shaped(conn'[socket])
    <3>1. conn[socket].primary = "connecting"
      BY <1>2 DEF Connected, Current
    <3> QED
      BY <1>0, <1>2, <3>1, ConnectedMoves DEF Shaped
  <2> QED
    BY <1>0, <1>2, <2>1, ConnectedMoves DEF Shape
<1>3. CASE ConnectFails \/ Timeout \/ NetworkError \/ HandleConnectionClose
  <2>1. conn' = [conn EXCEPT ![socket].primary = "closed",
                             ![socket].toPrimary = << >>]
    BY <1>3 DEF ConnectFails, Timeout, NetworkError, HandleConnectionError,
                HandleConnectionClose
  <2>2. /\ conn'[socket] = Closed(conn[socket])
        /\ \A d \in Conns \ {socket} : conn'[d] = conn[d]
    BY <2>1, ClosesMoves
  <2> QED
    BY <1>0, <2>2, ClosedShape DEF Shape
<1>4. CASE Reconnect
  <2>1. CASE connected \/ connecting # "no"
    BY <1>0, <1>4, <2>1 DEF Reconnect, Shape
  <2>2. CASE ~(connected \/ connecting # "no")
    <3>1. Establish("timer", conn) /\ conn \in [Conns -> Connection]
      BY <1>4, <2>2 DEF Reconnect, TypeOK
    <3>2. /\ socket' \in Conns
          /\ conn'[socket'] = NewConnection
          /\ \A d \in Conns \ {socket'} : conn'[d] = conn[d]
      BY <3>1, EstablishMoves
    <3> QED
      BY <1>0, <1>1, <3>2 DEF Shape
  <2> QED
    BY <2>1, <2>2
<1>5. CASE Restarts
  BY <1>0, <1>1, <1>5, RestartsAre, RestartMoves, ClosedShape DEF Shape
<1>6. CASE Replicate
  <2>1. CASE connected /\ Current.backup # "gone"
    <3>1. conn' = [conn EXCEPT ![socket].toBackup = Append(@, written + 1)]
      BY <1>6, <2>1 DEF Replicate
    <3>2. written + 1 \in Nat
      BY DEF TypeOK
    <3>3. conn[socket].primary = "open" /\ conn[socket].backup # "none"
      BY <1>0, <2>1 DEF Ends, Current, Shaped
    <3>4. Shaped(conn'[socket])
      BY <1>0, <3>1, <3>2, <3>3, SendMoves DEF Shaped
    <3>5. \A d \in Conns \ {socket} : conn'[d] = conn[d]
      BY <3>1, <3>2, SendMoves
    <3> QED
      BY <1>0, <3>4, <3>5 DEF Shape
  <2>2. CASE ~(connected /\ Current.backup # "gone")
    BY <1>0, <1>6, <2>2 DEF Replicate, Shape
  <2> QED
    BY <2>1, <2>2
<1>7. CASE HandleAck \/ MisreadAck
  <2>1. /\ conn[socket].toPrimary # << >> /\ conn[socket].primary = "open"
        /\ conn' = [conn EXCEPT ![socket].toPrimary = Tail(@)]
    BY <1>7 DEF HandleAck, MisreadAck, AnswerArrives, Current
  <2>2. Shaped(conn'[socket])
    BY <1>0, <2>1, AckMoves DEF Shaped
  <2> QED
    BY <1>0, <2>1, <2>2, AckMoves DEF Shape
<1> QED
  BY <1>2, <1>3, <1>4, <1>5, <1>6, <1>7

(* One connection of the backup changes and keeps its shape. *)
LEMMA OneShape ==
    ASSUME Shape, NEW c \in Conns, Shaped(conn'[c]),
           \A d \in Conns \ {c} : conn'[d] = conn[d]
    PROVE  Shape'
BY DEF Shape

(* The backup's steps keep every connection in shape. *)
LEMMA BackupShape ==
    ASSUME TypeOK, Shape, NEW c \in Conns,
           BackupStep(c) \/ BackupSees(c) \/ SilentEnd(c)
    PROVE  Shape'
<1>0. conn[c] \in Connection /\ Shaped(conn[c])
  BY DEF TypeOK, Shape
<1>1. CASE HandleConnection(c)
  <2>1. CASE primarySocket = None
    <3>1. conn' = [conn EXCEPT ![c].backup = "accepted"]
      BY <1>1, <2>1 DEF HandleConnection
    <3>2. conn[c].backup = "backlog"
      BY <1>1 DEF HandleConnection
    <3>3. Shaped(conn'[c])
      BY <1>0, <3>1, <3>2, AcceptMoves DEF Shaped
    <3> QED
      BY <3>1, <3>3, AcceptMoves, OneShape
  <2>2. CASE primarySocket # None
    <3>1. conn' = [conn EXCEPT ![c].backup = "gone", ![c].toBackup = << >>]
      BY <1>1, <2>2 DEF HandleConnection
    <3>2. /\ conn'[c] = Lost(conn[c], "gone")
          /\ \A d \in Conns \ {c} : conn'[d] = conn[d]
      BY <3>1, LosesMoves
    <3>3. conn[c].backup # "none"
      BY <1>1 DEF HandleConnection
    <3> QED
      BY <1>0, <3>2, <3>3, LostShape, OneShape
  <2> QED
    BY <2>1, <2>2
<1>2. CASE Receive(c)
  <2>1. PICK n \in 1..Len(conn[c].toBackup) :
          conn' = [conn EXCEPT
                     ![c].buffer = SubSeq(conn[c].toBackup, 1, n),
                     ![c].toBackup = SubSeq(@, n + 1, Len(@))]
    BY <1>2 DEF Receive
  <2>2. conn[c].backup = "accepted"
    BY <1>2 DEF Receive
  <2>3. /\ conn'[c].primary = conn[c].primary
        /\ conn'[c].backup = conn[c].backup
        /\ conn'[c].handling = conn[c].handling
        /\ conn'[c].toPrimary = conn[c].toPrimary
        /\ \A d \in Conns \ {c} : conn'[d] = conn[d]
    BY <2>1, ReceiveMoves
  <2>4. Shaped(conn'[c])
    BY <1>0, <2>2, <2>3 DEF Shaped
  <2> QED
    BY <2>3, <2>4, OneShape
<1>3. CASE HandleReplicate(c)
  <2>1. conn[c].buffer # << >>
    BY <1>3 DEF HandleReplicate
  <2>2. PICK answer \in Ack :
           conn' = [conn EXCEPT ![c].buffer = Tail(@),
                                ![c].handling = <<answer>>]
    BY <1>3, <2>1, HandleReplicateMoves, HandledHead
  <2>3. /\ conn'[c].primary = conn[c].primary
        /\ conn'[c].backup = conn[c].backup
        /\ conn'[c].handling = <<answer>>
        /\ conn'[c].toPrimary = conn[c].toPrimary
        /\ \A d \in Conns \ {c} : conn'[d] = conn[d]
    BY <2>1, <2>2, HandleMoves
  <2>4. Len(conn'[c].handling) <= 1
    BY <2>3
  <2>5. Shaped(conn'[c])
    BY <1>0, <2>1, <2>3, <2>4 DEF Shaped
  <2> QED
    BY <2>3, <2>5, OneShape
<1>4. CASE SendAck(c)
  <2>1. conn' = Answer(c) /\ conn[c].handling # << >>
    BY <1>4 DEF SendAck
  <2>2. /\ conn'[c].primary = conn[c].primary
        /\ conn'[c].backup = conn[c].backup
        /\ conn'[c].handling = << >>
        /\ conn[c].primary # "open" =>
              conn'[c].toPrimary = conn[c].toPrimary
        /\ \A d \in Conns \ {c} : conn'[d] = conn[d]
    BY <2>1, AnswerMoves
  <2>3. Len(conn'[c].handling) <= 1
    BY <2>2
  <2>4. Shaped(conn'[c])
    BY <1>0, <2>1, <2>2, <2>3 DEF Shaped
  <2> QED
    BY <2>2, <2>4, OneShape
<1>5. CASE SocketError(c) \/ SocketClose(c)
  <2>1. PICK end \in {"errored", "gone"} :
          conn' = [conn EXCEPT ![c].backup = end, ![c].toBackup = << >>]
    BY <1>5 DEF SocketError, SocketClose
  <2>2. conn[c].backup # "none"
    BY <1>5 DEF SocketError, SocketClose, SeesEnd
  <2>3. /\ conn'[c] = Lost(conn[c], end)
        /\ \A d \in Conns \ {c} : conn'[d] = conn[d]
    BY <2>1, LosesMoves
  <2> QED
    BY <1>0, <2>2, <2>3, LostShape, OneShape
<1>6. CASE SilentEnd(c)
  <2>1. conn' = [conn EXCEPT ![c].silent = TRUE]
    BY <1>6 DEF SilentEnd
  <2>2. Shaped(conn'[c])
    BY <1>0, <2>1, SilentMoves DEF Shaped
  <2> QED
    BY <2>1, <2>2, SilentMoves, OneShape
<1> QED
  BY <1>1, <1>2, <1>3, <1>4, <1>5, <1>6 DEF BackupStep, BackupSees

(* Every step keeps every connection in shape. *)
LEMMA NextShape == TypeOK /\ Ends /\ Shape /\ [Next]_vars => Shape'
<1> SUFFICES ASSUME TypeOK, Ends, Shape, [Next]_vars PROVE Shape'
  OBVIOUS
<1>1. CASE BackupStop
  <2>1. \A d \in Conns : conn[d] \in Connection
    BY DEF TypeOK
  <2> QED
    BY <1>1, <2>1, StopMoves, StoppedShape DEF Shape
<1>2. CASE StoreLoses \/ BackupStart \/ Quiescent \/ UNCHANGED vars
  BY <1>2 DEF StoreLoses, BackupStart, Quiescent, vars, Shape
<1> QED
  BY <1>1, <1>2, PrimaryShape, BackupShape DEF Next, Restarts

-----------------------------------------------------------------------------
(* The entries under way on a connection *)

(* The entries of a sequence of answers. *)
LEMMA IdsFacts ==
    ASSUME NEW s \in Seq(Ack)
    PROVE  /\ IdsOf(s) \in Seq(Nat)
           /\ Len(IdsOf(s)) = Len(s)
           /\ \A i \in 1..Len(s) : IdsOf(s)[i] = s[i].id
<1>1. DOMAIN s = 1..Len(s) /\ Len(s) \in Nat
  BY LenProperties
<1>2. \A i \in 1..Len(s) : s[i].id \in Nat
  <2> SUFFICES ASSUME NEW i \in 1..Len(s) PROVE s[i].id \in Nat
    OBVIOUS
  <2>1. s[i] \in Ack
    BY ElementOfSeq
  <2> QED
    BY <2>1 DEF Ack
<1>3. IdsOf(s) = [i \in 1..Len(s) |-> s[i].id]
  BY <1>1 DEF IdsOf
<1> QED
  BY <1>1, <1>2, <1>3

(* No answers, no entries; one answer, one entry. *)
LEMMA IdsShort ==
    /\ IdsOf(<< >>) = << >>
    /\ \A a \in Ack : IdsOf(<<a>>) = <<a.id>>
<1>1. IdsOf(<< >>) = << >>
  <2> DEFINE none == << >>
  <2>1. none \in Seq(Ack) /\ Len(none) = 0
    OBVIOUS
  <2> HIDE DEF none
  <2>2. IdsOf(none) \in Seq(Nat) /\ Len(IdsOf(none)) = 0
    BY <2>1, IdsFacts
  <2>3. IdsOf(none) = << >>
    BY <2>2, EmptySeq
  <2> QED
    BY <2>3 DEF none
<1>2. ASSUME NEW a \in Ack PROVE IdsOf(<<a>>) = <<a.id>>
  <2> DEFINE s == <<a>>
             t == <<a.id>>
  <2>1. /\ s \in Seq(Ack) /\ Len(s) = 1 /\ s[1] = a
        /\ a.id \in Nat /\ Len(t) = 1 /\ t[1] = a.id
    BY DEF Ack
  <2>2. t \in Seq(Nat)
    BY <2>1
  <2> HIDE DEF s, t
  <2>3. /\ IdsOf(s) \in Seq(Nat) /\ Len(IdsOf(s)) = 1
        /\ IdsOf(s)[1] = a.id
    BY <2>1, IdsFacts
  <2>4. \A i \in 1..Len(t) : IdsOf(s)[i] = t[i]
    BY <2>1, <2>3
  <2>5. IdsOf(s) = t
    BY <2>1, <2>2, <2>3, <2>4, SeqEqual
  <2> QED
    BY <2>5 DEF s, t
<1> QED
  BY <1>1, <1>2

(* The entries of two sequences of answers, one after the other. *)
LEMMA IdsConcat ==
    ASSUME NEW s \in Seq(Ack), NEW t \in Seq(Ack)
    PROVE  IdsOf(s \o t) = IdsOf(s) \o IdsOf(t)
<1> DEFINE st == s \o t
           a == IdsOf(s)
           b == IdsOf(t)
<1>1. /\ st \in Seq(Ack) /\ Len(st) = Len(s) + Len(t)
      /\ \A i \in 1..(Len(s) + Len(t)) :
            st[i] = IF i <= Len(s) THEN s[i] ELSE t[i - Len(s)]
  BY ConcatProperties
<1>2. /\ a \in Seq(Nat) /\ Len(a) = Len(s)
      /\ \A i \in 1..Len(s) : a[i] = s[i].id
      /\ b \in Seq(Nat) /\ Len(b) = Len(t)
      /\ \A i \in 1..Len(t) : b[i] = t[i].id
  BY IdsFacts
<1>3. Len(s) \in Nat /\ Len(t) \in Nat
  OBVIOUS
<1> HIDE DEF st, a, b
<1>4. /\ IdsOf(st) \in Seq(Nat) /\ Len(IdsOf(st)) = Len(s) + Len(t)
      /\ \A i \in 1..(Len(s) + Len(t)) : IdsOf(st)[i] = st[i].id
  BY <1>1, IdsFacts
<1>5. /\ a \o b \in Seq(Nat) /\ Len(a \o b) = Len(s) + Len(t)
      /\ \A i \in 1..(Len(s) + Len(t)) :
            (a \o b)[i] = IF i <= Len(s) THEN a[i] ELSE b[i - Len(s)]
  <2>1. a \in Seq(Nat) /\ b \in Seq(Nat)
    BY <1>2
  <2>2. /\ a \o b \in Seq(Nat) /\ Len(a \o b) = Len(a) + Len(b)
        /\ \A i \in 1..(Len(a) + Len(b)) :
              (a \o b)[i] = IF i <= Len(a) THEN a[i] ELSE b[i - Len(a)]
    BY <2>1, ConcatProperties
  <2>3. Len(a) = Len(s) /\ Len(b) = Len(t)
    BY <1>2
  <2> QED
    BY <2>2, <2>3
<1>6. ASSUME NEW i \in 1..(Len(s) + Len(t))
      PROVE  IdsOf(st)[i] = (a \o b)[i]
  <2>1. CASE i <= Len(s)
    <3>1. i \in 1..Len(s)
      BY <1>3, <2>1
    <3> QED
      BY <1>1, <1>2, <1>4, <1>5, <2>1, <3>1
  <2>2. CASE ~(i <= Len(s))
    <3>1. i - Len(s) \in 1..Len(t)
      BY <1>3, <2>2
    <3> QED
      BY <1>1, <1>2, <1>4, <1>5, <2>2, <3>1
  <2> QED
    BY <2>1, <2>2
<1>7. IdsOf(st) = a \o b
  BY <1>4, <1>5, <1>6, SeqEqual
<1> QED
  BY <1>7 DEF st, a, b

(* Everything under way on a connection, the oldest entry first. *)
Pipe(k) == IdsOf(k.toPrimary) \o IdsOf(k.handling) \o k.buffer \o k.toBackup

(* The same for four sequences of entries. *)
LEMMA PipeParts ==
    ASSUME NEW k \in Connection
    PROVE  /\ IdsOf(k.toPrimary) \in Seq(Nat)
           /\ IdsOf(k.handling) \in Seq(Nat)
           /\ k.buffer \in Seq(Nat) /\ k.toBackup \in Seq(Nat)
           /\ Pipe(k) \in Seq(Nat)
<1>1. /\ IdsOf(k.toPrimary) \in Seq(Nat) /\ IdsOf(k.handling) \in Seq(Nat)
      /\ k.buffer \in Seq(Nat) /\ k.toBackup \in Seq(Nat)
  BY ConnFields, IdsFacts
<1> QED
  BY <1>1 DEF Pipe

(* Concatenation is associative. *)
LEMMA NatCatAssoc ==
    \A s, t, u \in Seq(Nat) : (s \o t) \o u = s \o (t \o u)
BY ConcatAssociative, SMTT(30)

(* An entry sent is the last one under way. *)
LEMMA PipeSend ==
    ASSUME NEW s \in Seq(Nat), NEW t \in Seq(Nat), NEW id \in Nat
    PROVE  s \o Append(t, id) = Append(s \o t, id)
<1>1. <<id>> \in Seq(Nat)
  OBVIOUS
<1>2. \A u \in Seq(Nat) : Append(u, id) = u \o <<id>>
  BY AppendIsConcat
<1>3. s \o t \in Seq(Nat)
  OBVIOUS
<1>4. s \o (t \o <<id>>) = (s \o t) \o <<id>>
  BY <1>1, NatCatAssoc
<1> QED
  BY <1>2, <1>3, <1>4

(* A chunk read stays in its place. *)
LEMMA PipeReceive ==
    ASSUME NEW s \in Seq(Nat), NEW t \in Seq(Nat), NEW n \in 1..Len(t)
    PROVE  (s \o << >>) \o t =
               (s \o SubSeq(t, 1, n)) \o SubSeq(t, n + 1, Len(t))
<1> DEFINE a == SubSeq(t, 1, n)
           b == SubSeq(t, n + 1, Len(t))
<1>1. Len(t) \in Nat
  BY LenProperties
<1>2. a \in Seq(Nat) /\ b \in Seq(Nat)
  BY <1>1
<1>3. /\ Len(a) = n /\ \A i \in 1..n : a[i] = t[i]
      /\ Len(b) = Len(t) - n
      /\ \A i \in 1..(Len(t) - n) : b[i] = t[n + i]
  BY <1>1
<1> HIDE DEF a, b
<1>4. /\ a \o b \in Seq(Nat) /\ Len(a \o b) = Len(t)
      /\ \A i \in 1..Len(t) :
            (a \o b)[i] = IF i <= n THEN a[i] ELSE b[i - n]
  <2>1. /\ a \o b \in Seq(Nat) /\ Len(a \o b) = Len(a) + Len(b)
        /\ \A i \in 1..(Len(a) + Len(b)) :
              (a \o b)[i] = IF i <= Len(a) THEN a[i] ELSE b[i - Len(a)]
    BY <1>2, ConcatProperties
  <2>2. Len(a) + Len(b) = Len(t)
    BY <1>1, <1>3
  <2> QED
    BY <1>3, <2>1, <2>2
<1>5. ASSUME NEW i \in 1..Len(t) PROVE (a \o b)[i] = t[i]
  <2>1. CASE i <= n
    BY <1>1, <1>3, <1>4, <2>1
  <2>2. CASE ~(i <= n)
    <3>1. i - n \in 1..(Len(t) - n)
      BY <1>1, <2>2
    <3>2. b[i - n] = t[n + (i - n)] /\ n + (i - n) = i
      BY <1>1, <1>3, <3>1
    <3> QED
      BY <1>4, <2>2, <3>2
  <2> QED
    BY <2>1, <2>2
<1>6. a \o b = t
  BY <1>4, <1>5, SeqEqual
<1>7. (s \o a) \o b = s \o (a \o b)
  BY <1>2, NatCatAssoc
<1>8. s \o << >> = s
  BY ConcatEmptySeq
<1> QED
  BY <1>6, <1>7, <1>8 DEF a, b

(* An entry handed to the store stays in its place. *)
LEMMA PipeHandle ==
    ASSUME NEW s \in Seq(Nat), NEW t \in Seq(Nat), t # << >>
    PROVE  (s \o << >>) \o t = (s \o <<Head(t)>>) \o Tail(t)
<1> DEFINE h == <<Head(t)>>
           r == Tail(t)
<1>1. Head(t) \in Nat /\ r \in Seq(Nat)
  OBVIOUS
<1>2. h \in Seq(Nat) /\ Len(h) = 1 /\ h[1] = Head(t)
  BY <1>1
<1>3. Len(t) \in Nat /\ Len(t) >= 1 /\ Head(t) = t[1]
  BY LenProperties, EmptySeq
<1>4. Len(r) = Len(t) - 1 /\ \A i \in 1..(Len(t) - 1) : r[i] = t[i + 1]
  BY <1>3
<1> HIDE DEF h, r
<1>5. /\ h \o r \in Seq(Nat) /\ Len(h \o r) = Len(t)
      /\ \A i \in 1..Len(t) :
            (h \o r)[i] = IF i <= 1 THEN h[i] ELSE r[i - 1]
  <2>1. /\ h \o r \in Seq(Nat) /\ Len(h \o r) = Len(h) + Len(r)
        /\ \A i \in 1..(Len(h) + Len(r)) :
              (h \o r)[i] = IF i <= Len(h) THEN h[i] ELSE r[i - Len(h)]
    BY <1>1, <1>2, ConcatProperties
  <2>2. Len(h) + Len(r) = Len(t)
    BY <1>2, <1>3, <1>4
  <2> QED
    BY <1>2, <2>1, <2>2
<1>6. ASSUME NEW i \in 1..Len(t) PROVE (h \o r)[i] = t[i]
  <2>1. CASE i = 1
    BY <1>2, <1>3, <1>5, <2>1, SMTT(30)
  <2>2. CASE i # 1
    <3>1. i - 1 \in 1..(Len(t) - 1)
      BY <1>3, <2>2
    <3>2. r[i - 1] = t[(i - 1) + 1] /\ (i - 1) + 1 = i
      BY <1>3, <1>4, <3>1
    <3> QED
      BY <1>3, <1>5, <2>2, <3>2
  <2> QED
    BY <2>1, <2>2
<1>7. h \o r = t
  BY <1>5, <1>6, SeqEqual
<1>8. (s \o h) \o r = s \o (h \o r)
  BY <1>1, <1>2, NatCatAssoc
<1>9. s \o << >> = s
  BY ConcatEmptySeq
<1> QED
  BY <1>7, <1>8, <1>9 DEF h, r

(* The first entry of two sequences is that of the first one. *)
LEMMA PipeHead ==
    ASSUME NEW s \in Seq(Nat), NEW t \in Seq(Nat), s # << >>
    PROVE  /\ s \o t # << >>
           /\ Head(s \o t) = Head(s)
           /\ Tail(s \o t) = Tail(s) \o t
<1>1. /\ Len(s) \in Nat /\ Len(s) >= 1 /\ Head(s) = s[1]
      /\ Len(t) \in Nat
  BY LenProperties, EmptySeq
<1> DEFINE st == s \o t
           r == Tail(s)
<1>2. /\ st \in Seq(Nat) /\ Len(st) = Len(s) + Len(t)
      /\ \A i \in 1..(Len(s) + Len(t)) :
            st[i] = IF i <= Len(s) THEN s[i] ELSE t[i - Len(s)]
  BY ConcatProperties
<1>3. /\ r \in Seq(Nat) /\ Len(r) = Len(s) - 1
      /\ \A i \in 1..(Len(s) - 1) : r[i] = s[i + 1]
  BY <1>1
<1> HIDE DEF st, r
<1>4. st # << >>
  BY <1>1, <1>2, EmptySeq
<1>5. Head(st) = s[1]
  BY <1>1, <1>2, <1>4
<1>6. /\ Tail(st) \in Seq(Nat) /\ Len(Tail(st)) = Len(s) + Len(t) - 1
      /\ \A i \in 1..(Len(s) + Len(t) - 1) : Tail(st)[i] = st[i + 1]
  BY <1>1, <1>2, <1>4
<1>7. /\ r \o t \in Seq(Nat) /\ Len(r \o t) = Len(s) + Len(t) - 1
      /\ \A i \in 1..(Len(s) + Len(t) - 1) :
            (r \o t)[i] = IF i <= Len(s) - 1 THEN r[i]
                                            ELSE t[i - (Len(s) - 1)]
  <2>1. /\ r \o t \in Seq(Nat) /\ Len(r \o t) = Len(r) + Len(t)
        /\ \A i \in 1..(Len(r) + Len(t)) :
              (r \o t)[i] = IF i <= Len(r) THEN r[i] ELSE t[i - Len(r)]
    BY <1>3, ConcatProperties
  <2>2. Len(r) + Len(t) = Len(s) + Len(t) - 1
    BY <1>1, <1>3
  <2> QED
    BY <1>3, <2>1, <2>2
<1>8. ASSUME NEW i \in 1..(Len(s) + Len(t) - 1)
      PROVE  Tail(st)[i] = (r \o t)[i]
  <2>1. i + 1 \in 1..(Len(s) + Len(t))
    BY <1>1
  <2>2. CASE i <= Len(s) - 1
    BY <1>1, <1>2, <1>3, <1>6, <1>7, <2>1, <2>2, SMTT(30)
  <2>3. CASE ~(i <= Len(s) - 1)
    <3>1. i - (Len(s) - 1) = (i + 1) - Len(s) /\ ~(i + 1 <= Len(s))
      BY <1>1, <2>3
    <3> QED
      BY <1>2, <1>6, <1>7, <2>1, <2>3, <3>1
  <2> QED
    BY <2>2, <2>3
<1>9. Tail(st) = r \o t
  BY <1>6, <1>7, <1>8, SeqEqual
<1> QED
  BY <1>1, <1>4, <1>5, <1>9 DEF st, r

(* Nothing is under way on an empty connection. *)
LEMMA PipeEmpty ==
    ASSUME NEW k, k.toPrimary = << >>, k.handling = << >>,
           k.buffer = << >>, k.toBackup = << >>
    PROVE  Pipe(k) = << >>
<1>1. << >> \o << >> = << >>
  BY ConcatEmptySeq
<1> QED
  BY <1>1, IdsShort DEF Pipe

(* Sending puts an entry at the end. *)
LEMMA PipeSends ==
    ASSUME NEW k \in Connection, NEW m \in Connection, NEW id \in Nat,
           m.toPrimary = k.toPrimary, m.handling = k.handling,
           m.buffer = k.buffer, m.toBackup = Append(k.toBackup, id)
    PROVE  Pipe(m) = Append(Pipe(k), id)
<1> DEFINE s == IdsOf(k.toPrimary) \o IdsOf(k.handling) \o k.buffer
           t == k.toBackup
<1>1. s \in Seq(Nat) /\ t \in Seq(Nat)
  BY PipeParts
<1>2. Pipe(k) = s \o t /\ Pipe(m) = s \o Append(t, id)
  BY DEF Pipe
<1> HIDE DEF s, t
<1> QED
  BY <1>1, <1>2, PipeSend

(* An answer read was that of the first entry. *)
LEMMA PipeAcks ==
    ASSUME NEW k \in Connection, NEW m \in Connection,
           k.toPrimary # << >>, m.toPrimary = Tail(k.toPrimary),
           m.handling = k.handling, m.buffer = k.buffer,
           m.toBackup = k.toBackup
    PROVE  Pipe(m) = Tail(Pipe(k))
<1> DEFINE a == IdsOf(k.toPrimary)
           b == IdsOf(k.handling)
           c == k.buffer
           d == k.toBackup
<1>1. a \in Seq(Nat) /\ b \in Seq(Nat) /\ c \in Seq(Nat) /\ d \in Seq(Nat)
  BY PipeParts
<1>2. a # << >> /\ IdsOf(m.toPrimary) = Tail(a)
  <2> DEFINE s == k.toPrimary
             r == Tail(s)
  <2>1. s \in Seq(Ack) /\ s # << >>
    BY ConnFields
  <2>2. Len(s) \in Nat /\ Len(s) >= 1
    BY <2>1, EmptySeq
  <2>3. /\ r \in Seq(Ack) /\ Len(r) = Len(s) - 1
        /\ \A i \in 1..(Len(s) - 1) : r[i] = s[i + 1]
    BY <2>1, <2>2, HeadTailProperties
  <2> HIDE DEF s, r
  <2>4. /\ IdsOf(s) \in Seq(Nat) /\ Len(IdsOf(s)) = Len(s)
        /\ \A i \in 1..Len(s) : IdsOf(s)[i] = s[i].id
    BY <2>1, IdsFacts
  <2>5. /\ IdsOf(r) \in Seq(Nat) /\ Len(IdsOf(r)) = Len(s) - 1
        /\ \A i \in 1..(Len(s) - 1) : IdsOf(r)[i] = r[i].id
    BY <2>3, IdsFacts
  <2>6. IdsOf(s) # << >>
    BY <2>2, <2>4, EmptySeq
  <2> DEFINE u == IdsOf(s)
             v == IdsOf(r)
  <2>7. /\ u \in Seq(Nat) /\ Len(u) = Len(s) /\ u # << >>
        /\ v \in Seq(Nat) /\ Len(v) = Len(s) - 1
    BY <2>4, <2>5, <2>6
  <2>8. ASSUME NEW i \in 1..(Len(s) - 1) PROVE v[i] = u[i + 1]
    <3>1. i + 1 \in 1..Len(s)
      BY <2>2
    <3> QED
      BY <2>3, <2>4, <2>5, <3>1
  <2> HIDE DEF u, v
  <2>9. /\ Tail(u) \in Seq(Nat) /\ Len(Tail(u)) = Len(u) - 1
        /\ \A i \in 1..Len(Tail(u)) : Tail(u)[i] = u[i + 1]
    BY <2>7, HeadTailProperties
  <2>10. Len(v) = Len(Tail(u)) /\ \A i \in 1..Len(v) : v[i] = Tail(u)[i]
    BY <2>7, <2>8, <2>9
  <2>11. v = Tail(u)
    BY <2>7, <2>9, <2>10, SeqEqual
  <2> QED
    BY <2>6, <2>11 DEF u, v, s, r
<1>3. Pipe(k) = ((a \o b) \o c) \o d /\ Pipe(m) = ((Tail(a) \o b) \o c) \o d
  BY <1>2 DEF Pipe
<1> HIDE DEF a, b, c, d
<1>4. a \o b \in Seq(Nat) /\ a \o b # << >> /\ Tail(a \o b) = Tail(a) \o b
  BY <1>1, <1>2, PipeHead
<1> DEFINE ab == a \o b
<1>5. ab \in Seq(Nat) /\ ab # << >> /\ Tail(ab) = Tail(a) \o b
  BY <1>4
<1> HIDE DEF ab
<1>6. /\ ab \o c \in Seq(Nat) /\ ab \o c # << >>
      /\ Tail(ab \o c) = Tail(ab) \o c
  <2>1. \A u \in Seq(Nat) : ab \o u # << >> /\ Tail(ab \o u) = Tail(ab) \o u
    BY <1>5, PipeHead
  <2>2. ab \o c \in Seq(Nat)
    BY <1>1, <1>5
  <2> QED
    BY <1>1, <2>1, <2>2
<1> DEFINE abc == ab \o c
<1>7. abc \in Seq(Nat) /\ abc # << >> /\ Tail(abc) = Tail(ab) \o c
  BY <1>6
<1> HIDE DEF abc
<1>8. Tail(abc \o d) = Tail(abc) \o d
  BY <1>1, <1>7, PipeHead
<1> QED
  BY <1>3, <1>5, <1>7, <1>8 DEF ab, abc

(* Reading a chunk changes nothing under way. *)
LEMMA PipeReceives ==
    ASSUME NEW k \in Connection, NEW m \in Connection,
           NEW n \in 1..Len(k.toBackup), k.buffer = << >>,
           m.toPrimary = k.toPrimary, m.handling = k.handling,
           m.buffer = SubSeq(k.toBackup, 1, n),
           m.toBackup = SubSeq(k.toBackup, n + 1, Len(k.toBackup))
    PROVE  Pipe(m) = Pipe(k)
<1> DEFINE s == IdsOf(k.toPrimary) \o IdsOf(k.handling)
           t == k.toBackup
<1>1. s \in Seq(Nat) /\ t \in Seq(Nat) /\ n \in 1..Len(t)
  BY PipeParts
<1>2. /\ Pipe(k) = (s \o << >>) \o t
      /\ Pipe(m) = (s \o SubSeq(t, 1, n)) \o SubSeq(t, n + 1, Len(t))
  BY DEF Pipe
<1> HIDE DEF s, t
<1> QED
  BY <1>1, <1>2, PipeReceive

(* Neither does handing an entry to the store. *)
LEMMA PipeHandles ==
    ASSUME NEW k \in Connection, NEW m \in Connection, NEW a \in Ack,
           k.buffer # << >>, k.handling = << >>,
           a.id = Head(k.buffer),
           m.toPrimary = k.toPrimary, m.handling = <<a>>,
           m.buffer = Tail(k.buffer), m.toBackup = k.toBackup
    PROVE  Pipe(m) = Pipe(k)
<1> DEFINE s == IdsOf(k.toPrimary)
           t == k.buffer
<1>1. s \in Seq(Nat) /\ t \in Seq(Nat) /\ t # << >>
  BY PipeParts
<1>2. IdsOf(k.handling) = << >> /\ IdsOf(m.handling) = <<Head(t)>>
  BY IdsShort
<1>3. /\ Pipe(k) = ((s \o << >>) \o t) \o k.toBackup
      /\ Pipe(m) = ((s \o <<Head(t)>>) \o Tail(t)) \o k.toBackup
  BY <1>2 DEF Pipe
<1> HIDE DEF s, t
<1> QED
  BY <1>1, <1>3, PipeHandle

(* Neither does answering. *)
LEMMA PipeAnswers ==
    ASSUME NEW k \in Connection, NEW m \in Connection,
           m.toPrimary = k.toPrimary \o k.handling, m.handling = << >>,
           m.buffer = k.buffer, m.toBackup = k.toBackup
    PROVE  Pipe(m) = Pipe(k)
<1> DEFINE ids == IdsOf(k.toPrimary) \o IdsOf(k.handling)
<1>1. k.toPrimary \in Seq(Ack) /\ k.handling \in Seq(Ack)
  BY ConnFields
<1>2. ids \in Seq(Nat) /\ IdsOf(m.toPrimary) = ids
  BY <1>1, IdsConcat, PipeParts
<1>3. Pipe(k) = (ids \o k.buffer) \o k.toBackup
  BY DEF Pipe
<1>4. Pipe(m) = ((ids \o << >>) \o k.buffer) \o k.toBackup
  BY <1>2, IdsShort DEF Pipe
<1> HIDE DEF ids
<1>5. ids \o << >> = ids
  BY <1>2, ConcatEmptySeq
<1> QED
  BY <1>3, <1>4, <1>5

-----------------------------------------------------------------------------
(* What the primary waits for *)

(* The pending entries are those under way while the backup's end lives,   *)
(* and start with the answers on their way even afterwards, as long as the *)
(* receive buffer holds nothing of an earlier connection.                  *)
Kept(k, pending) ==
    /\ k.backup \in {"backlog", "accepted"} => pending = Pipe(k)
    /\ Len(k.toPrimary) <= Len(pending)
    /\ \A i \in 1..Len(k.toPrimary) : k.toPrimary[i].id = pending[i]

Pipelined == connected /\ ~stray => Kept(Current, pendingAcks)

(* It suffices that the pending entries are those under way. *)
LEMMA PipeKept ==
    ASSUME NEW k \in Connection PROVE Kept(k, Pipe(k))
<1> DEFINE s == IdsOf(k.toPrimary)
           r == IdsOf(k.handling) \o k.buffer \o k.toBackup
<1>1. /\ k.toPrimary \in Seq(Ack)
      /\ s \in Seq(Nat) /\ IdsOf(k.handling) \in Seq(Nat)
      /\ k.buffer \in Seq(Nat) /\ k.toBackup \in Seq(Nat)
  BY ConnFields, PipeParts
<1>2. IdsOf(k.handling) \o k.buffer \in Seq(Nat) /\ r \in Seq(Nat)
  BY <1>1
<1>3. Len(s) = Len(k.toPrimary) /\ \A i \in 1..Len(s) : s[i] = k.toPrimary[i].id
  BY <1>1, IdsFacts
<1>4. Pipe(k) = s \o r
  <2> DEFINE h == IdsOf(k.handling)
             b == k.buffer
             t == k.toBackup
  <2>1. /\ s \in Seq(Nat) /\ h \in Seq(Nat) /\ b \in Seq(Nat)
        /\ t \in Seq(Nat) /\ h \o b \in Seq(Nat)
    BY <1>1, <1>2
  <2>2. Pipe(k) = ((s \o h) \o b) \o t /\ r = (h \o b) \o t
    BY DEF Pipe
  <2> HIDE DEF s, r, h, b, t
  <2>3. (s \o h) \o b = s \o (h \o b)
    BY <2>1, NatCatAssoc, ZenonT(60)
  <2>4. (s \o (h \o b)) \o t = s \o ((h \o b) \o t)
    BY <2>1, NatCatAssoc, ZenonT(60)
  <2> QED
    BY <2>2, <2>3, <2>4
<1> HIDE DEF s, r
<1>5. /\ Len(s) \in Nat /\ Len(r) \in Nat
      /\ Len(s \o r) = Len(s) + Len(r)
      /\ \A i \in 1..(Len(s) + Len(r)) :
            (s \o r)[i] = IF i <= Len(s) THEN s[i] ELSE r[i - Len(s)]
  BY <1>1, <1>2, ConcatProperties, LenProperties
<1>6. Len(k.toPrimary) <= Len(s \o r)
  BY <1>3, <1>5
<1>7. ASSUME NEW i \in 1..Len(k.toPrimary)
      PROVE  k.toPrimary[i].id = (s \o r)[i]
  BY <1>3, <1>5
<1> QED
  BY <1>4, <1>6, <1>7 DEF Kept

(* Losing its connection, the backup's end leaves the answers as they are. *)
LEMMA LostKept ==
    ASSUME NEW k, NEW m, NEW pending, Kept(k, pending),
           m.toPrimary = k.toPrimary,
           m.backup \notin {"backlog", "accepted"}
    PROVE  Kept(m, pending)
BY DEF Kept

(* Reading an answer settles the first pending entry. *)
LEMMA AckKept ==
    ASSUME NEW k \in Connection, NEW m \in Connection,
           NEW pending \in Seq(Nat), Kept(k, pending),
           k.toPrimary # << >>, m.toPrimary = Tail(k.toPrimary),
           m.handling = k.handling, m.buffer = k.buffer,
           m.toBackup = k.toBackup, m.backup = k.backup
    PROVE  /\ pending # << >>
           /\ k.toPrimary[1].id = Head(pending)
           /\ Kept(m, Tail(pending))
<1> DEFINE s == k.toPrimary
           r == Tail(s)
           p == Tail(pending)
<1>1. s \in Seq(Ack) /\ s # << >>
  BY ConnFields
<1>2. Len(s) \in Nat /\ Len(s) >= 1 /\ Len(pending) \in Nat
  BY <1>1, EmptySeq, LenProperties
<1>3. Len(s) <= Len(pending) /\ \A i \in 1..Len(s) : s[i].id = pending[i]
  BY DEF Kept
<1>4. Len(r) = Len(s) - 1 /\ \A i \in 1..(Len(s) - 1) : r[i] = s[i + 1]
  BY <1>1, <1>2, HeadTailProperties
<1>5. pending # << >> /\ s[1].id = Head(pending)
  <2>1. 1 \in 1..Len(s)
    BY <1>2
  <2>2. s[1].id = pending[1]
    BY <1>3, <2>1
  <2>3. Len(pending) >= 1
    BY <1>2, <1>3
  <2> HIDE DEF s
  <2>4. pending # << >>
    BY <2>3, EmptySeq
  <2> QED
    BY <2>2, <2>4
<1>6. Len(p) = Len(pending) - 1 /\ \A i \in 1..Len(p) : p[i] = pending[i + 1]
  BY <1>5, HeadTailProperties
<1>7. m.backup \in {"backlog", "accepted"} => p = Pipe(m)
  <2>1. Pipe(m) = Tail(Pipe(k))
    BY PipeAcks
  <2> QED
    BY <2>1 DEF Kept
<1> HIDE DEF s, r, p
<1>8. Len(r) <= Len(p)
  BY <1>2, <1>3, <1>4, <1>6
<1>9. ASSUME NEW i \in 1..Len(r) PROVE r[i].id = p[i]
  <2>1. i + 1 \in 1..Len(s) /\ i \in 1..(Len(s) - 1) /\ i \in 1..Len(p)
    BY <1>2, <1>3, <1>4, <1>6
  <2> QED
    BY <1>3, <1>4, <1>6, <2>1
<1>10. Kept(m, p)
  BY <1>7, <1>8, <1>9 DEF Kept, r, s
<1> QED
  BY <1>5, <1>10 DEF s, p

(* Sending adds a pending entry. *)
LEMMA SendKept ==
    ASSUME NEW k \in Connection, NEW m \in Connection, NEW id \in Nat,
           NEW pending \in Seq(Nat), Kept(k, pending),
           m.toPrimary = k.toPrimary, m.handling = k.handling,
           m.buffer = k.buffer, m.backup = k.backup,
           IF k.backup = "gone" THEN m.toBackup = k.toBackup
                                ELSE m.toBackup = Append(k.toBackup, id)
    PROVE  Kept(m, Append(pending, id))
<1> DEFINE s == k.toPrimary
           p == Append(pending, id)
<1>1. Len(s) \in Nat /\ Len(pending) \in Nat
  BY ConnFields, LenProperties
<1>2. Len(s) <= Len(pending) /\ \A i \in 1..Len(s) : s[i].id = pending[i]
  BY DEF Kept
<1>3. Len(p) = Len(pending) + 1 /\ \A i \in 1..Len(pending) : p[i] = pending[i]
  BY AppendProperties
<1>4. m.backup \in {"backlog", "accepted"} => p = Pipe(m)
  <2> SUFFICES ASSUME m.backup \in {"backlog", "accepted"} PROVE p = Pipe(m)
    OBVIOUS
  <2>1. Pipe(m) = Append(Pipe(k), id)
    BY PipeSends
  <2> QED
    BY <2>1 DEF Kept
<1> HIDE DEF s, p
<1>5. Len(s) <= Len(p) /\ \A i \in 1..Len(s) : s[i].id = p[i]
  BY <1>1, <1>2, <1>3
<1> QED
  BY <1>4, <1>5 DEF Kept, s, p

(* Nothing is connected at first. *)
LEMMA InitPipelined == Init => Pipelined
BY DEF Init, Pipelined

(* The primary's steps keep its pending entries with the connection. *)
LEMMA PrimaryPipelined ==
    ASSUME TypeOK, Ends, Shape, Pipelined,
           \/ Connected \/ ConnectFails \/ Timeout \/ NetworkError
           \/ HandleConnectionClose \/ Reconnect \/ Replicate \/ HandleAck
           \/ MisreadAck \/ Restarts
    PROVE  Pipelined'
<1>0. /\ socket \in Conns /\ conn[socket] \in Connection
      /\ Shaped(conn[socket]) /\ pendingAcks \in Seq(Nat)
      /\ written + 1 \in Nat
  BY DEF TypeOK, Shape
<1>1. CASE Connected
  <2>1. /\ socket' = socket /\ pendingAcks' = pendingAcks
        /\ conn[socket].primary = "connecting" /\ ~connected
    BY <1>1 DEF Connected, Ends, Current
  <2>2. pendingAcks = << >>
    BY <2>1 DEF Ends
  <2>3. /\ conn[socket].toBackup = << >> /\ conn[socket].buffer = << >>
        /\ conn[socket].handling = << >> /\ conn[socket].toPrimary = << >>
    BY <1>0, <2>1 DEF Shaped
  <2>4. conn' \in [Conns -> Connection]
    BY <1>1, ConnectedMoves
  <2>5. conn'[socket] \in Connection
    BY <1>0, <2>4
  <2>6. Pipe(conn'[socket]) = << >>
    BY <1>1, <2>3, ConnectedMoves, PipeEmpty
  <2>7. Kept(conn'[socket], << >>)
    BY <2>5, <2>6, PipeKept
  <2> QED
    BY <2>1, <2>2, <2>7 DEF Pipelined, Current
<1>2. CASE \/ ConnectFails \/ Timeout \/ NetworkError
           \/ HandleConnectionClose \/ Restarts
  <2>1. ~connected'
    BY <1>2, RestartsAre
    DEF ConnectFails, Timeout, NetworkError, HandleConnectionError,
        HandleConnectionClose
  <2> QED
    BY <2>1 DEF Pipelined
<1>3. CASE Reconnect
  <2>1. CASE connected
    BY <1>3, <2>1 DEF Reconnect, Pipelined, Current
  <2>2. CASE ~connected
    BY <1>3, <2>2 DEF Reconnect, Pipelined
  <2> QED
    BY <2>1, <2>2
<1>4. CASE Replicate
  <2>1. CASE ~(connected /\ ~stray)
    BY <1>4, <2>1 DEF Replicate, Pipelined
  <2>2. CASE connected /\ ~stray
    <3>1. Kept(conn[socket], pendingAcks)
      BY <2>2 DEF Pipelined, Current
    <3>2. pendingAcks' = Append(pendingAcks, written + 1) /\ socket' = socket
      BY <1>4, <2>2 DEF Replicate
    <3>3. CASE conn[socket].backup = "gone"
      <4>1. conn' = conn
        BY <1>4, <2>2, <3>3 DEF Replicate, Current
      <4>2. Kept(conn[socket], Append(pendingAcks, written + 1))
        BY <1>0, <3>1, <3>3, SendKept
      <4> QED
        BY <3>2, <4>1, <4>2 DEF Pipelined, Current
    <3>4. CASE conn[socket].backup # "gone"
      <4>1. conn' = [conn EXCEPT ![socket].toBackup = Append(@, written + 1)]
        BY <1>4, <2>2, <3>4 DEF Replicate, Current
      <4>2. /\ conn'[socket] \in Connection
            /\ conn'[socket].backup = conn[socket].backup
            /\ conn'[socket].toBackup = Append(conn[socket].toBackup, written + 1)
            /\ conn'[socket].buffer = conn[socket].buffer
            /\ conn'[socket].handling = conn[socket].handling
            /\ conn'[socket].toPrimary = conn[socket].toPrimary
        BY <1>0, <4>1, SendMoves
      <4>3. Kept(conn'[socket], Append(pendingAcks, written + 1))
        BY <1>0, <3>1, <3>4, <4>2, SendKept
      <4> QED
        BY <3>2, <4>3 DEF Pipelined, Current
    <3> QED
      BY <3>3, <3>4
  <2> QED
    BY <2>1, <2>2
<1>5. CASE HandleAck
  <2>1. /\ conn[socket].toPrimary # << >> /\ conn[socket].primary = "open"
        /\ conn' = [conn EXCEPT ![socket].toPrimary = Tail(@)]
        /\ socket' = socket /\ ~stray
    BY <1>5 DEF HandleAck, AnswerArrives, Current
  <2>2. Kept(conn[socket], pendingAcks)
    BY <2>1 DEF Pipelined, Ends, Current
  <2>3. /\ conn'[socket] \in Connection
        /\ conn'[socket].backup = conn[socket].backup
        /\ conn'[socket].toBackup = conn[socket].toBackup
        /\ conn'[socket].buffer = conn[socket].buffer
        /\ conn'[socket].handling = conn[socket].handling
        /\ conn'[socket].toPrimary = Tail(conn[socket].toPrimary)
    BY <1>0, <2>1, AckMoves
  <2>4. pendingAcks # << >> /\ Kept(conn'[socket], Tail(pendingAcks))
    BY <1>0, <2>1, <2>2, <2>3, AckKept
  <2>5. pendingAcks' = Tail(pendingAcks)
    BY <1>5, <2>4 DEF HandleAck
  <2> QED
    BY <2>1, <2>4, <2>5 DEF Pipelined, Current
<1>6. CASE MisreadAck
  BY <1>6 DEF MisreadAck, Pipelined
<1> QED
  BY <1>1, <1>2, <1>3, <1>4, <1>5, <1>6

(* What the backup does to one connection keeps that connection's entries. *)
LEMMA BackupKept ==
    ASSUME TypeOK, Ends, Shape, NEW c \in Conns, NEW pending,
           Kept(conn[c], pending), conn[c].primary = "open",
           BackupStep(c) \/ BackupSees(c) \/ SilentEnd(c)
    PROVE  Kept(conn'[c], pending)
<1>0. conn[c] \in Connection /\ Shaped(conn[c])
  BY DEF TypeOK, Shape
<1>1. CASE HandleConnection(c)
  <2>1. CASE primarySocket = None
    <3>1. conn' = [conn EXCEPT ![c].backup = "accepted"]
      BY <1>1, <2>1 DEF HandleConnection
    <3>2. /\ conn'[c].toBackup = conn[c].toBackup
          /\ conn'[c].buffer = conn[c].buffer
          /\ conn'[c].handling = conn[c].handling
          /\ conn'[c].toPrimary = conn[c].toPrimary
      BY <3>1, AcceptMoves
    <3>3. conn[c].backup = "backlog"
      BY <1>1 DEF HandleConnection
    <3> QED
      BY <3>2, <3>3 DEF Kept, Pipe
  <2>2. CASE primarySocket # None
    <3>1. conn' = [conn EXCEPT ![c].backup = "gone", ![c].toBackup = << >>]
      BY <1>1, <2>2 DEF HandleConnection
    <3>2. conn'[c] = Lost(conn[c], "gone")
      BY <3>1, LosesMoves
    <3>3. /\ Lost(conn[c], "gone").backup = "gone"
          /\ Lost(conn[c], "gone").toPrimary = conn[c].toPrimary
      BY <1>0, LostFields
    <3> QED
      BY <3>2, <3>3, LostKept
  <2> QED
    BY <2>1, <2>2
<1>2. CASE Receive(c)
  <2>1. PICK n \in 1..Len(conn[c].toBackup) :
          conn' = [conn EXCEPT
                     ![c].buffer = SubSeq(conn[c].toBackup, 1, n),
                     ![c].toBackup = SubSeq(@, n + 1, Len(@))]
    BY <1>2 DEF Receive
  <2>2. conn[c].backup = "accepted" /\ conn[c].buffer = << >>
    BY <1>2 DEF Receive, Busy
  <2>3. /\ conn' \in [Conns -> Connection]
        /\ conn'[c].backup = conn[c].backup
        /\ conn'[c].toBackup =
             SubSeq(conn[c].toBackup, n + 1, Len(conn[c].toBackup))
        /\ conn'[c].buffer = SubSeq(conn[c].toBackup, 1, n)
        /\ conn'[c].handling = conn[c].handling
        /\ conn'[c].toPrimary = conn[c].toPrimary
    BY <2>1, ReceiveMoves
  <2>4. conn'[c] \in Connection
    BY <2>3
  <2>5. Pipe(conn'[c]) = Pipe(conn[c])
    BY <1>0, <2>2, <2>3, <2>4, PipeReceives
  <2> QED
    BY <2>3, <2>5 DEF Kept
<1>3. CASE HandleReplicate(c)
  <2>1. conn[c].buffer # << >> /\ conn[c].handling = << >>
    BY <1>3 DEF HandleReplicate
  <2>2. PICK answer \in Ack :
           /\ answer.id = Head(conn[c].buffer)
           /\ conn' = [conn EXCEPT ![c].buffer = Tail(@),
                                   ![c].handling = <<answer>>]
    BY <1>3, <2>1, HandleReplicateMoves, HandledHead
  <2>3. /\ conn' \in [Conns -> Connection]
        /\ conn'[c].backup = conn[c].backup
        /\ conn'[c].toBackup = conn[c].toBackup
        /\ conn'[c].buffer = Tail(conn[c].buffer)
        /\ conn'[c].handling = <<answer>>
        /\ conn'[c].toPrimary = conn[c].toPrimary
    BY <2>1, <2>2, HandleMoves
  <2>4. conn'[c] \in Connection
    BY <2>3
  <2>5. Pipe(conn'[c]) = Pipe(conn[c])
    BY <1>0, <2>1, <2>2, <2>3, <2>4, PipeHandles
  <2> QED
    BY <2>3, <2>5 DEF Kept
<1>4. CASE SendAck(c)
  <2>1. conn' = Answer(c) /\ conn[c].handling # << >>
    BY <1>4 DEF SendAck
  <2>2. /\ conn' \in [Conns -> Connection]
        /\ conn'[c].backup = conn[c].backup
        /\ conn'[c].toBackup = conn[c].toBackup
        /\ conn'[c].buffer = conn[c].buffer
        /\ conn'[c].handling = << >>
        /\ conn'[c].toPrimary =
             IF conn[c].primary = "open" /\ conn[c].backup = "accepted"
             THEN conn[c].toPrimary \o conn[c].handling
             ELSE conn[c].toPrimary
    BY <2>1, AnswerMoves
  <2>3. conn'[c] \in Connection
    BY <2>2
  <2>4. CASE conn[c].backup = "accepted"
    <3>1. Pipe(conn'[c]) = Pipe(conn[c])
      BY <1>0, <2>2, <2>3, <2>4, PipeAnswers
    <3>2. pending = Pipe(conn'[c])
      BY <2>4, <3>1 DEF Kept
    <3> QED
      BY <2>3, <3>2, PipeKept
  <2>5. CASE conn[c].backup # "accepted"
    <3>1. conn[c].backup # "backlog"
      BY <1>0, <2>1 DEF Shaped
    <3> QED
      BY <2>2, <2>5, <3>1, LostKept
  <2> QED
    BY <2>4, <2>5
<1>5. CASE SocketError(c) \/ SocketClose(c)
  <2>1. PICK end \in {"errored", "gone"} :
          conn' = [conn EXCEPT ![c].backup = end, ![c].toBackup = << >>]
    BY <1>5 DEF SocketError, SocketClose
  <2>2. conn'[c] = Lost(conn[c], end)
    BY <2>1, LosesMoves
  <2>3. /\ Lost(conn[c], end).backup = end
        /\ Lost(conn[c], end).toPrimary = conn[c].toPrimary
    BY <1>0, LostFields
  <2> QED
    BY <2>2, <2>3, LostKept
<1>6. CASE SilentEnd(c)
  <2>1. conn' = [conn EXCEPT ![c].silent = TRUE]
    BY <1>6 DEF SilentEnd
  <2>2. /\ conn'[c].backup = conn[c].backup
        /\ conn'[c].toBackup = conn[c].toBackup
        /\ conn'[c].buffer = conn[c].buffer
        /\ conn'[c].handling = conn[c].handling
        /\ conn'[c].toPrimary = conn[c].toPrimary
    BY <2>1, SilentMoves
  <2> QED
    BY <2>2 DEF Kept, Pipe
<1> QED
  BY <1>1, <1>2, <1>3, <1>4, <1>5, <1>6 DEF BackupStep, BackupSees

(* The backup serves one connection in a step. *)
LEMMA BackupElsewhere ==
    ASSUME TypeOK, NEW c \in Conns,
           BackupStep(c) \/ BackupSees(c) \/ SilentEnd(c)
    PROVE  \A d \in Conns \ {c} : conn'[d] = conn[d]
<1>1. CASE HandleConnection(c)
  BY <1>1 DEF HandleConnection, TypeOK
<1>2. CASE Receive(c)
  BY <1>2 DEF Receive, TypeOK
<1>3. CASE HandleReplicate(c)
  BY <1>3 DEF HandleReplicate, TypeOK
<1>4. CASE SendAck(c)
  BY <1>4, AnswerMoves DEF SendAck
<1>5. CASE SocketError(c) \/ SocketClose(c)
  BY <1>5 DEF SocketError, SocketClose, TypeOK
<1>6. CASE SilentEnd(c)
  BY <1>6 DEF SilentEnd, TypeOK
<1> QED
  BY <1>1, <1>2, <1>3, <1>4, <1>5, <1>6 DEF BackupStep, BackupSees

(* Every step keeps the primary's pending entries with its connection. *)
LEMMA NextPipelined ==
    TypeOK /\ Ends /\ Shape /\ Pipelined /\ [Next]_vars => Pipelined'
<1> SUFFICES ASSUME TypeOK, Ends, Shape, Pipelined, [Next]_vars,
                    connected', ~stray'
             PROVE  Kept(conn'[socket'], pendingAcks')
  BY DEF Pipelined, Current
<1>1. CASE \E c \in Conns : BackupStep(c) \/ BackupSees(c) \/ SilentEnd(c)
  <2>1. PICK c \in Conns : BackupStep(c) \/ BackupSees(c) \/ SilentEnd(c)
    BY <1>1
  <2>2. UNCHANGED <<connected, socket, pendingAcks, stray>>
    BY <1>1, BackupKeepsEnds
  <2>3. Kept(conn[socket], pendingAcks) /\ conn[socket].primary = "open"
    BY <2>2 DEF Pipelined, Ends, Current
  <2>4. CASE c = socket
    BY <2>1, <2>2, <2>3, <2>4, BackupKept
  <2>5. CASE c # socket
    <3>1. conn'[socket] = conn[socket]
      BY <2>1, <2>5, BackupElsewhere DEF TypeOK
    <3> QED
      BY <2>2, <2>3, <3>1
  <2> QED
    BY <2>4, <2>5
<1>2. CASE BackupStop
  <2>1. UNCHANGED <<connected, socket, pendingAcks, stray>>
    BY <1>2, BackupKeepsEnds
  <2>2. socket \in Conns /\ conn[socket] \in Connection /\ Shaped(conn[socket])
    BY DEF TypeOK, Shape
  <2>3. Kept(conn[socket], pendingAcks) /\ conn[socket].backup # "none"
    BY <2>1, <2>2 DEF Pipelined, Ends, Current, Shaped
  <2>4. conn'[socket] = Stopped(conn[socket])
    BY <1>2, <2>2, StopMoves
  <2>5. /\ Stopped(conn[socket]).backup = "gone"
        /\ Stopped(conn[socket]).toPrimary = conn[socket].toPrimary
    BY <2>2, <2>3, StoppedFields
  <2> QED
    BY <2>1, <2>3, <2>4, <2>5, LostKept
<1>3. CASE StoreLoses \/ BackupStart \/ Quiescent \/ UNCHANGED vars
  BY <1>3
  DEF StoreLoses, BackupStart, Quiescent, vars, manager, Pipelined, Current
<1>4. CASE \/ Connected \/ ConnectFails \/ Timeout \/ NetworkError
           \/ HandleConnectionClose \/ Reconnect \/ Replicate \/ HandleAck
           \/ MisreadAck \/ Restarts
  BY <1>4, PrimaryPipelined DEF Pipelined, Current
<1> QED
  BY <1>1, <1>2, <1>3, <1>4 DEF Next, Restarts

(* While a connection lives nothing on it is lost or reordered, however    *)
(* often connections break and either end restarts: handleAck, which       *)
(* matches by position, matches an answer with its own entry, as long as   *)
(* the receive buffer holds nothing of an earlier connection.              *)
THEOREM PipelineStaysIntact == Spec => []PipelineIntact
<1>1. Init => Ends /\ Shape /\ Pipelined
  BY InitEnds, InitShape, InitPipelined
<1>2. /\ TypeOK /\ Ends /\ Shape /\ Pipelined /\ [Next]_vars
      => Ends' /\ Shape' /\ Pipelined'
  BY NextEnds, NextShape, NextPipelined
<1>3. Pipelined => PipelineIntact
  BY DEF Pipelined, Kept, Pipe, PipelineIntact
<1> QED
  BY <1>1, <1>2, <1>3, ReplicationTypeCorrect, PTL DEF Spec

-----------------------------------------------------------------------------
(* The entries the backup has still to apply *)

(* What is ahead of the backup on a connection, and on all of them. *)
Ahead(k) == k.buffer \o k.toBackup

AheadNow == [c \in Conns |-> Ahead(conn[c])]

(* No entry ahead has been applied, nor one that is yet to be written; and *)
(* no entry is ahead twice, on one connection or on two.                   *)
Fresh(ahead, app, last) ==
    /\ \A id \in Entries : id > last => app[id] = 0
    /\ \A c \in Conns : \A i \in 1..Len(ahead[c]) :
          /\ ahead[c][i] \in Entries /\ ahead[c][i] <= last
          /\ app[ahead[c][i]] = 0

Apart(ahead) ==
    \A c, d \in Conns :
        \A i \in 1..Len(ahead[c]), j \in 1..Len(ahead[d]) :
            ahead[c][i] = ahead[d][j] => c = d /\ i = j

(* Every sequence of ahead starts like that of before. *)
Begins(s, t) == /\ Len(s) <= Len(t)
                /\ \A i \in 1..Len(s) : s[i] = t[i]

(* A new entry is ahead of the backup once. *)
LEMMA SendsFresh ==
    ASSUME NEW f \in [Conns -> Seq(Nat)], NEW g \in [Conns -> Seq(Nat)],
           NEW s \in Conns, NEW app \in [Entries -> Nat], NEW last \in Nat,
           last < MaxWrites, Fresh(f, app, last), Apart(f),
           g[s] = Append(f[s], last + 1), \A d \in Conns \ {s} : g[d] = f[d]
    PROVE  Fresh(g, app, last + 1) /\ Apart(g)
<1>1. last + 1 \in Entries /\ \A id \in Entries : id \in Nat
  BY ReplicationAssumption DEF Entries
<1>2. \A c \in Conns : Len(f[c]) \in Nat
  BY LenProperties
<1>3. /\ Len(g[s]) = Len(f[s]) + 1
      /\ \A i \in 1..Len(f[s]) : g[s][i] = f[s][i]
      /\ g[s][Len(f[s]) + 1] = last + 1
  BY AppendProperties
<1>4. ASSUME NEW c \in Conns, NEW i \in 1..Len(g[c])
      PROVE  \/ /\ i \in 1..Len(f[c]) /\ g[c][i] = f[c][i]
                /\ g[c][i] \in Entries /\ g[c][i] <= last
                /\ app[g[c][i]] = 0
             \/ c = s /\ i = Len(f[s]) + 1 /\ g[c][i] = last + 1
  <2>1. CASE c = s /\ i = Len(f[s]) + 1
    BY <1>3, <2>1
  <2>2. CASE ~(c = s /\ i = Len(f[s]) + 1)
    <3>1. i \in 1..Len(f[c]) /\ g[c][i] = f[c][i]
      <4>1. CASE c = s
        <5>1. Len(f[s]) \in Nat /\ i \in 1..(Len(f[s]) + 1)
          BY <1>2, <1>3, <4>1
        <5>2. i \in 1..Len(f[s])
          BY <2>2, <4>1, <5>1
        <5> QED
          BY <1>3, <4>1, <5>2
      <4>2. CASE c # s
        BY <4>2
      <4> QED
        BY <4>1, <4>2
    <3> QED
      BY <3>1 DEF Fresh
  <2> QED
    BY <2>1, <2>2
<1>5. Fresh(g, app, last + 1)
  <2>1. \A id \in Entries : id > last + 1 => app[id] = 0
    BY <1>1 DEF Fresh
  <2>2. ASSUME NEW c \in Conns, NEW i \in 1..Len(g[c])
        PROVE  /\ g[c][i] \in Entries /\ g[c][i] <= last + 1
               /\ app[g[c][i]] = 0
    <3>1. last + 1 > last /\ app[last + 1] = 0
      BY <1>1 DEF Fresh
    <3>2. \A id \in Entries : id <= last => id <= last + 1
      BY <1>1
    <3> QED
      BY <1>1, <1>4, <3>1, <3>2
  <2> QED
    BY <2>1, <2>2 DEF Fresh
<1>6. Apart(g)
  <2>1. ~(last + 1 <= last)
    OBVIOUS
  <2>2. ASSUME NEW c \in Conns, NEW d \in Conns,
               NEW i \in 1..Len(g[c]), NEW j \in 1..Len(g[d]),
               g[c][i] = g[d][j]
        PROVE  c = d /\ i = j
    <3>1. CASE g[c][i] = last + 1
      <4>1. c = s /\ i = Len(f[s]) + 1
        BY <1>4, <2>1, <3>1
      <4>2. d = s /\ j = Len(f[s]) + 1
        BY <1>4, <2>1, <2>2, <3>1, ZenonT(60)
      <4> QED
        BY <4>1, <4>2
    <3>2. CASE g[c][i] # last + 1
      <4>1. i \in 1..Len(f[c]) /\ g[c][i] = f[c][i]
        BY <1>4, <3>2
      <4>2. j \in 1..Len(f[d]) /\ g[d][j] = f[d][j]
        BY <1>4, <2>2, <3>2
      <4>3. f[c][i] = f[d][j]
        BY <2>2, <4>1, <4>2
      <4> QED
        BY <4>1, <4>2, <4>3 DEF Apart
    <3> QED
      BY <3>1, <3>2
  <2> QED
    BY <2>2 DEF Apart
<1> QED
  BY <1>5, <1>6

(* An entry taken is no longer ahead, and may be applied. *)
LEMMA TakesFresh ==
    ASSUME NEW f \in [Conns -> Seq(Nat)], NEW g \in [Conns -> Seq(Nat)],
           NEW s \in Conns, NEW app \in [Entries -> Nat], NEW last \in Nat,
           Fresh(f, app, last), Apart(f), f[s] # << >>,
           g[s] = Tail(f[s]), \A d \in Conns \ {s} : g[d] = f[d],
           NEW done \in [Entries -> Nat],
           \A id \in Entries \ {Head(f[s])} : done[id] = app[id]
    PROVE  /\ Head(f[s]) \in Entries /\ app[Head(f[s])] = 0
           /\ Fresh(g, done, last) /\ Apart(g)
<1>1. \A c \in Conns : Len(f[c]) \in Nat
  BY LenProperties
<1>2. /\ 1 \in 1..Len(f[s]) /\ Head(f[s]) = f[s][1]
      /\ Len(g[s]) = Len(f[s]) - 1
      /\ \A i \in 1..Len(g[s]) : g[s][i] = f[s][i + 1]
  <2>1. Len(f[s]) >= 1
    BY <1>1, EmptySeq
  <2> QED
    BY <1>1, <2>1, HeadTailProperties
<1>3. /\ Head(f[s]) \in Entries /\ Head(f[s]) <= last
      /\ app[Head(f[s])] = 0
  BY <1>2 DEF Fresh
<1> DEFINE at(c, i) == IF c = s THEN i + 1 ELSE i
<1>4. ASSUME NEW c \in Conns, NEW i \in 1..Len(g[c])
      PROVE  \E n \in 1..Len(f[c]) :
                n = at(c, i) /\ g[c][i] = f[c][n] /\ f[c][n] # Head(f[s])
  <2>1. CASE c = s
    <3>1. i + 1 \in 1..Len(f[s]) /\ i + 1 # 1
      BY <1>1, <1>2, <2>1
    <3>2. g[s][i] = f[s][i + 1]
      BY <1>2, <2>1
    <3>3. \A n \in 1..Len(f[s]) : n # 1 => f[s][n] # f[s][1]
      <4>1. \A n, m \in 1..Len(f[s]) : f[s][n] = f[s][m] => n = m
        BY DEF Apart
      <4> QED
        BY <1>2, <4>1
    <3>4. f[s][i + 1] # Head(f[s])
      BY <1>2, <3>1, <3>3
    <3>5. WITNESS i + 1 \in 1..Len(f[c])
    <3> QED
      BY <2>1, <3>2, <3>4
  <2>2. CASE c # s
    <3>1. g[c] = f[c] /\ i \in 1..Len(f[c])
      BY <2>2
    <3>2. \A n \in 1..Len(f[c]) : f[c][n] # f[s][1]
      BY <1>2, <2>2 DEF Apart
    <3>3. f[c][i] # Head(f[s])
      BY <1>2, <3>1, <3>2
    <3>4. WITNESS i \in 1..Len(f[c])
    <3> QED
      BY <2>2, <3>1, <3>3
  <2> QED
    BY <2>1, <2>2
<1>5. Fresh(g, done, last)
  <2>1. ASSUME NEW id \in Entries, id > last PROVE done[id] = 0
    <3>1. id # Head(f[s])
      BY <1>3, <2>1 DEF Entries
    <3> QED
      BY <2>1, <3>1 DEF Fresh
  <2>2. ASSUME NEW c \in Conns, NEW i \in 1..Len(g[c])
        PROVE  /\ g[c][i] \in Entries /\ g[c][i] <= last
               /\ done[g[c][i]] = 0
    <3>1. PICK n \in 1..Len(f[c]) :
            g[c][i] = f[c][n] /\ f[c][n] # Head(f[s])
      BY <1>4
    <3>2. f[c][n] \in Entries /\ f[c][n] <= last /\ app[f[c][n]] = 0
      BY DEF Fresh
    <3>3. done[f[c][n]] = app[f[c][n]]
      BY <3>1, <3>2
    <3> QED
      BY <3>1, <3>2, <3>3
  <2> QED
    BY <2>1, <2>2 DEF Fresh
<1>6. Apart(g)
  <2>1. ASSUME NEW c \in Conns, NEW d \in Conns,
               NEW i \in 1..Len(g[c]), NEW j \in 1..Len(g[d]),
               g[c][i] = g[d][j]
        PROVE  c = d /\ i = j
    <3>1. PICK n \in 1..Len(f[c]) : n = at(c, i) /\ g[c][i] = f[c][n]
      BY <1>4
    <3>2. PICK m \in 1..Len(f[d]) : m = at(d, j) /\ g[d][j] = f[d][m]
      BY <1>4
    <3>3. f[c][n] = f[d][m]
      BY <2>1, <3>1, <3>2
    <3>4. c = d /\ n = m
      BY <3>3 DEF Apart
    <3>5. i \in Int /\ j \in Int
      OBVIOUS
    <3>6. i = j
      BY <3>1, <3>2, <3>4, <3>5
    <3> QED
      BY <3>4, <3>6
  <2> QED
    BY <2>1 DEF Apart
<1> QED
  BY <1>3, <1>5, <1>6

(* Entries lost on their way leave the others as they are. *)
LEMMA BeginsFresh ==
    ASSUME NEW f \in [Conns -> Seq(Nat)], NEW g \in [Conns -> Seq(Nat)],
           NEW app \in [Entries -> Nat], NEW last \in Nat,
           NEW done \in [Entries -> Nat],
           Fresh(f, app, last), Apart(f),
           \A d \in Conns : Begins(g[d], f[d]),
           \A id \in Entries : done[id] = app[id] \/ done[id] = 0
    PROVE  Fresh(g, done, last) /\ Apart(g)
<1>1. ASSUME NEW c \in Conns, NEW i \in 1..Len(g[c])
      PROVE  i \in 1..Len(f[c]) /\ g[c][i] = f[c][i]
  <2>1. Len(f[c]) \in Nat /\ Len(g[c]) \in Nat
    BY LenProperties
  <2> QED
    BY <2>1 DEF Begins
<1>2. Fresh(g, done, last)
  BY <1>1 DEF Fresh
<1>3. Apart(g)
  <2>1. ASSUME NEW c \in Conns, NEW d \in Conns,
               NEW i \in 1..Len(g[c]), NEW j \in 1..Len(g[d]),
               g[c][i] = g[d][j]
        PROVE  c = d /\ i = j
    BY <1>1, <2>1 DEF Apart
  <2> QED
    BY <2>1 DEF Apart
<1> QED
  BY <1>2, <1>3

(* A new entry that is not sent is not ahead of the backup. *)
LEMMA DropsFresh ==
    ASSUME NEW f \in [Conns -> Seq(Nat)], NEW app \in [Entries -> Nat],
           NEW last \in Nat, Fresh(f, app, last)
    PROVE  Fresh(f, app, last + 1)
<1>1. \A id \in Entries : /\ id > last + 1 => id > last
                          /\ id <= last => id <= last + 1
  BY ReplicationAssumption DEF Entries
<1> QED
  BY <1>1 DEF Fresh

(* What is ahead on a connection are entries. *)
LEMMA AheadType ==
    /\ \A k \in Connection : Ahead(k) \in Seq(Nat)
    /\ TypeOK => AheadNow \in [Conns -> Seq(Nat)]
<1>1. ASSUME NEW k \in Connection PROVE Ahead(k) \in Seq(Nat)
  <2>1. k.buffer \in Seq(Nat) /\ k.toBackup \in Seq(Nat)
    BY ConnFields
  <2> QED
    BY <2>1, ConcatProperties DEF Ahead
<1> QED
  BY <1>1 DEF AheadNow, TypeOK

-----------------------------------------------------------------------------
(* Steps that bring no entry to the store and no answer to the primary *)

Calm(k, m) ==
    /\ Begins(Ahead(m), Ahead(k))
    /\ m.handling = k.handling \/ m.handling = << >>
    /\ m.toPrimary = k.toPrimary \/ m.toPrimary = << >>

(* Nothing is the beginning of everything, and everything of itself. *)
LEMMA BeginsFacts ==
    ASSUME NEW t \in Seq(Nat)
    PROVE  Begins(<< >>, t) /\ Begins(t, t)
<1>1. Len(t) \in Nat
  BY LenProperties
<1>2. Len(<< >>) = 0
  BY EmptySeq
<1>3. Begins(t, t)
  BY <1>1 DEF Begins
<1>4. \A i \in 1..0 : FALSE
  OBVIOUS
<1>5. Begins(<< >>, t)
  BY <1>1, <1>2, <1>4 DEF Begins
<1> QED
  BY <1>3, <1>5

(* A connection that keeps what is ahead is calm. *)
LEMMA SameCalm ==
    ASSUME NEW k \in Connection, NEW m,
           m.buffer = k.buffer, m.toBackup = k.toBackup,
           m.handling = k.handling \/ m.handling = << >>,
           m.toPrimary = k.toPrimary \/ m.toPrimary = << >>
    PROVE  Calm(k, m)
<1>1. Ahead(m) = Ahead(k)
  BY DEF Ahead
<1>2. Begins(Ahead(k), Ahead(k))
  BY AheadType, BeginsFacts
<1> QED
  BY <1>1, <1>2 DEF Calm

(* So is one that is emptied, *)
LEMMA EmptyCalm ==
    ASSUME NEW k \in Connection, NEW m,
           m.buffer = << >>, m.toBackup = << >>, m.handling = << >>,
           m.toPrimary = k.toPrimary \/ m.toPrimary = << >>
    PROVE  Calm(k, m)
<1>1. << >> \o << >> = << >>
  BY ConcatEmptySeq
<1>2. Ahead(m) = << >>
  BY <1>1 DEF Ahead
<1>3. Begins(<< >>, Ahead(k))
  BY AheadType, BeginsFacts
<1> QED
  BY <1>2, <1>3 DEF Calm

(* one the backup gives up, *)
LEMMA LostCalm ==
    ASSUME NEW k \in Connection, NEW end \in {"errored", "gone"}
    PROVE  Calm(k, Lost(k, end))
<1> DEFINE m == Lost(k, end)
<1>1. /\ m.buffer = k.buffer /\ m.toBackup = << >>
      /\ m.handling = k.handling /\ m.toPrimary = k.toPrimary
  BY LostFields
<1>2. k.buffer \in Seq(Nat) /\ k.toBackup \in Seq(Nat)
  BY ConnFields
<1> HIDE DEF m
<1>3. Ahead(m) = k.buffer
  <2>1. k.buffer \o << >> = k.buffer
    BY <1>2, ConcatEmptySeq
  <2> QED
    BY <1>1, <2>1 DEF Ahead
<1>4. Begins(k.buffer, k.buffer \o k.toBackup)
  <2> DEFINE s == k.buffer
             t == k.toBackup
  <2>1. s \in Seq(Nat) /\ t \in Seq(Nat) /\ Len(s) \in Nat /\ Len(t) \in Nat
    BY <1>2, LenProperties
  <2> HIDE DEF s, t
  <2>2. /\ Len(s \o t) = Len(s) + Len(t)
        /\ \A i \in 1..(Len(s) + Len(t)) :
              (s \o t)[i] = IF i <= Len(s) THEN s[i] ELSE t[i - Len(s)]
    BY <2>1, ConcatProperties
  <2>3. \A i \in 1..Len(s) : i \in 1..(Len(s) + Len(t)) /\ i <= Len(s)
    BY <2>1
  <2>4. Len(s) <= Len(s \o t) /\ \A i \in 1..Len(s) : s[i] = (s \o t)[i]
    BY <2>1, <2>2, <2>3
  <2> QED
    BY <2>4 DEF Begins, s, t
<1>5. Calm(k, m)
  BY <1>1, <1>3, <1>4 DEF Calm, Ahead
<1> QED
  BY <1>5 DEF m

(* and one on which a chunk is read. *)
LEMMA ReceiveAhead ==
    ASSUME NEW k \in Connection, NEW m, NEW n \in 1..Len(k.toBackup),
           k.buffer = << >>,
           m.buffer = SubSeq(k.toBackup, 1, n),
           m.toBackup = SubSeq(k.toBackup, n + 1, Len(k.toBackup))
    PROVE  Ahead(m) = Ahead(k)
<1> DEFINE t == k.toBackup
           none == << >>
<1>1. t \in Seq(Nat) /\ none \in Seq(Nat) /\ n \in 1..Len(t)
  BY ConnFields, EmptySeq
<1>2. none \o none = none
  BY ConcatEmptySeq
<1>3. Ahead(k) = none \o t
  BY DEF Ahead
<1>4. Ahead(m) = SubSeq(t, 1, n) \o SubSeq(t, n + 1, Len(t))
  BY DEF Ahead
<1>5. (none \o << >>) \o t =
         (none \o SubSeq(t, 1, n)) \o SubSeq(t, n + 1, Len(t))
  <2> HIDE DEF t, none
  <2> QED
    BY <1>1, PipeReceive
<1>6. none \o SubSeq(t, 1, n) = SubSeq(t, 1, n)
  <2>1. SubSeq(t, 1, n) \in Seq(Nat)
    <3> HIDE DEF t
    <3> QED
      BY <1>1
  <2> HIDE DEF t
  <2> QED
    BY <2>1, ConcatEmptySeq
<1> QED
  BY <1>2, <1>3, <1>4, <1>5, <1>6

(* How often the backup applied each entry, as if its store lost none.     *)
Firm == [id \in Entries |-> IF id \in lost THEN 1 ELSE applied[id]]

(* The entries that an answer confirmed. *)
Known == confirmed \ misread

(* The steps that neither send, handle, answer nor read an answer. *)
Quiet ==
    \/ Connected \/ ConnectFails \/ Timeout \/ NetworkError
    \/ HandleConnectionClose \/ Reconnect \/ Restarts
    \/ \E c \in Conns : HandleConnection(c) \/ Receive(c) \/ BackupSees(c)
                           \/ SilentEnd(c)
    \/ BackupStart \/ Quiescent \/ UNCHANGED vars

(* They leave the entries alone and confirm none, *)
LEMMA QuietKeeps ==
    TypeOK /\ Quiet => /\ UNCHANGED <<written, applied, lost>>
                       /\ Known' \subseteq Known /\ Firm' = Firm
<1> SUFFICES ASSUME TypeOK, Quiet
             PROVE  /\ UNCHANGED <<written, applied, lost>>
                    /\ Known' \subseteq Known /\ Firm' = Firm
  OBVIOUS
<1>1. UNCHANGED <<written, applied, lost>>
  BY DEF Quiet, Connected, ConnectFails, Timeout, NetworkError,
         HandleConnectionError, HandleConnectionClose, Reconnect, Restarts,
         Restart, PrimaryRestart, MisreadThrows, HandleConnection, Receive,
         BackupSees, SocketError, SocketClose, SilentEnd, BackupStart,
         Quiescent, vars, entries
<1>2. Known' \subseteq Known
  <2>1. CASE MisreadThrows
    BY <2>1, MisanswerType DEF MisreadThrows, Known
  <2>2. CASE Quiet /\ ~MisreadThrows
    <3>1. UNCHANGED <<confirmed, misread>>
      BY <2>2
      DEF Quiet, Connected, ConnectFails, Timeout, NetworkError,
          HandleConnectionError, HandleConnectionClose, Reconnect, Restarts,
          PrimaryRestart, HandleConnection, Receive, BackupSees, SocketError,
          SocketClose, SilentEnd, BackupStart, Quiescent, vars, entries
    <3> QED
      BY <3>1 DEF Known
  <2> QED
    BY <2>1, <2>2
<1> QED
  BY <1>1, <1>2 DEF Firm

(* and every connection stays calm. *)
LEMMA QuietCalm ==
    ASSUME TypeOK, Quiet
    PROVE  \A d \in Conns : Calm(conn[d], conn'[d])
<1>0. socket \in Conns /\ \A d \in Conns : conn[d] \in Connection
  BY DEF TypeOK
<1>1. \A d \in Conns : Calm(conn[d], conn[d])
  BY <1>0, SameCalm
<1>2. \A d \in Conns : Calm(conn[d], NewConnection)
  BY <1>0, NewFields, EmptyCalm
<1>3. ASSUME NEW d \in Conns PROVE Calm(conn[d], Closed(conn[d]))
  <2> DEFINE m == Closed(conn[d])
  <2>1. /\ m.buffer = conn[d].buffer /\ m.toBackup = conn[d].toBackup
        /\ m.handling = conn[d].handling /\ m.toPrimary = << >>
    BY <1>0, ClosedFields
  <2> HIDE DEF m
  <2>2. Calm(conn[d], m)
    BY <1>0, <2>1, SameCalm
  <2> QED
    BY <2>2 DEF m
<1>4. ASSUME NEW c \in Conns, Calm(conn[c], conn'[c]),
             \A d \in Conns \ {c} : conn'[d] = conn[d]
      PROVE  \A d \in Conns : Calm(conn[d], conn'[d])
  BY <1>1, <1>4
<1>5. CASE Connected
  <2>1. Calm(conn[socket], conn'[socket])
    BY <1>0, <1>5, ConnectedMoves, SameCalm
  <2> QED
    BY <1>0, <1>4, <1>5, <2>1, ConnectedMoves
<1>6. CASE ConnectFails \/ Timeout \/ NetworkError \/ HandleConnectionClose
  <2>1. conn' = [conn EXCEPT ![socket].primary = "closed",
                             ![socket].toPrimary = << >>]
    BY <1>6 DEF ConnectFails, Timeout, NetworkError, HandleConnectionError,
                HandleConnectionClose
  <2>2. /\ conn'[socket] = Closed(conn[socket])
        /\ \A d \in Conns \ {socket} : conn'[d] = conn[d]
    BY <2>1, ClosesMoves
  <2> QED
    BY <1>0, <1>3, <1>4, <2>2
<1>7. CASE Reconnect
  <2>1. CASE connected \/ connecting # "no"
    BY <1>1, <1>7, <2>1 DEF Reconnect
  <2>2. CASE ~(connected \/ connecting # "no")
    <3>1. Establish("timer", conn) /\ conn \in [Conns -> Connection]
      BY <1>7, <2>2 DEF Reconnect, TypeOK
    <3>2. /\ socket' \in Conns
          /\ conn'[socket'] = NewConnection
          /\ \A d \in Conns \ {socket'} : conn'[d] = conn[d]
      BY <3>1, EstablishMoves
    <3> QED
      BY <1>2, <1>4, <3>2
  <2> QED
    BY <2>1, <2>2
<1>8. CASE Restarts
  <2>1. /\ conn'[socket'] = NewConnection
        /\ \A d \in Conns \ {socket'} :
             conn'[d] = IF d = socket THEN Closed(conn[d]) ELSE conn[d]
    BY <1>8, RestartsAre, RestartMoves
  <2> QED
    BY <1>1, <1>2, <1>3, <2>1
<1>9. ASSUME NEW c \in Conns, HandleConnection(c)
      PROVE  \A d \in Conns : Calm(conn[d], conn'[d])
  <2>1. CASE primarySocket = None
    <3>1. conn' = [conn EXCEPT ![c].backup = "accepted"]
      BY <1>9, <2>1 DEF HandleConnection
    <3>2. /\ Calm(conn[c], conn'[c])
          /\ \A d \in Conns \ {c} : conn'[d] = conn[d]
      BY <1>0, <3>1, AcceptMoves, SameCalm
    <3> QED
      BY <1>4, <3>2
  <2>2. CASE primarySocket # None
    <3>1. conn' = [conn EXCEPT ![c].backup = "gone", ![c].toBackup = << >>]
      BY <1>9, <2>2 DEF HandleConnection
    <3>2. /\ conn'[c] = Lost(conn[c], "gone")
          /\ \A d \in Conns \ {c} : conn'[d] = conn[d]
      BY <3>1, LosesMoves
    <3>3. Calm(conn[c], conn'[c])
      BY <1>0, <3>2, LostCalm
    <3> QED
      BY <1>4, <3>2, <3>3
  <2> QED
    BY <2>1, <2>2
<1>10. ASSUME NEW c \in Conns, Receive(c)
       PROVE  \A d \in Conns : Calm(conn[d], conn'[d])
  <2>1. PICK n \in 1..Len(conn[c].toBackup) :
          conn' = [conn EXCEPT
                     ![c].buffer = SubSeq(conn[c].toBackup, 1, n),
                     ![c].toBackup = SubSeq(@, n + 1, Len(@))]
    BY <1>10 DEF Receive
  <2>2. conn[c].buffer = << >>
    BY <1>10 DEF Receive, Busy
  <2>3. /\ conn'[c].toBackup =
             SubSeq(conn[c].toBackup, n + 1, Len(conn[c].toBackup))
        /\ conn'[c].buffer = SubSeq(conn[c].toBackup, 1, n)
        /\ conn'[c].handling = conn[c].handling
        /\ conn'[c].toPrimary = conn[c].toPrimary
        /\ \A d \in Conns \ {c} : conn'[d] = conn[d]
    BY <2>1, ReceiveMoves
  <2>4. Ahead(conn'[c]) = Ahead(conn[c])
    BY <1>0, <2>2, <2>3, ReceiveAhead
  <2>5. Begins(Ahead(conn[c]), Ahead(conn[c]))
    BY <1>0, AheadType, BeginsFacts
  <2>6. Calm(conn[c], conn'[c])
    BY <2>3, <2>4, <2>5 DEF Calm
  <2> QED
    BY <1>4, <2>3, <2>6
<1>11. ASSUME NEW c \in Conns, BackupSees(c)
       PROVE  \A d \in Conns : Calm(conn[d], conn'[d])
  <2>1. PICK end \in {"errored", "gone"} :
          conn' = [conn EXCEPT ![c].backup = end, ![c].toBackup = << >>]
    BY <1>11 DEF BackupSees, SocketError, SocketClose
  <2>2. /\ conn'[c] = Lost(conn[c], end)
        /\ \A d \in Conns \ {c} : conn'[d] = conn[d]
    BY <2>1, LosesMoves
  <2>3. Calm(conn[c], conn'[c])
    BY <1>0, <2>2, LostCalm
  <2> QED
    BY <1>4, <2>2, <2>3
<1>12. ASSUME NEW c \in Conns, SilentEnd(c)
       PROVE  \A d \in Conns : Calm(conn[d], conn'[d])
  <2>1. conn' = [conn EXCEPT ![c].silent = TRUE]
    BY <1>12 DEF SilentEnd
  <2>2. /\ Calm(conn[c], conn'[c])
        /\ \A d \in Conns \ {c} : conn'[d] = conn[d]
    BY <1>0, <2>1, SilentMoves, SameCalm
  <2> QED
    BY <1>4, <2>2
<1>13. CASE BackupStart \/ Quiescent \/ UNCHANGED vars
  BY <1>1, <1>13 DEF BackupStart, Quiescent, vars
<1> QED
  BY <1>5, <1>6, <1>7, <1>8, <1>9, <1>10, <1>11, <1>12, <1>13 DEF Quiet

(* Every other step sends, handles, answers, reads an answer, stops the    *)
(* backup or makes its store lose entries.                                 *)
LEMMA NextQuiet ==
    [Next]_vars =>
        \/ Quiet \/ Replicate \/ HandleAck \/ MisreadAck \/ BackupStop
        \/ StoreLoses \/ \E c \in Conns : HandleReplicate(c) \/ SendAck(c)
BY DEF Quiet, Next, BackupStep, Restarts

(* The store gets the first entry ahead of the backup. *)
LEMMA HandleAhead ==
    ASSUME TypeOK, NEW c \in Conns, conn[c].buffer # << >>,
           conn'[c].buffer = Tail(conn[c].buffer),
           conn'[c].toBackup = conn[c].toBackup
    PROVE  /\ Ahead(conn[c]) # << >>
           /\ Head(Ahead(conn[c])) = Head(conn[c].buffer)
           /\ Ahead(conn'[c]) = Tail(Ahead(conn[c]))
<1>1. conn[c].buffer \in Seq(Nat) /\ conn[c].toBackup \in Seq(Nat)
  BY ConnFields DEF TypeOK
<1> QED
  BY <1>1, PipeHead DEF Ahead

(* The primary's entry goes to the end of what is ahead. *)
LEMMA SendAhead ==
    ASSUME TypeOK, NEW c \in Conns, NEW id \in Nat,
           conn'[c].buffer = conn[c].buffer,
           conn'[c].toBackup = Append(conn[c].toBackup, id)
    PROVE  Ahead(conn'[c]) = Append(Ahead(conn[c]), id)
<1>1. conn[c].buffer \in Seq(Nat) /\ conn[c].toBackup \in Seq(Nat)
  BY ConnFields DEF TypeOK
<1> QED
  BY <1>1, PipeSend DEF Ahead

-----------------------------------------------------------------------------
(* No entry is applied twice *)

Delivered ==
    /\ written <= MaxWrites
    /\ Fresh(AheadNow, Firm, written)
    /\ Apart(AheadNow)

(* Counts stay counts when the losses are left out. *)
LEMMA FirmType ==
    /\ TypeOK => Firm \in [Entries -> Nat]
    /\ TypeOK' => Firm' \in [Entries -> Nat]
BY DEF TypeOK, Firm

(* Nothing is ahead of the backup at first. *)
LEMMA InitDelivered == Init => Delivered /\ AppliedOnce
<1> SUFFICES ASSUME Init PROVE Delivered /\ AppliedOnce
  OBVIOUS
<1>1. \A c \in Conns : conn[c] = NoConnection \/ conn[c] = NewConnection
  BY DEF Init, NewConnection
<1>2. << >> \o << >> = << >>
  BY ConcatEmptySeq
<1>3. \A c \in Conns : Ahead(conn[c]) = << >>
  <2>1. Ahead(NoConnection) = << >>
    BY <1>2 DEF Ahead, NoConnection
  <2>2. Ahead(NewConnection) = << >>
    BY <1>2, NewFields DEF Ahead
  <2> QED
    BY <1>1, <2>1, <2>2
<1>4. \A c \in Conns : Len(AheadNow[c]) = 0
  BY <1>3, EmptySeq DEF AheadNow
<1>5. \A i \in 1..0 : FALSE
  OBVIOUS
<1>6. /\ written = 0 /\ 0 <= MaxWrites
      /\ \A id \in Entries : /\ applied[id] = 0 /\ applied[id] <= 1
                             /\ Firm[id] = 0
  BY ReplicationAssumption DEF Init, Firm
<1>7. Fresh(AheadNow, Firm, written)
  BY <1>4, <1>5, <1>6 DEF Fresh
<1>8. Apart(AheadNow)
  BY <1>4, <1>5 DEF Apart
<1> QED
  BY <1>6, <1>7, <1>8 DEF Delivered, AppliedOnce

(* Steps after which every connection holds the beginning of what was      *)
(* ahead, and no more is applied.                                          *)
LEMMA BeginsDelivered ==
    ASSUME TypeOK, TypeOK', Delivered, AppliedOnce, written' = written,
           \A d \in Conns : Begins(Ahead(conn'[d]), Ahead(conn[d])),
           \A id \in Entries : /\ Firm'[id] = Firm[id] \/ Firm'[id] = 0
                               /\ \/ applied'[id] = applied[id]
                                  \/ applied'[id] = 0
    PROVE  Delivered' /\ AppliedOnce'
<1> DEFINE f == AheadNow
           g == AheadNow'
<1>1. f \in [Conns -> Seq(Nat)] /\ g \in [Conns -> Seq(Nat)]
  <2>1. TypeOK' => AheadNow' \in [Conns -> Seq(Nat)]
    BY AheadType, ConnFields, ConcatProperties DEF TypeOK, AheadNow, Ahead
  <2> QED
    BY <2>1, AheadType
<1>2. \A d \in Conns : Begins(g[d], f[d])
  BY DEF AheadNow
<1>3. /\ Firm \in [Entries -> Nat] /\ Firm' \in [Entries -> Nat]
      /\ written \in Nat
  BY FirmType DEF TypeOK
<1>4. Fresh(f, Firm, written) /\ Apart(f)
  BY DEF Delivered
<1> HIDE DEF f, g
<1>5. Fresh(g, Firm', written) /\ Apart(g)
  <2> DEFINE now == Firm'
  <2>1. now \in [Entries -> Nat]
    BY <1>3
  <2>2. \A id \in Entries : now[id] = Firm[id] \/ now[id] = 0
    OBVIOUS
  <2> HIDE DEF now
  <2>3. Fresh(g, now, written) /\ Apart(g)
    BY <1>1, <1>2, <1>3, <1>4, <2>1, <2>2, BeginsFresh
  <2> QED
    BY <2>3 DEF now
<1>6. Delivered'
  BY <1>5 DEF Delivered, Fresh, Apart, g
<1>7. AppliedOnce'
  BY DEF AppliedOnce
<1> QED
  BY <1>6, <1>7

(* Writing an entry on the primary, sent or not. *)
LEMMA ReplicateDelivered ==
    ASSUME TypeOK, TypeOK', Delivered, AppliedOnce, Replicate
    PROVE  Delivered' /\ AppliedOnce'
<1> DEFINE f == AheadNow
           g == AheadNow'
<1>1. f \in [Conns -> Seq(Nat)] /\ g \in [Conns -> Seq(Nat)]
  <2>1. TypeOK' => AheadNow' \in [Conns -> Seq(Nat)]
    BY AheadType, ConnFields, ConcatProperties DEF TypeOK, AheadNow, Ahead
  <2> QED
    BY <2>1, AheadType
<1>2. /\ Firm \in [Entries -> Nat] /\ socket \in Conns
      /\ written \in Nat /\ written < MaxWrites
      /\ written' = written + 1 /\ applied' = applied /\ Firm' = Firm
  BY FirmType DEF TypeOK, Replicate, entries, Firm
<1>3. Fresh(f, Firm, written) /\ Apart(f)
  BY DEF Delivered
<1>4. Fresh(g, Firm, written + 1) /\ Apart(g)
  <2>1. CASE connected /\ Current.backup # "gone"
    <3>1. conn' = [conn EXCEPT ![socket].toBackup = Append(@, written + 1)]
      BY <2>1 DEF Replicate
    <3>2. /\ conn'[socket].toBackup = Append(conn[socket].toBackup, written + 1)
          /\ conn'[socket].buffer = conn[socket].buffer
          /\ \A d \in Conns \ {socket} : conn'[d] = conn[d]
      <4>1. written + 1 \in Nat
        BY <1>2
      <4> QED
        BY <3>1, <4>1, SendMoves
    <3>3. Ahead(conn'[socket]) = Append(Ahead(conn[socket]), written + 1)
      BY <1>2, <3>2, SendAhead
    <3>4. /\ g[socket] = Append(f[socket], written + 1)
          /\ \A d \in Conns \ {socket} : g[d] = f[d]
      BY <1>2, <3>2, <3>3 DEF AheadNow
    <3> HIDE DEF f, g
    <3> QED
      BY <1>1, <1>2, <1>3, <3>4, SendsFresh
  <2>2. CASE ~(connected /\ Current.backup # "gone")
    <3>1. conn' = conn
      BY <2>2 DEF Replicate
    <3>2. g = f
      BY <3>1 DEF AheadNow
    <3> HIDE DEF f, g
    <3> QED
      BY <1>1, <1>2, <1>3, <3>2, DropsFresh
  <2> QED
    BY <2>1, <2>2
<1>5. written + 1 <= MaxWrites
  BY <1>2, ReplicationAssumption
<1> HIDE DEF f, g
<1>6. Delivered'
  BY <1>2, <1>4, <1>5 DEF Delivered, Fresh, Apart, g
<1>7. AppliedOnce'
  BY <1>2 DEF AppliedOnce
<1> QED
  BY <1>6, <1>7

(* The entry the store gets has never been applied before. *)
LEMMA HandleDelivered ==
    ASSUME TypeOK, TypeOK', Delivered, AppliedOnce,
           NEW c \in Conns, HandleReplicate(c)
    PROVE  /\ Head(conn[c].buffer) \in Entries
           /\ applied[Head(conn[c].buffer)] = 0
           /\ Head(conn[c].buffer) \notin lost /\ lost' = lost
           /\ Delivered' /\ AppliedOnce'
<1> DEFINE f == AheadNow
           g == AheadNow'
           first == Head(conn[c].buffer)
<1>1. f \in [Conns -> Seq(Nat)] /\ g \in [Conns -> Seq(Nat)]
  <2>1. TypeOK' => AheadNow' \in [Conns -> Seq(Nat)]
    BY AheadType, ConnFields, ConcatProperties DEF TypeOK, AheadNow, Ahead
  <2> QED
    BY <2>1, AheadType
<1>2. /\ applied \in [Entries -> Nat] /\ applied' \in [Entries -> Nat]
      /\ Firm \in [Entries -> Nat] /\ Firm' \in [Entries -> Nat]
      /\ written \in Nat
  BY FirmType DEF TypeOK
<1>3. written' = written /\ conn[c].buffer # << >> /\ lost' = lost
  BY DEF HandleReplicate
<1>4. Fresh(f, Firm, written) /\ Apart(f)
  BY DEF Delivered
<1>5. PICK ok \in BOOLEAN :
        /\ conn' = [conn EXCEPT ![c].buffer = Tail(@),
                           ![c].handling = <<[id |-> first, ok |-> ok]>>]
        /\ applied' = IF ok THEN [applied EXCEPT ![first] = @ + 1]
                            ELSE applied
  BY HandleReplicateMoves
<1>6. /\ conn'[c].toBackup = conn[c].toBackup
      /\ conn'[c].buffer = Tail(conn[c].buffer)
      /\ \A d \in Conns \ {c} : conn'[d] = conn[d]
  <2> DEFINE answer == [id |-> first, ok |-> ok]
  <2>1. answer \in Ack
    BY <1>3, HandledHead
  <2>2. conn' = [conn EXCEPT ![c].buffer = Tail(@), ![c].handling = <<answer>>]
    BY <1>5
  <2> HIDE DEF answer, first
  <2> QED
    BY <1>3, <2>1, <2>2, HandleMoves
<1>7. /\ Ahead(conn[c]) # << >> /\ Head(Ahead(conn[c])) = first
      /\ Ahead(conn'[c]) = Tail(Ahead(conn[c]))
  BY <1>3, <1>6, HandleAhead
<1>8. /\ f[c] # << >> /\ Head(f[c]) = first /\ g[c] = Tail(f[c])
      /\ \A d \in Conns \ {c} : g[d] = f[d]
  BY <1>6, <1>7 DEF AheadNow
<1> HIDE DEF f, g, first
<1>9. \A id \in Entries \ {first} : /\ applied'[id] = applied[id]
                                     /\ Firm'[id] = Firm[id]
  BY <1>2, <1>3, <1>5 DEF Firm
<1>10. /\ first \in Entries /\ Firm[first] = 0
       /\ Fresh(g, Firm', written) /\ Apart(g)
  <2> DEFINE done == Firm'
  <2>1. done \in [Entries -> Nat]
    BY <1>2
  <2>2. \A id \in Entries \ {Head(f[c])} : done[id] = Firm[id]
    BY <1>8, <1>9
  <2> HIDE DEF done
  <2>3. /\ Head(f[c]) \in Entries /\ Firm[Head(f[c])] = 0
        /\ Fresh(g, done, written) /\ Apart(g)
    BY <1>1, <1>2, <1>4, <1>8, <2>1, <2>2, TakesFresh
  <2> QED
    BY <1>8, <2>3 DEF done
<1>11. Delivered'
  BY <1>3, <1>10 DEF Delivered, Fresh, Apart, g
<1>12. applied[first] = 0 /\ first \notin lost
  BY <1>10 DEF Firm
<1>13. applied'[first] <= 1
  BY <1>2, <1>5, <1>10, <1>12
<1>14. AppliedOnce'
  BY <1>9, <1>13 DEF AppliedOnce
<1> QED
  BY <1>3, <1>10, <1>11, <1>12, <1>14 DEF first

(* What the store loses had been applied once. *)
LEMMA LossIsFirm ==
    ASSUME TypeOK, AppliedOnce, StoreLoses
    PROVE  \A id \in Entries : /\ Firm'[id] = Firm[id]
                               /\ \/ applied'[id] = applied[id]
                                  \/ applied'[id] = 0
<1>1. PICK ids \in SUBSET {id \in Entries : applied[id] > 0} :
        applied' = Without(ids) /\ lost' = lost \cup ids
  BY DEF StoreLoses
<1>2. \A id \in ids : applied[id] = 1
  BY DEF TypeOK, AppliedOnce
<1> QED
  BY <1>1, <1>2 DEF Firm, Without

(* Every step applies an entry at most once. *)
LEMMA NextDelivered ==
    /\ TypeOK /\ TypeOK' /\ Delivered /\ AppliedOnce /\ [Next]_vars
    => Delivered' /\ AppliedOnce'
<1> SUFFICES ASSUME TypeOK, TypeOK', Delivered, AppliedOnce, [Next]_vars
             PROVE  Delivered' /\ AppliedOnce'
  OBVIOUS
<1>0. \A d \in Conns : /\ conn[d] \in Connection
                       /\ Begins(Ahead(conn[d]), Ahead(conn[d]))
                       /\ Begins(<< >>, Ahead(conn[d]))
  BY AheadType, BeginsFacts DEF TypeOK
<1>1. CASE Quiet
  <2>1. \A d \in Conns : Begins(Ahead(conn'[d]), Ahead(conn[d]))
    BY <1>1, QuietCalm DEF Calm
  <2>2. written' = written /\ applied' = applied /\ Firm' = Firm
    BY <1>1, QuietKeeps
  <2> QED
    BY <2>1, <2>2, BeginsDelivered
<1>2. CASE Replicate
  BY <1>2, ReplicateDelivered
<1>3. CASE HandleAck \/ MisreadAck
  <2>1. /\ conn[socket].toPrimary # << >>
        /\ conn' = [conn EXCEPT ![socket].toPrimary = Tail(@)]
        /\ written' = written /\ applied' = applied /\ Firm' = Firm
    BY <1>3 DEF HandleAck, MisreadAck, AnswerArrives, Current, Firm
  <2>2. \A d \in Conns : /\ conn'[d].buffer = conn[d].buffer
                         /\ conn'[d].toBackup = conn[d].toBackup
    BY <2>1, AckMoves DEF TypeOK
  <2>3. \A d \in Conns : Begins(Ahead(conn'[d]), Ahead(conn[d]))
    BY <1>0, <2>2 DEF Ahead
  <2> QED
    BY <2>1, <2>3, BeginsDelivered
<1>4. CASE BackupStop
  <2>1. << >> \o << >> = << >>
    BY ConcatEmptySeq
  <2>2. ASSUME NEW d \in Conns PROVE Ahead(conn'[d]) = << >>
    <3>1. conn'[d] = Stopped(conn[d])
      BY <1>4, StopMoves
    <3>2. Stopped(conn[d]).buffer = << >> /\ Stopped(conn[d]).toBackup = << >>
      BY <1>0, StoppedFields
    <3> QED
      BY <2>1, <3>1, <3>2 DEF Ahead
  <2>3. \A d \in Conns : Begins(Ahead(conn'[d]), Ahead(conn[d]))
    BY <1>0, <2>2
  <2>4. \A id \in Entries : /\ Firm'[id] = Firm[id] \/ Firm'[id] = 0
                            /\ applied'[id] = applied[id] \/ applied'[id] = 0
    BY <1>4 DEF BackupStop, Without, Firm
  <2>5. written' = written
    BY <1>4 DEF BackupStop
  <2> QED
    BY <2>3, <2>4, <2>5, BeginsDelivered
<1>5. ASSUME NEW c \in Conns, HandleReplicate(c)
      PROVE  Delivered' /\ AppliedOnce'
  BY <1>5, HandleDelivered
<1>6. ASSUME NEW c \in Conns, SendAck(c) PROVE Delivered' /\ AppliedOnce'
  <2>1. /\ conn' = Answer(c) /\ written' = written /\ applied' = applied
        /\ Firm' = Firm
    BY <1>6 DEF SendAck, entries, Firm
  <2>2. \A d \in Conns : /\ conn'[d].buffer = conn[d].buffer
                         /\ conn'[d].toBackup = conn[d].toBackup
    BY <2>1, AnswerMoves
  <2>3. \A d \in Conns : Begins(Ahead(conn'[d]), Ahead(conn[d]))
    BY <1>0, <2>2 DEF Ahead
  <2> QED
    BY <2>1, <2>3, BeginsDelivered
<1>7. CASE StoreLoses
  <2>1. conn' = conn /\ written' = written
    BY <1>7 DEF StoreLoses
  <2>2. \A d \in Conns : Begins(Ahead(conn'[d]), Ahead(conn[d]))
    BY <1>0, <2>1
  <2>3. \A id \in Entries : /\ Firm'[id] = Firm[id]
                            /\ applied'[id] = applied[id] \/ applied'[id] = 0
    BY <1>7, LossIsFirm
  <2> QED
    BY <2>1, <2>2, <2>3, BeginsDelivered
<1> QED
  BY <1>1, <1>2, <1>3, <1>4, <1>5, <1>6, <1>7, NextQuiet

(* No entry is applied twice by the backup, whatever breaks or restarts:   *)
(* what is still ahead of it on any connection, open or left behind, has   *)
(* not been applied yet and is nowhere else.                               *)
THEOREM NothingAppliedTwice == Spec => []AppliedOnce
<1>1. Init => Delivered /\ AppliedOnce
  BY InitDelivered
<1>2. /\ TypeOK /\ TypeOK' /\ Delivered /\ AppliedOnce /\ [Next]_vars
      => Delivered' /\ AppliedOnce'
  BY NextDelivered
<1> QED
  BY <1>1, <1>2, ReplicationTypeCorrect, PTL DEF Spec

-----------------------------------------------------------------------------
(* What is confirmed has been applied *)

(* The backup has applied entry id and has still to answer; its answer is  *)
(* on its way; the primary has or will get to know.                        *)
Works(k, id) == /\ k.handling # << >>
                /\ k.handling[1].id = id
                /\ k.handling[1].ok

Answers(k, id) == \E i \in 1..Len(k.toPrimary) :
                    k.toPrimary[i].id = id /\ k.toPrimary[i].ok

Done(conns, known, id) ==
    id \in known \/ \E c \in Conns : Answers(conns[c], id)

(* An entry that is done, or in a handler, has been applied; one in a      *)
(* handler is not done, and in no other.  So the entries that a stop of    *)
(* the backup may lose are never known to the primary.                     *)
Settled(conns, known, app) ==
    /\ \A id \in Nat :
          Done(conns, known, id) \/ (\E c \in Conns : Works(conns[c], id))
          => id \in Entries /\ app[id] > 0
    /\ \A c \in Conns, id \in Nat :
          Works(conns[c], id) =>
              /\ ~Done(conns, known, id)
              /\ \A d \in Conns : Works(conns[d], id) => c = d

(* Nothing new is done and nothing new in a handler. *)
LEMMA FewerSettled ==
    ASSUME NEW conns, NEW known, NEW app, Settled(conns, known, app),
           NEW conns2, NEW known2, NEW app2,
           \A id \in Nat : Done(conns2, known2, id) =>
               Done(conns, known, id) /\ app2[id] = app[id],
           \A c \in Conns, id \in Nat : Works(conns2[c], id) =>
               Works(conns[c], id) /\ app2[id] = app[id]
    PROVE  Settled(conns2, known2, app2)
<1>1. ASSUME NEW id \in Nat,
             \/ Done(conns2, known2, id)
             \/ \E c \in Conns : Works(conns2[c], id)
      PROVE  id \in Entries /\ app2[id] > 0
  BY <1>1 DEF Settled
<1>2. ASSUME NEW c \in Conns, NEW id \in Nat, Works(conns2[c], id)
      PROVE  /\ ~Done(conns2, known2, id)
             /\ \A d \in Conns : Works(conns2[d], id) => c = d
  BY <1>2 DEF Settled
<1> QED
  BY <1>1, <1>2 DEF Settled

(* Nor is after a step that confirms nothing new. *)
LEMMA FewerIsSettled ==
    ASSUME Settled(conn, Known, Firm), Firm' = Firm,
           \A id \in Nat : Done(conn', Known', id) => Done(conn, Known, id),
           \A c \in Conns, id \in Nat :
               Works(conn'[c], id) => Works(conn[c], id)
    PROVE  Settled(conn', Known', Firm')
<1> DEFINE conns == conn
           known == Known
           app == Firm
           conns2 == conn'
           known2 == Known'
           app2 == Firm'
<1>1. \A id \in Nat : Done(conns2, known2, id) =>
          Done(conns, known, id) /\ app2[id] = app[id]
  OBVIOUS
<1>2. \A c \in Conns, id \in Nat : Works(conns2[c], id) =>
          Works(conns[c], id) /\ app2[id] = app[id]
  OBVIOUS
<1>3. Settled(conns, known, app)
  OBVIOUS
<1> HIDE DEF conns, known, app, conns2, known2, app2
<1>4. Settled(conns2, known2, app2)
  BY <1>1, <1>2, <1>3, FewerSettled
<1> QED
  BY <1>4 DEF conns2, known2, app2

(* Nothing is done at first. *)
LEMMA InitSettled == Init => Settled(conn, Known, Firm)
<1> SUFFICES ASSUME Init PROVE Settled(conn, Known, Firm)
  OBVIOUS
<1>1. \A c \in Conns : conn[c] = NoConnection \/ conn[c] = NewConnection
  BY DEF Init, NewConnection
<1>2. \A c \in Conns : conn[c].handling = << >> /\ conn[c].toPrimary = << >>
  <2>1. NoConnection.handling = << >> /\ NoConnection.toPrimary = << >>
    BY DEF NoConnection
  <2> QED
    BY <1>1, <2>1, NewFields
<1>3. Len(<< >>) = 0 /\ \A i \in 1..0 : FALSE
  BY EmptySeq
<1>4. Known = {}
  BY DEF Init, Known
<1>5. \A id \in Nat : /\ ~Done(conn, Known, id)
                      /\ \A c \in Conns : ~Works(conn[c], id)
  BY <1>2, <1>3, <1>4 DEF Done, Works, Answers
<1> QED
  BY <1>5 DEF Settled

(* The answers that remain were there before. *)
LEMMA TailAnswers ==
    ASSUME NEW k \in Connection, NEW m, NEW id, k.toPrimary # << >>,
           m.toPrimary = Tail(k.toPrimary), Answers(m, id)
    PROVE  Answers(k, id)
<1> DEFINE s == k.toPrimary
           r == Tail(s)
<1>1. s \in Seq(Ack) /\ s # << >> /\ Len(s) \in Nat
  BY ConnFields, LenProperties
<1>2. Len(r) = Len(s) - 1 /\ \A i \in 1..Len(r) : r[i] = s[i + 1]
  BY <1>1, HeadTailProperties
<1> HIDE DEF s, r
<1>3. PICK i \in 1..Len(r) : r[i].id = id /\ r[i].ok
  BY DEF Answers, r, s
<1>4. i + 1 \in 1..Len(s)
  BY <1>1, <1>2
<1>5. s[i + 1].id = id /\ s[i + 1].ok
  BY <1>2, <1>3
<1> QED
  BY <1>4, <1>5 DEF Answers, s

(* An answer on its way was there before or in the handler. *)
LEMMA SentAnswers ==
    ASSUME NEW k \in Connection, NEW m, NEW id, Len(k.handling) <= 1,
           m.toPrimary = k.toPrimary \o k.handling, Answers(m, id)
    PROVE  Answers(k, id) \/ Works(k, id)
<1> DEFINE s == k.toPrimary
           h == k.handling
<1>1. /\ s \in Seq(Ack) /\ h \in Seq(Ack)
      /\ Len(s) \in Nat /\ Len(h) \in Nat /\ Len(h) <= 1
  BY ConnFields, LenProperties
<1> HIDE DEF s, h
<1>2. /\ Len(s \o h) = Len(s) + Len(h)
      /\ \A i \in 1..(Len(s) + Len(h)) :
            (s \o h)[i] = IF i <= Len(s) THEN s[i] ELSE h[i - Len(s)]
  BY <1>1, ConcatProperties
<1>3. PICK i \in 1..Len(s \o h) : (s \o h)[i].id = id /\ (s \o h)[i].ok
  BY DEF Answers, s, h
<1>4. i \in 1..(Len(s) + Len(h))
  BY <1>2
<1>5. CASE i <= Len(s)
  <2>1. i \in 1..Len(s) /\ s[i].id = id /\ s[i].ok
    BY <1>1, <1>2, <1>3, <1>4, <1>5
  <2> QED
    BY <2>1 DEF Answers, s
<1>6. CASE ~(i <= Len(s))
  <2>1. i - Len(s) = 1 /\ Len(h) = 1
    <3>1. i \in Nat /\ i <= Len(s) + Len(h) /\ i > Len(s)
      BY <1>1, <1>4, <1>6
    <3> DEFINE p == Len(s)
               q == Len(h)
    <3>2. p \in Nat /\ q \in Nat /\ q <= 1 /\ i <= p + q /\ i > p
      BY <1>1, <3>1
    <3> HIDE DEF p, q
    <3>3. i - p = 1 /\ q = 1
      BY <3>1, <3>2
    <3> QED
      BY <3>3 DEF p, q
  <2>2. h[1].id = id /\ h[1].ok
    BY <1>2, <1>3, <1>4, <1>6, <2>1
  <2>3. h # << >>
    BY <2>1, EmptySeq
  <2> QED
    BY <2>2, <2>3 DEF Works, h
<1> QED
  BY <1>5, <1>6

(* A calm step leaves nothing new done or in a handler. *)
LEMMA QuietSettled ==
    ASSUME TypeOK, Quiet, Settled(conn, Known, Firm)
    PROVE  Settled(conn', Known', Firm')
<1>1. Known' \subseteq Known /\ Firm' = Firm
  BY QuietKeeps
<1>2. Len(<< >>) = 0 /\ \A i \in 1..0 : FALSE
  BY EmptySeq
<1>3. ASSUME NEW c \in Conns, NEW id \in Nat
      PROVE  /\ Works(conn'[c], id) => Works(conn[c], id)
             /\ Answers(conn'[c], id) => Answers(conn[c], id)
  <2>1. /\ conn'[c].handling = conn[c].handling \/ conn'[c].handling = << >>
        /\ \/ conn'[c].toPrimary = conn[c].toPrimary
           \/ conn'[c].toPrimary = << >>
    BY QuietCalm DEF Calm
  <2>2. Works(conn'[c], id) => Works(conn[c], id)
    BY <2>1 DEF Works
  <2>3. Answers(conn'[c], id) => Answers(conn[c], id)
    BY <1>2, <2>1 DEF Answers
  <2> QED
    BY <2>2, <2>3
<1>4. \A id \in Nat : Done(conn', Known', id) => Done(conn, Known, id)
  BY <1>1, <1>3 DEF Done
<1> QED
  BY <1>1, <1>3, <1>4, FewerIsSettled

(* Writing an entry changes neither. *)
LEMMA ReplicateSettled ==
    ASSUME TypeOK, Replicate, Settled(conn, Known, Firm)
    PROVE  Settled(conn', Known', Firm')
<1>1. Known' = Known /\ Firm' = Firm
  BY DEF Replicate, entries, Known, Firm
<1>2. \A c \in Conns : /\ conn'[c].handling = conn[c].handling
                       /\ conn'[c].toPrimary = conn[c].toPrimary
  <2>1. CASE connected /\ Current.backup # "gone"
    <3>1. conn' = [conn EXCEPT ![socket].toBackup = Append(@, written + 1)]
      BY <2>1 DEF Replicate
    <3>2. written + 1 \in Nat
      BY DEF TypeOK
    <3> QED
      BY <3>1, <3>2, SendMoves
  <2>2. CASE ~(connected /\ Current.backup # "gone")
    BY <2>2 DEF Replicate
  <2> QED
    BY <2>1, <2>2
<1>3. \A c \in Conns, id \in Nat :
          /\ Works(conn'[c], id) <=> Works(conn[c], id)
          /\ Answers(conn'[c], id) <=> Answers(conn[c], id)
  BY <1>2 DEF Works, Answers
<1>4. \A id \in Nat : Done(conn', Known', id) => Done(conn, Known, id)
  BY <1>1, <1>3 DEF Done
<1> QED
  BY <1>1, <1>3, <1>4, FewerIsSettled

(* The answer the primary reads is that of the entry it confirms. *)
LEMMA AckSettled ==
    ASSUME TypeOK, Ends, Pipelined, HandleAck,
           Settled(conn, Known, Firm)
    PROVE  Settled(conn', Known', Firm')
<1>1. /\ conn[socket].toPrimary # << >>
      /\ conn' = [conn EXCEPT ![socket].toPrimary = Tail(@)]
      /\ conn[socket].primary = "open" /\ ~stray
      /\ socket \in Conns /\ conn[socket] \in Connection
      /\ pendingAcks \in Seq(Nat)
      /\ Firm' = Firm /\ misread' = misread
  BY DEF HandleAck, AnswerArrives, Current, TypeOK, Firm
<1>2. /\ conn' \in [Conns -> Connection]
      /\ \A d \in Conns \ {socket} : conn'[d] = conn[d]
      /\ conn'[socket].backup = conn[socket].backup
      /\ conn'[socket].toBackup = conn[socket].toBackup
      /\ conn'[socket].buffer = conn[socket].buffer
      /\ conn'[socket].handling = conn[socket].handling
      /\ conn'[socket].toPrimary = Tail(conn[socket].toPrimary)
  BY <1>1, AckMoves
<1>3. Kept(conn[socket], pendingAcks)
  BY <1>1 DEF Pipelined, Ends, Current
<1>4. /\ pendingAcks # << >>
      /\ conn[socket].toPrimary[1].id = Head(pendingAcks)
  <2>1. conn'[socket] \in Connection
    BY <1>1, <1>2
  <2> QED
    BY <1>1, <1>2, <1>3, <2>1, AckKept, ZenonT(60)
<1>5. ASSUME NEW id \in Nat, id \in Known', id \notin Known
      PROVE  Answers(conn[socket], id)
  <2>0. id \in confirmed' /\ id \notin confirmed
    BY <1>1, <1>5 DEF Known
  <2>1. /\ conn[socket].toPrimary[1].ok /\ id = Head(pendingAcks)
        /\ Head(conn[socket].toPrimary) = conn[socket].toPrimary[1]
    BY <1>1, <1>4, <2>0 DEF HandleAck, Current
  <2>2. 1 \in 1..Len(conn[socket].toPrimary)
    <3> DEFINE s == conn[socket].toPrimary
    <3>1. s \in Seq(Ack) /\ s # << >>
      BY <1>1, ConnFields
    <3> HIDE DEF s
    <3>2. 1 \in 1..Len(s)
      BY <3>1, EmptySeq
    <3> QED
      BY <3>2 DEF s
  <2> QED
    BY <1>4, <2>1, <2>2 DEF Answers
<1>6. ASSUME NEW c \in Conns, NEW id \in Nat
      PROVE  /\ Works(conn'[c], id) <=> Works(conn[c], id)
             /\ Answers(conn'[c], id) => Answers(conn[c], id)
  <2>1. CASE c = socket
    <3>1. Works(conn'[c], id) <=> Works(conn[c], id)
      BY <1>2, <2>1 DEF Works
    <3>2. Answers(conn'[c], id) => Answers(conn[c], id)
      BY <1>1, <1>2, <2>1, TailAnswers
    <3> QED
      BY <3>1, <3>2
  <2>2. CASE c # socket
    BY <1>2, <2>2
  <2> QED
    BY <2>1, <2>2
<1>7. \A id \in Nat : Done(conn', Known', id) => Done(conn, Known, id)
  BY <1>1, <1>5, <1>6 DEF Done
<1> QED
  BY <1>1, <1>6, <1>7, FewerIsSettled

(* What a misread answer confirms is not counted. *)
LEMMA MisreadSettled ==
    ASSUME TypeOK, MisreadAck, Settled(conn, Known, Firm)
    PROVE  Settled(conn', Known', Firm')
<1>1. /\ conn[socket].toPrimary # << >>
      /\ conn' = [conn EXCEPT ![socket].toPrimary = Tail(@)]
      /\ socket \in Conns /\ conn[socket] \in Connection
      /\ Firm' = Firm
  BY DEF MisreadAck, AnswerArrives, Current, TypeOK, Firm
<1>2. /\ \A d \in Conns \ {socket} : conn'[d] = conn[d]
      /\ conn'[socket].handling = conn[socket].handling
      /\ conn'[socket].toPrimary = Tail(conn[socket].toPrimary)
  BY <1>1, AckMoves DEF TypeOK
<1>3. Known' \subseteq Known
  <2>1. Misanswer \/ UNCHANGED <<confirmed, misread>>
    BY DEF MisreadAck
  <2> QED
    BY <2>1, MisanswerType DEF Known
<1>4. ASSUME NEW c \in Conns, NEW id \in Nat
      PROVE  /\ Works(conn'[c], id) => Works(conn[c], id)
             /\ Answers(conn'[c], id) => Answers(conn[c], id)
  <2>1. CASE c = socket
    <3>1. Works(conn'[c], id) => Works(conn[c], id)
      BY <1>2, <2>1 DEF Works
    <3>2. Answers(conn'[c], id) => Answers(conn[c], id)
      BY <1>1, <1>2, <2>1, TailAnswers
    <3> QED
      BY <3>1, <3>2
  <2>2. CASE c # socket
    BY <1>2, <2>2
  <2> QED
    BY <2>1, <2>2
<1>5. \A id \in Nat : Done(conn', Known', id) => Done(conn, Known, id)
  BY <1>3, <1>4 DEF Done
<1> QED
  BY <1>1, <1>4, <1>5, FewerIsSettled

(* The entry handed to the store is neither done nor in another handler.   *)
LEMMA HandleSettled ==
    ASSUME TypeOK, TypeOK', Delivered, AppliedOnce,
           NEW c \in Conns, HandleReplicate(c),
           Settled(conn, Known, Firm)
    PROVE  Settled(conn', Known', Firm')
<1> DEFINE first == Head(conn[c].buffer)
<1>1. /\ first \in Entries /\ applied[first] = 0
      /\ first \notin lost /\ lost' = lost
  BY HandleDelivered
<1>2. /\ conn[c].buffer # << >> /\ Known' = Known
      /\ applied \in [Entries -> Nat]
  BY DEF HandleReplicate, Known, TypeOK
<1>3. PICK ok \in BOOLEAN :
        /\ conn' = [conn EXCEPT ![c].buffer = Tail(@),
                           ![c].handling = <<[id |-> first, ok |-> ok]>>]
        /\ applied' = IF ok THEN [applied EXCEPT ![first] = @ + 1]
                            ELSE applied
  BY HandleReplicateMoves
<1>4. /\ conn'[c].toPrimary = conn[c].toPrimary
      /\ conn'[c].handling = <<[id |-> first, ok |-> ok]>>
      /\ \A d \in Conns \ {c} : conn'[d] = conn[d]
  <2> DEFINE answer == [id |-> first, ok |-> ok]
  <2>1. answer \in Ack
    BY <1>2, HandledHead
  <2>2. conn' = [conn EXCEPT ![c].buffer = Tail(@), ![c].handling = <<answer>>]
    BY <1>3
  <2> HIDE DEF answer, first
  <2>3. /\ conn'[c].toPrimary = conn[c].toPrimary
        /\ conn'[c].handling = <<answer>>
        /\ \A d \in Conns \ {c} : conn'[d] = conn[d]
    BY <1>2, <2>1, <2>2, HandleMoves
  <2> QED
    BY <2>3 DEF answer, first
<1> HIDE DEF first
<1>5. /\ \A id \in Entries : id # first => Firm'[id] = Firm[id]
      /\ ok => Firm'[first] = 1
      /\ Firm[first] = 0
  <2>1. /\ \A id \in Entries : id # first => applied'[id] = applied[id]
        /\ ok => applied'[first] = 1
    BY <1>1, <1>2, <1>3
  <2> QED
    BY <1>1, <2>1 DEF Firm
<1>6. \A d \in Conns, id \in Nat :
          Answers(conn'[d], id) <=> Answers(conn[d], id)
  BY <1>4 DEF Answers
<1>7. \A id \in Nat : Done(conn', Known', id) <=> Done(conn, Known, id)
  BY <1>2, <1>6 DEF Done
<1>8. \A id \in Nat : Works(conn'[c], id) => id = first /\ ok
  BY <1>4 DEF Works
<1>9. \A d \in Conns \ {c}, id \in Nat :
          Works(conn'[d], id) <=> Works(conn[d], id)
  BY <1>4
<1>10. ASSUME NEW id \in Nat,
              \/ Done(conn, Known, id)
              \/ \E d \in Conns : Works(conn[d], id)
       PROVE  id # first /\ id \in Entries /\ Firm[id] > 0
  BY <1>5, <1>10 DEF Settled
<1>11. ASSUME NEW id \in Nat,
              \/ Done(conn', Known', id)
              \/ \E d \in Conns : Works(conn'[d], id)
       PROVE  id \in Entries /\ Firm'[id] > 0
  <2>1. CASE id = first /\ ok
    BY <1>1, <1>5, <2>1
  <2>2. CASE ~(id = first /\ ok)
    <3>1. \/ Done(conn, Known, id)
          \/ \E d \in Conns : Works(conn[d], id)
      BY <1>7, <1>8, <1>9, <1>11, <2>2
    <3> QED
      BY <1>5, <1>10, <3>1
  <2> QED
    BY <2>1, <2>2
<1>12. ASSUME NEW d \in Conns, NEW id \in Nat, Works(conn'[d], id)
       PROVE  /\ ~Done(conn', Known', id)
              /\ \A e \in Conns : Works(conn'[e], id) => d = e
  <2>1. CASE d = c
    <3>1. id = first
      BY <1>8, <1>12, <2>1
    <3>2. /\ ~Done(conn, Known, first)
          /\ \A e \in Conns : ~Works(conn[e], first)
      BY <1>1, <1>10 DEF Entries
    <3> QED
      BY <1>7, <1>9, <2>1, <3>1, <3>2
  <2>2. CASE d # c
    <3>1. Works(conn[d], id)
      BY <1>9, <1>12, <2>2
    <3>2. id # first /\ ~Done(conn, Known, id)
      BY <1>10, <3>1 DEF Settled
    <3>3. ASSUME NEW e \in Conns, Works(conn'[e], id) PROVE d = e
      <4>1. e # c
        BY <1>8, <3>2, <3>3
      <4>2. Works(conn[e], id)
        BY <1>9, <3>3, <4>1
      <4> QED
        BY <3>1, <4>2 DEF Settled
    <3> QED
      BY <1>7, <3>2, <3>3
  <2> QED
    BY <2>1, <2>2
<1> QED
  BY <1>11, <1>12 DEF Settled

(* An answer sent takes its entry out of the handler. *)
LEMMA AnswerSettled ==
    ASSUME TypeOK, Shape, NEW c \in Conns, SendAck(c),
           Settled(conn, Known, Firm)
    PROVE  Settled(conn', Known', Firm')
<1>1. /\ conn' = Answer(c) /\ Known' = Known /\ Firm' = Firm
      /\ conn[c] \in Connection /\ Len(conn[c].handling) <= 1
  BY DEF SendAck, entries, Known, Firm, TypeOK, Shape, Shaped
<1>2. /\ conn'[c].handling = << >>
      /\ \/ conn'[c].toPrimary = conn[c].toPrimary \o conn[c].handling
         \/ conn'[c].toPrimary = conn[c].toPrimary
      /\ \A d \in Conns \ {c} : conn'[d] = conn[d]
  BY <1>1, AnswerMoves
<1>3. \A id \in Nat : /\ ~Works(conn'[c], id)
                      /\ Answers(conn'[c], id) =>
                            Answers(conn[c], id) \/ Works(conn[c], id)
  <2> SUFFICES ASSUME NEW id \in Nat
               PROVE  /\ ~Works(conn'[c], id)
                      /\ Answers(conn'[c], id) =>
                            Answers(conn[c], id) \/ Works(conn[c], id)
    OBVIOUS
  <2>1. ~Works(conn'[c], id)
    BY <1>2 DEF Works
  <2>2. CASE conn'[c].toPrimary = conn[c].toPrimary \o conn[c].handling
    BY <1>1, <2>1, <2>2, SentAnswers
  <2>3. CASE conn'[c].toPrimary = conn[c].toPrimary
    BY <2>1, <2>3 DEF Answers
  <2> QED
    BY <1>2, <2>2, <2>3
<1>4. \A d \in Conns, id \in Nat : Works(conn'[d], id) =>
          d # c /\ Works(conn[d], id)
  BY <1>2, <1>3
<1>5. \A id \in Nat : Done(conn', Known', id) =>
          Done(conn, Known, id) \/ Works(conn[c], id)
  BY <1>1, <1>2, <1>3 DEF Done
<1>6. ASSUME NEW id \in Nat,
             \/ Done(conn', Known', id)
             \/ \E d \in Conns : Works(conn'[d], id)
      PROVE  id \in Entries /\ Firm'[id] > 0
  BY <1>1, <1>4, <1>5, <1>6 DEF Settled
<1>7. ASSUME NEW d \in Conns, NEW id \in Nat, Works(conn'[d], id)
      PROVE  /\ ~Done(conn', Known', id)
             /\ \A e \in Conns : Works(conn'[e], id) => d = e
  <2>1. d # c /\ Works(conn[d], id)
    BY <1>4, <1>7
  <2>2. ~Done(conn, Known, id) /\ ~Works(conn[c], id)
    BY <2>1 DEF Settled
  <2>3. \A e \in Conns : Works(conn'[e], id) => d = e
    BY <1>4, <2>1 DEF Settled
  <2> QED
    BY <1>5, <2>2, <2>3
<1> QED
  BY <1>6, <1>7 DEF Settled

(* A stop of the backup loses only entries nobody has been told of. *)
LEMMA StopSettled ==
    ASSUME TypeOK, BackupStop, Settled(conn, Known, Firm)
    PROVE  Settled(conn', Known', Firm')
<1>1. PICK ids \in SUBSET Handled : applied' = Without(ids)
  BY DEF BackupStop
<1>2. Known' = Known /\ lost' = lost
  BY DEF BackupStop, Known
<1>3. \A c \in Conns : /\ conn'[c].handling = << >>
                       /\ conn'[c].toPrimary = conn[c].toPrimary
  <2>1. \A c \in Conns : conn'[c] = Stopped(conn[c]) /\ conn[c] \in Connection
    BY StopMoves DEF TypeOK
  <2>2. \A c \in Conns : /\ Stopped(conn[c]).handling = << >>
                         /\ Stopped(conn[c]).toPrimary = conn[c].toPrimary
    BY <2>1, StoppedFields
  <2> QED
    BY <2>1, <2>2
<1>4. \A id \in Nat : Done(conn', Known', id) <=> Done(conn, Known, id)
  BY <1>2, <1>3 DEF Done, Answers
<1>5. \A c \in Conns, id \in Nat : ~Works(conn'[c], id)
  BY <1>3 DEF Works
<1>6. ASSUME NEW id \in Nat, Done(conn', Known', id)
      PROVE  id \in Entries /\ Firm'[id] > 0
  <2>1. Done(conn, Known, id)
    BY <1>4, <1>6
  <2>2. id \notin Handled
    <3> SUFFICES ASSUME id \in Handled PROVE FALSE
      OBVIOUS
    <3>1. PICK c \in Conns : Works(conn[c], id)
      BY DEF Handled, Works
    <3> QED
      BY <2>1, <3>1 DEF Settled
  <2>3. id \in Entries /\ Firm[id] > 0
    BY <2>1 DEF Settled
  <2>4. Firm'[id] = Firm[id]
    BY <1>1, <1>2, <2>2, <2>3 DEF Without, Firm
  <2> QED
    BY <2>3, <2>4
<1> QED
  BY <1>5, <1>6 DEF Settled

(* A loss of the backup's store leaves what was confirmed confirmed. *)
LEMMA LossSettled ==
    ASSUME TypeOK, AppliedOnce, StoreLoses, Settled(conn, Known, Firm)
    PROVE  Settled(conn', Known', Firm')
<1>1. conn' = conn /\ Known' = Known
  BY DEF StoreLoses, Known
<1>2. Firm' = Firm
  <2>1. \A id \in Entries : Firm'[id] = Firm[id]
    BY LossIsFirm
  <2> QED
    BY <2>1 DEF Firm
<1>3. \A id \in Nat : Done(conn', Known', id) => Done(conn, Known, id)
  BY <1>1 DEF Done
<1>4. \A c \in Conns, id \in Nat :
          Works(conn'[c], id) => Works(conn[c], id)
  BY <1>1
<1> QED
  BY <1>2, <1>3, <1>4, FewerIsSettled

(* Every step keeps what is known of the entries true. *)
LEMMA NextSettled ==
    /\ TypeOK /\ TypeOK' /\ Ends /\ Shape /\ Pipelined /\ Delivered
    /\ AppliedOnce /\ Settled(conn, Known, Firm) /\ [Next]_vars
    => Settled(conn', Known', Firm')
BY NextQuiet, QuietSettled, ReplicateSettled, AckSettled, MisreadSettled,
   HandleSettled, AnswerSettled, StopSettled, LossSettled

(* An entry that an answer of the backup made the primary count as         *)
(* replicated is on the backup, whatever restarts and reconnects happened, *)
(* unless the backup's own store has lost it: a stop of the backup loses   *)
(* only entries whose handler has not answered yet, and an answer settles  *)
(* its own entry, because the pipeline is intact where no bytes of an      *)
(* ended connection stand in front of the answers.                         *)
THEOREM ConfirmedStaysApplied == Spec => []ConfirmedApplied
<1> DEFINE Sound == Settled(conn, Known, Firm)
           Inv == Ends /\ Shape /\ Pipelined /\ Delivered /\ AppliedOnce
                  /\ Sound
<1>1. Init => Inv
  BY InitEnds, InitShape, InitPipelined, InitDelivered, InitSettled
<1>2. TypeOK /\ TypeOK' /\ Inv /\ [Next]_vars => Inv'
  <2> SUFFICES ASSUME TypeOK, TypeOK', Inv, [Next]_vars PROVE Inv'
    OBVIOUS
  <2>1. Ends' /\ Shape' /\ Pipelined' /\ Delivered' /\ AppliedOnce'
    BY NextEnds, NextShape, NextPipelined, NextDelivered
  <2>2. Settled(conn', Known', Firm')
    BY NextSettled
  <2>3. Sound'
    BY <2>2 DEF Settled, Done, Answers, Works
  <2> QED
    BY <2>1, <2>3
<1>3. TypeOK /\ Inv => ConfirmedApplied
  <2> SUFFICES ASSUME TypeOK, Sound,
                      NEW id \in confirmed \ (misread \cup lost)
               PROVE  applied[id] > 0
    BY DEF ConfirmedApplied
  <2>1. id \in Nat /\ id \in Known
    BY DEF TypeOK, Known
  <2>2. id \in Entries /\ Firm[id] > 0
    BY <2>1 DEF Settled, Done
  <2> QED
    BY <2>2 DEF Firm
<1> HIDE DEF Inv
<1> QED
  BY <1>1, <1>2, <1>3, ReplicationTypeCorrect, PTL DEF Spec
=============================================================================
