------------------------------ MODULE TCPStream ------------------------------
(***************************************************************************)
(* The TCP streaming interface: one TCPClient object and the connection    *)
(* TCPServer serves it on, from connect() to the end of the process.       *)
(*                                                                         *)
(* Calls of put and endStream are the commands 1, 2, ... in the order they *)
(* are made, by as many callers as like to: nothing makes one wait for     *)
(* another.  A frame crosses the connection in two parts, since TCP may    *)
(* cut a frame anywhere: a command k is the parts k, k, and an answer is   *)
(* its status twice.  A "data" event brings any prefix of what is under    *)
(* way.  The server's "data" handler is asynchronous: the state it keeps   *)
(* across store.put is the snapshot of the buffer it works through (todo)  *)
(* and the put it waits for (cmd).                                         *)
(*                                                                         *)
(* The connection itself (net.Socket) is external: csocket and ssocket are *)
(* the two ends of it.  An end that writes after its own end() is          *)
(* destroyed, an end whose peer is destroyed finds out sooner or later,    *)
(* and an end whose peer ended reads what is left and then ends as well    *)
(* (allowHalfOpen is off).                                                 *)
(***************************************************************************)
EXTENDS Integers, Sequences, FiniteSets, SequencesExt

CONSTANT MaxCommands        \* bound: calls of put and endStream

ASSUME MaxCommandsAssumption == MaxCommands \in Nat \ {0}

VARIABLES
    \* TCPClient
    csocket,      \* "new", "open", "ending", "ended", "over", "destroyed", "closed"
    connected,
    kinds,        \* the commands called so far: "put" or "end"
    outcome,      \* command -> "waiting", "ok", "refused" or "lost"
    pendingAcks,
    cbuffer,
    \* the connection
    toServer, toClient,
    \* TCPServer
    ssocket,      \* "none", "open", "ended", "over", "destroyed"
    paused,
    buffer,
    todo,         \* the part of processBuffer's buffer from its offset on
    cmd,          \* the put the handler waits for, 0 when there is none
    \* the application
    phase,        \* "serving", "stopping", "closed" (the store is), "exited"
    handled,      \* history: the commands the handler has taken up, in order
    stored, failed  \* history: the puts the store finished, and those it refused

client == <<csocket, connected, kinds, outcome, pendingAcks, cbuffer>>
server == <<ssocket, paused, buffer, todo, cmd>>
app    == <<phase, handled, stored, failed>>
vars   == <<client, toServer, toClient, server, app>>

Commands == 1..MaxCommands
Called == 1..Len(kinds)
Statuses == {"OK", "ERROR"}
Frame(x) == <<x, x>>
FrameParts == 2

(* What is left of s once n parts are taken from it. *)
From(s, n) == SubSeq(s, n + 1, Len(s))

TypeOK ==
    /\ csocket \in {"new", "open", "ending", "ended", "over", "destroyed", "closed"}
    /\ connected \in BOOLEAN
    /\ kinds \in BoundedSeq({"put", "end"}, MaxCommands)
    /\ outcome \in [Commands -> {"waiting", "ok", "refused", "lost"}]
    /\ pendingAcks \in Seq(Commands)
    /\ {cbuffer, toClient} \subseteq Seq(Statuses)
    /\ {buffer, todo, toServer, handled} \subseteq Seq(Commands)
    /\ ssocket \in {"none", "open", "ended", "over", "destroyed"}
    /\ paused \in BOOLEAN
    /\ cmd \in {0} \union Commands
    /\ phase \in {"serving", "stopping", "closed", "exited"}
    /\ stored \subseteq Commands /\ failed \subseteq Commands

Init ==
    /\ csocket = "new" /\ connected = FALSE
    /\ kinds = <<>> /\ outcome = [k \in Commands |-> "waiting"]
    /\ pendingAcks = <<>> /\ cbuffer = <<>>
    /\ toServer = <<>> /\ toClient = <<>>
    /\ ssocket = "none" /\ paused = FALSE
    /\ buffer = <<>> /\ todo = <<>> /\ cmd = 0
    /\ phase = "serving"
    /\ handled = <<>> /\ stored = {} /\ failed = {}

-----------------------------------------------------------------------------
(* TCPClient. *)

(* connect(): the "connect" event.  A refused connection leaves a client   *)
(* that never was connected, which is the initial state.                   *)
Connect ==
    /\ csocket = "new" /\ phase = "serving"
    /\ csocket' = "open" /\ connected' = TRUE
    /\ UNCHANGED <<kinds, outcome, pendingAcks, cbuffer, toServer, toClient, server, app>>

(* The "timeout" event while the connection is set up: destroy() gives no  *)
(* error, so only "close" follows, and the promise of connect() is never   *)
(* settled.                                                                *)
ConnectTimesOut ==
    /\ csocket = "new"
    /\ csocket' = "destroyed"
    /\ UNCHANGED <<connected, kinds, outcome, pendingAcks, cbuffer, toServer, toClient, server, app>>

(* ensureConnected, write and waitForAck are one step: nothing is awaited  *)
(* between them.  A write after end() fails and destroys the socket, and   *)
(* one on a destroyed socket is dropped; the caller waits all the same.    *)
Call(kind) ==
    /\ connected
    /\ Len(kinds) < MaxCommands
    /\ LET k == Len(kinds) + 1
       IN  /\ kinds' = Append(kinds, kind)
           /\ pendingAcks' = Append(pendingAcks, k)
           /\ toServer' = IF csocket = "open" THEN toServer \o Frame(k) ELSE toServer
    /\ csocket' = IF csocket = "open" THEN "open" ELSE "destroyed"
    /\ UNCHANGED <<connected, outcome, cbuffer, toClient, server, app>>

Put == Call("put")
EndStream == Call("end")

(* disconnect(), called by the user or by endStream once it is answered:   *)
(* the end of the stream follows what was written.  On a socket that is    *)
(* finished already the callback of end() runs at once.                    *)
Disconnect ==
    /\ connected
    /\ csocket' = IF csocket = "open" THEN "ending" ELSE csocket
    /\ connected' = (csocket \notin {"over", "destroyed"})
    /\ UNCHANGED <<kinds, outcome, pendingAcks, cbuffer, toServer, toClient, server, app>>

(* The callback of socket.end(): everything is written. *)
Disconnected ==
    /\ csocket = "ending"
    /\ csocket' = "ended" /\ connected' = FALSE
    /\ UNCHANGED <<kinds, outcome, pendingAcks, cbuffer, toServer, toClient, server, app>>

(* rejectAllPending. *)
RejectAllPending ==
    /\ outcome' = [k \in Commands |->
                     IF k \in ToSet(pendingAcks) THEN "lost" ELSE outcome[k]]
    /\ pendingAcks' = <<>>

(* The while loop of handleData settles one pending call per complete      *)
(* frame, the oldest first; a frame nobody waits for is dropped.           *)
Answered(parts) ==
    LET frames == Len(parts) \div FrameParts
        settled == IF frames < Len(pendingAcks) THEN frames ELSE Len(pendingAcks)
        answer(i) == IF parts[FrameParts * i] = "OK" THEN "ok" ELSE "refused"
    IN  /\ outcome' = [k \in Commands |->
              IF \E i \in 1..settled : pendingAcks[i] = k
              THEN answer(CHOOSE i \in 1..settled : pendingAcks[i] = k)
              ELSE outcome[k]]
        /\ pendingAcks' = From(pendingAcks, settled)
        /\ cbuffer' = From(parts, frames * FrameParts)

HandleData(n) ==
    /\ csocket \in {"open", "ending", "ended"}
    /\ n \in 1..Len(toClient)
    /\ Answered(cbuffer \o SubSeq(toClient, 1, n))
    /\ toClient' = From(toClient, n)
    /\ UNCHANGED <<csocket, connected, kinds, toServer, server, app>>

(* The server's end is read: the client's own end follows by itself. *)
ServerEnded ==
    /\ csocket \in {"open", "ending", "ended"}
    /\ ssocket \in {"ended", "over"} /\ toClient = <<>>
    /\ csocket' = "over"
    /\ UNCHANGED <<connected, kinds, outcome, pendingAcks, cbuffer, toServer, toClient, server, app>>

(* The connection turns out to be dead: the server destroyed its end, or   *)
(* stopped before it accepted the connection.                              *)
ServerLost ==
    /\ csocket \in {"open", "ending", "ended"}
    /\ \/ ssocket = "destroyed"
       \/ ssocket = "none" /\ phase # "serving"
    /\ csocket' = "destroyed"
    /\ UNCHANGED <<connected, kinds, outcome, pendingAcks, cbuffer, toServer, toClient, server, app>>

(* Mutant: The timeout rejects the callers and leaves the socket open. *)
TimeoutKeepsSocket ==
    /\ csocket \in {"open", "ending", "ended"}
    /\ csocket' = csocket
    /\ RejectAllPending
    /\ UNCHANGED <<connected, kinds, cbuffer, toServer, toClient, server, app>>

(* The "timeout" event.  Once disconnect() has set this.socket to null the *)
(* socket is not destroyed, only the callers are rejected.  After          *)
(* destroy() connected stays TRUE until the "close" event.                 *)
Timeout ==
    /\ csocket \in {"open", "ending", "ended"}
    /\ csocket' = IF csocket = "ended" THEN "ended" ELSE "destroyed"
    /\ RejectAllPending
    /\ UNCHANGED <<connected, kinds, cbuffer, toServer, toClient, server, app>>

(* Mutant: The "close" handler rejects nobody. *)
CloseQuietly ==
    /\ csocket \in {"over", "destroyed"}
    /\ csocket' = "closed" /\ connected' = FALSE
    /\ UNCHANGED <<kinds, outcome, pendingAcks, cbuffer, toServer, toClient, server, app>>

(* The "close" event, with the "error" event that comes right before it    *)
(* when there is one.                                                      *)
Close ==
    /\ csocket \in {"over", "destroyed"}
    /\ csocket' = "closed" /\ connected' = FALSE
    /\ RejectAllPending
    /\ UNCHANGED <<kinds, cbuffer, toServer, toClient, server, app>>

-----------------------------------------------------------------------------
(* TCPServer.  Its handlers run until the process exits, on a socket that  *)
(* is destroyed too.                                                       *)

Accept ==
    /\ phase = "serving" /\ ssocket = "none" /\ csocket # "new"
    /\ ssocket' = "open"
    /\ UNCHANGED <<client, toServer, toClient, paused, buffer, todo, cmd, app>>

(* Mutant: No socket.pause(): a chunk that arrives during a put starts the buffer  *)
(* over.                                                                   *)
ReceiveUnpaused(n) ==
    /\ phase # "exited"
    /\ ssocket \in {"open", "ended"}
    /\ n \in 1..Len(toServer)
    /\ paused' = TRUE
    /\ buffer' = buffer \o SubSeq(toServer, 1, n)
    /\ todo' = buffer'
    /\ toServer' = From(toServer, n)
    /\ UNCHANGED <<client, toClient, ssocket, cmd, app>>

(* The "data" handler up to its first await: pause, append, start. *)
Receive(n) ==
    /\ phase # "exited"
    /\ ssocket \in {"open", "ended"} /\ ~paused
    /\ n \in 1..Len(toServer)
    /\ paused' = TRUE
    /\ buffer' = buffer \o SubSeq(toServer, 1, n)
    /\ todo' = buffer'
    /\ toServer' = From(toServer, n)
    /\ UNCHANGED <<client, toClient, ssocket, cmd, app>>

(* processBuffer is at a complete message and waits for no other. *)
AtMessage(kind) ==
    /\ phase # "exited"
    /\ paused /\ cmd = 0
    /\ Len(todo) >= FrameParts
    /\ kinds[todo[1]] = kind

(* socket.write(serializeAck(..)).  A write after end() destroys the       *)
(* socket, and one on a destroyed socket is dropped.                       *)
Write(status) ==
    /\ toClient' = IF ssocket = "open" THEN toClient \o Frame(status) ELSE toClient
    /\ ssocket' = IF ssocket = "ended" THEN "destroyed" ELSE ssocket

(* handleStreamPut up to its await: store.put is called. *)
HandleStreamPut ==
    /\ AtMessage("put")
    /\ cmd' = todo[1]
    /\ handled' = Append(handled, todo[1])
    /\ UNCHANGED <<client, toServer, toClient, ssocket, paused, buffer, todo, phase, stored, failed>>

(* store.put returns or throws; a store that is closed only throws.  The   *)
(* answer is written and the message consumed.                             *)
PutSucceeds ==
    /\ phase # "exited" /\ cmd # 0
    /\ stored' = stored \union {cmd}
    /\ Write("OK")
    /\ cmd' = 0 /\ todo' = From(todo, FrameParts)
    /\ UNCHANGED <<client, toServer, paused, buffer, phase, handled, failed>>

(* Mutant: The error path of handleStreamPut writes no answer. *)
PutFailsSilently ==
    /\ phase # "exited" /\ cmd # 0
    /\ failed' = failed \union {cmd}
    /\ cmd' = 0 /\ todo' = From(todo, FrameParts)
    /\ UNCHANGED <<client, toServer, toClient, ssocket, paused, buffer, phase, handled, stored>>

PutFails ==
    /\ phase # "exited" /\ cmd # 0
    /\ failed' = failed \union {cmd}
    /\ Write("ERROR")
    /\ cmd' = 0 /\ todo' = From(todo, FrameParts)
    /\ UNCHANGED <<client, toServer, paused, buffer, phase, handled, stored>>

(* handleEndStream: the answer and the end of the server's half. *)
HandleEndStream ==
    /\ AtMessage("end")
    /\ handled' = Append(handled, todo[1])
    /\ toClient' = IF ssocket = "open" THEN toClient \o Frame("OK") ELSE toClient
    /\ ssocket' = CASE ssocket = "open"  -> "ended"
                    [] ssocket = "ended" -> "destroyed"
                    [] OTHER             -> ssocket
    /\ todo' = From(todo, FrameParts)
    /\ UNCHANGED <<client, toServer, paused, buffer, cmd, phase, stored, failed>>

(* No complete message is left: updateBuffer and resume. *)
ChunkDone ==
    /\ phase # "exited"
    /\ paused /\ cmd = 0 /\ Len(todo) < FrameParts
    /\ buffer' = todo /\ todo' = <<>>
    /\ paused' = FALSE
    /\ UNCHANGED <<client, toServer, toClient, ssocket, cmd, app>>

(* The client's end is read, after everything before it. *)
ClientEnded ==
    /\ ssocket \in {"open", "ended"} /\ ~paused /\ toServer = <<>>
    /\ csocket \in {"ending", "ended", "over"}
    /\ ssocket' = "over"
    /\ UNCHANGED <<client, toServer, toClient, paused, buffer, todo, cmd, app>>

(* The client's end is gone, or the network fails. *)
ConnectionLost ==
    /\ ssocket \in {"open", "ended"}
    /\ ssocket' = "destroyed"
    /\ UNCHANGED <<client, toServer, toClient, paused, buffer, todo, cmd, app>>

-----------------------------------------------------------------------------
(* shutdownApplication. *)

(* TCPServer.stop destroys the sockets and closes the server; it does not  *)
(* wait for the handlers.                                                  *)
Stop ==
    /\ phase = "serving"
    /\ phase' = "stopping"
    /\ ssocket' = IF ssocket \in {"open", "ended"} THEN "destroyed" ELSE ssocket
    /\ UNCHANGED <<client, toServer, toClient, paused, buffer, todo, cmd, handled, stored, failed>>

StoreClosed ==
    /\ phase = "stopping"
    /\ phase' = "closed"
    /\ UNCHANGED <<client, toServer, toClient, server, handled, stored, failed>>

Exit ==
    /\ phase = "closed"
    /\ phase' = "exited"
    /\ UNCHANGED <<client, toServer, toClient, server, handled, stored, failed>>

-----------------------------------------------------------------------------
Data == \E n \in 1..(FrameParts * MaxCommands) : HandleData(n)
Chunk == \E n \in 1..(FrameParts * MaxCommands) : Receive(n)

Next ==
    \/ Connect \/ ConnectTimesOut
    \/ Put \/ EndStream \/ Disconnect \/ Disconnected
    \/ Data \/ ServerEnded \/ ServerLost \/ Timeout \/ Close
    \/ Accept \/ Chunk \/ HandleStreamPut \/ PutSucceeds \/ PutFails
    \/ HandleEndStream \/ ChunkDone \/ ClientEnded \/ ConnectionLost
    \/ Stop \/ StoreClosed \/ Exit

(* The timer of the client's socket and the events that follow its death.  *)
(* The idle time of the timeout does elapse: the calls are finitely many.  *)
Fairness ==
    /\ WF_vars(Timeout)
    /\ WF_vars(Close)

Spec == Init /\ [][Next]_vars /\ Fairness

-----------------------------------------------------------------------------
(* Properties. *)

(* The server takes up every command once and in the order the client made *)
(* its calls, however the stream was cut and whatever arrived while it     *)
(* waited for the store: socket.pause() in the "data" handler and the      *)
(* buffer updateBuffer leaves behind.                                      *)
CommandsInOrder == \A i \in 1..Len(handled) : handled[i] = i

(* An answer reaches the call it answers: a put that succeeded was stored, *)
(* one that was refused was refused by the store, and endStream succeeds   *)
(* only when its own command was taken up.  pendingAcks.shift() rests on   *)
(* the server answering in order and on no answer outliving a timeout.     *)
AnswersMatch ==
    \A k \in Called :
        /\ outcome[k] = "ok" => IF kinds[k] = "put" THEN k \in stored
                                                    ELSE k \in ToSet(handled)
        /\ outcome[k] = "refused" => kinds[k] = "put" /\ k \in failed

(* While the connection is open every waiting call is owed exactly one     *)
(* answer: it is a command under way or not yet handled, or an answer      *)
(* under way or not yet parsed.  An error of the store is an answer too.   *)
AnswersOwed ==
    csocket = "open" /\ ssocket = "open" =>
        FrameParts * Len(pendingAcks) =
            Len(toServer) + Len(IF paused THEN todo ELSE buffer)
            + Len(toClient) + Len(cbuffer)

(* Every call settles: by its answer, by the timeout or by the end of the  *)
(* connection, also one made between destroy() and the "close" event.      *)
CallsSettle ==
    \A k \in Commands :
        (k \in ToSet(pendingAcks)) ~> (k \in Called /\ outcome[k] # "waiting")

=============================================================================
