--------------------------- MODULE TCPStreamProofs ---------------------------
(***************************************************************************)
(* The TCP stream keeps commands and answers together, for every number of *)
(* calls and however the connection cuts the stream: the server takes up   *)
(* the commands in the order of the calls, every call that waits is owed   *)
(* one answer, and an answer reaches the call it answers.                  *)
(***************************************************************************)
EXTENDS TCPStream, SequenceTheorems, TLAPS

(* What is left of a sequence. *)
LEMMA FromParts ==
    ASSUME NEW S, NEW s \in Seq(S), NEW n \in 0..Len(s)
    PROVE  /\ From(s, n) \in Seq(S)
           /\ Len(From(s, n)) = Len(s) - n
           /\ \A i \in 1..(Len(s) - n) : From(s, n)[i] = s[i + n]
<1>1. Len(s) \in Nat
  OBVIOUS
<1>2. \A i \in (n + 1)..Len(s) : s[i] \in S
  OBVIOUS
<1>3. From(s, n) \in Seq(S)
  BY <1>1, <1>2 DEF From
<1> QED
  BY <1>1, <1>3 DEF From

(* What was taken and what is left are the whole. *)
LEMMA CutTogether ==
    ASSUME NEW S, NEW s \in Seq(S), NEW n \in 0..Len(s)
    PROVE  /\ SubSeq(s, 1, n) \in Seq(S)
           /\ Len(SubSeq(s, 1, n)) = n
           /\ SubSeq(s, 1, n) \o From(s, n) = s
<1> DEFINE front == SubSeq(s, 1, n)
<1>1. front \in Seq(S) /\ Len(front) = n /\ \A i \in 1..n : front[i] = s[i]
  OBVIOUS
<1>2. From(s, n) \in Seq(S) /\ Len(From(s, n)) = Len(s) - n
  BY FromParts
<1>3. \A i \in 1..(Len(s) - n) : From(s, n)[i] = s[i + n]
  BY FromParts
<1> DEFINE back == From(s, n)
<1>4. back \in Seq(S) /\ Len(back) = Len(s) - n
      /\ \A i \in 1..(Len(s) - n) : back[i] = s[i + n]
  BY <1>2, <1>3
<1> HIDE DEF front, back
<1> DEFINE whole == front \o back
<1>5. /\ whole \in Seq(S) /\ Len(whole) = Len(s)
      /\ \A i \in 1..Len(s) :
            whole[i] = IF i <= n THEN front[i] ELSE back[i - n]
  BY <1>1, <1>4, ConcatProperties
<1> HIDE DEF whole
<1>6. \A i \in 1..Len(s) : whole[i] = s[i]
  BY <1>1, <1>4, <1>5
<1>7. whole = s
  BY <1>5, <1>6, SeqEqual
<1> QED
  BY <1>1, <1>7 DEF front, back, whole

(* Taking from the front leaves the rest alone. *)
LEMMA FromFront ==
    ASSUME NEW S, NEW s \in Seq(S), NEW t \in Seq(S), NEW n \in 0..Len(s)
    PROVE  From(s, n) \o t = From(s \o t, n)
<1> DEFINE whole == s \o t
           back == From(s, n)
           rest == From(whole, n)
<1>1. whole \in Seq(S) /\ Len(whole) = Len(s) + Len(t)
  OBVIOUS
<1>2. \A i \in 1..Len(whole) :
        whole[i] = IF i <= Len(s) THEN s[i] ELSE t[i - Len(s)]
  OBVIOUS
<1>3. back \in Seq(S) /\ Len(back) = Len(s) - n
      /\ \A i \in 1..(Len(s) - n) : back[i] = s[i + n]
  BY FromParts
<1> HIDE DEF whole
<1>4. n \in 0..Len(whole)
  BY <1>1
<1>5. rest \in Seq(S) /\ Len(rest) = Len(whole) - n
      /\ \A i \in 1..(Len(whole) - n) : rest[i] = whole[i + n]
  BY <1>1, <1>4, FromParts
<1> HIDE DEF back, rest
<1> DEFINE both == back \o t
<1>6. /\ both \in Seq(S) /\ Len(both) = Len(back) + Len(t)
      /\ \A i \in 1..(Len(back) + Len(t)) :
            both[i] = IF i <= Len(back) THEN back[i] ELSE t[i - Len(back)]
  BY <1>3, ConcatProperties
<1> HIDE DEF both
<1>7. Len(both) = Len(rest)
  BY <1>1, <1>3, <1>5, <1>6
<1>8. ASSUME NEW i \in 1..Len(both)
      PROVE  both[i] = rest[i]
  <2>1. rest[i] = IF i + n <= Len(s) THEN s[i + n] ELSE t[i + n - Len(s)]
    BY <1>1, <1>2, <1>5, <1>7
  <2>2. both[i] = IF i <= Len(s) - n THEN back[i] ELSE t[i - (Len(s) - n)]
    BY <1>3, <1>6
  <2>3. CASE i <= Len(s) - n
    BY <1>3, <2>1, <2>2, <2>3
  <2>4. CASE ~(i <= Len(s) - n)
    <3>1. i - (Len(s) - n) = i + n - Len(s) /\ ~(i + n <= Len(s))
      BY <1>6, <2>4
    <3> QED
      BY <2>1, <2>2, <2>4, <3>1
  <2> QED
    BY <2>3, <2>4
<1>9. both = rest
  BY <1>5, <1>6, <1>7, <1>8, SeqEqual
<1> QED
  BY <1>9 DEF back, rest, whole, both

(* Concatenation is associative. *)
LEMMA CatAssoc ==
    ASSUME NEW S, NEW s \in Seq(S), NEW t \in Seq(S), NEW u \in Seq(S)
    PROVE  /\ s \o t \in Seq(S) /\ t \o u \in Seq(S)
           /\ (s \o t) \o u = s \o (t \o u)
OBVIOUS

(* The sequences of a bounded length. *)
LEMMA Bounded ==
    ASSUME NEW S, NEW n \in Nat, NEW s
    PROVE  s \in BoundedSeq(S, n) <=> s \in Seq(S) /\ Len(s) <= n
<1>1. ASSUME s \in BoundedSeq(S, n)
      PROVE  s \in Seq(S) /\ Len(s) <= n
  <2>1. PICK m \in 0..n : s \in [1..m -> S]
    BY <1>1 DEF BoundedSeq, SeqOf
  <2> QED
    BY <2>1
<1>2. ASSUME s \in Seq(S), Len(s) <= n
      PROVE  s \in BoundedSeq(S, n)
  <2>1. Len(s) \in 0..n /\ s \in [1..Len(s) -> S]
    BY <1>2
  <2> QED
    BY <2>1 DEF BoundedSeq, SeqOf
<1> QED
  BY <1>1, <1>2

-----------------------------------------------------------------------------
(* Types *)

(* The commands called so far. *)
LEMMA KindsType ==
    ASSUME TypeOK
    PROVE  /\ kinds \in Seq({"put", "end"})
           /\ Len(kinds) \in 0..MaxCommands
<1>1. kinds \in BoundedSeq({"put", "end"}, MaxCommands) /\ MaxCommands \in Nat
  BY MaxCommandsAssumption DEF TypeOK
<1>2. kinds \in Seq({"put", "end"}) /\ Len(kinds) <= MaxCommands
  BY <1>1, Bounded
<1> QED
  BY <1>1, <1>2

(* The bytes in every buffer are typed. *)
LEMMA PartsType ==
    ASSUME TypeOK
    PROVE  /\ cbuffer \in Seq(Statuses) /\ toClient \in Seq(Statuses)
           /\ buffer \in Seq(Commands) /\ todo \in Seq(Commands)
           /\ toServer \in Seq(Commands) /\ handled \in Seq(Commands)
BY DEF TypeOK

(* Everything is typed at first. *)
LEMMA InitType == Init => TypeOK
<1> SUFFICES ASSUME Init PROVE TypeOK
  OBVIOUS
<1>1. kinds \in BoundedSeq({"put", "end"}, MaxCommands)
  <2>1. << >> \in Seq({"put", "end"}) /\ Len(<< >>) <= MaxCommands
    BY MaxCommandsAssumption
  <2>2. << >> \in BoundedSeq({"put", "end"}, MaxCommands)
    BY <2>1, MaxCommandsAssumption, Bounded
  <2> QED
    BY <2>2 DEF Init
<1>2. /\ {cbuffer, toClient} \subseteq Seq(Statuses)
      /\ {buffer, todo, toServer, handled} \subseteq Seq(Commands)
  BY DEF Init
<1> QED
  BY <1>1, <1>2 DEF Init, TypeOK

(* A frame put on the wire. *)
LEMMA FrameType ==
    ASSUME NEW S, NEW s \in Seq(S), NEW x \in S
    PROVE  /\ s \o Frame(x) \in Seq(S)
           /\ Len(s \o Frame(x)) = Len(s) + 2
           /\ \A i \in 1..Len(s) : (s \o Frame(x))[i] = s[i]
           /\ (s \o Frame(x))[Len(s) + 1] = x
           /\ (s \o Frame(x))[Len(s) + 2] = x
BY DEF Frame

(* Calls are typed. *)
LEMMA CallType == ASSUME TypeOK, NEW kind \in {"put", "end"}, Call(kind)
                  PROVE  TypeOK'
<1>1. Len(kinds) + 1 \in Commands /\ Len(kinds) < MaxCommands
  BY KindsType, MaxCommandsAssumption DEF Call, Commands
<1>2. kinds' \in BoundedSeq({"put", "end"}, MaxCommands)
  <2>1. kinds' = Append(kinds, kind)
    BY DEF Call
  <2>2. kinds' \in Seq({"put", "end"}) /\ Len(kinds') <= MaxCommands
    BY <1>1, <2>1, KindsType, MaxCommandsAssumption
  <2> QED
    BY <2>2, Bounded, MaxCommandsAssumption
<1>3. pendingAcks' \in Seq(Commands)
  BY <1>1 DEF Call, TypeOK
<1>4. toServer' \in Seq(Commands)
  BY <1>1, PartsType, FrameType DEF Call
<1>5. csocket' \in {"open", "destroyed"}
  BY DEF Call
<1> QED
  BY <1>2, <1>3, <1>4, <1>5 DEF Call, TypeOK, server, app

(* Answers are typed. *)
LEMMA HandleDataType == ASSUME TypeOK, NEW n, HandleData(n) PROVE TypeOK'
<1> DEFINE front == SubSeq(toClient, 1, n)
           parts == cbuffer \o front
           frames == Len(parts) \div FrameParts
<1>1. n \in 1..Len(toClient) /\ n \in 0..Len(toClient)
  BY PartsType DEF HandleData
<1>2. front \in Seq(Statuses) /\ From(toClient, n) \in Seq(Statuses)
  BY <1>1, PartsType, CutTogether, FromParts
<1>3. parts \in Seq(Statuses)
  BY <1>2, PartsType
<1> HIDE DEF parts
<1>4. frames \in Nat /\ frames * FrameParts \in 0..Len(parts)
  BY <1>3 DEF FrameParts
<1> DEFINE settled == IF frames < Len(pendingAcks) THEN frames
                                                   ELSE Len(pendingAcks)
<1>5. settled \in 0..Len(pendingAcks)
  BY <1>4 DEF TypeOK
<1>6. From(parts, frames * FrameParts) \in Seq(Statuses)
  BY <1>3, <1>4, FromParts
<1>7. From(pendingAcks, settled) \in Seq(Commands)
  <2>1. pendingAcks \in Seq(Commands)
    BY DEF TypeOK
  <2> QED
    BY <1>5, <2>1, FromParts
<1>8. Answered(parts)
  BY DEF HandleData, parts
<1>9. cbuffer' \in Seq(Statuses) /\ pendingAcks' \in Seq(Commands)
  BY <1>6, <1>7, <1>8 DEF Answered
<1>10. outcome' \in [Commands -> {"waiting", "ok", "refused", "lost"}]
  BY <1>8 DEF Answered, TypeOK
<1>11. toClient' \in Seq(Statuses)
  BY <1>2 DEF HandleData
<1>12. /\ UNCHANGED <<csocket, connected, kinds, toServer, server, app>>
  BY DEF HandleData
<1> QED
  BY <1>9, <1>10, <1>11, <1>12 DEF TypeOK, server, app

(* The server's data is typed. *)
LEMMA ReceiveType == ASSUME TypeOK, NEW n, Receive(n) PROVE TypeOK'
<1>1. n \in 0..Len(toServer)
  BY PartsType DEF Receive
<1>2. /\ SubSeq(toServer, 1, n) \in Seq(Commands)
      /\ From(toServer, n) \in Seq(Commands)
  BY <1>1, PartsType, CutTogether, FromParts
<1>3. buffer' \in Seq(Commands) /\ todo' = buffer'
  BY <1>2, PartsType DEF Receive
<1>4. toServer' \in Seq(Commands)
  BY <1>2 DEF Receive
<1>5. UNCHANGED <<client, toClient, ssocket, cmd, app>> /\ paused' = TRUE
  BY DEF Receive
<1> QED
  BY <1>3, <1>4, <1>5 DEF TypeOK, client, app

(* What is left of the buffer once a message is consumed. *)
LEMMA ConsumeType ==
    ASSUME TypeOK, Len(todo) >= FrameParts
    PROVE  /\ todo[1] \in Commands
           /\ From(todo, FrameParts) \in Seq(Commands)
<1>1. todo \in Seq(Commands)
  BY PartsType
<1>2. FrameParts \in 0..Len(todo) /\ 1 \in 1..Len(todo)
  BY <1>1 DEF FrameParts
<1> QED
  BY <1>1, <1>2, FromParts

(* An answer is typed. *)
LEMMA WriteType ==
    ASSUME TypeOK, NEW status \in Statuses, Write(status)
    PROVE  /\ toClient' \in Seq(Statuses)
           /\ ssocket' \in {"none", "open", "ended", "over", "destroyed"}
<1>1. toClient \o Frame(status) \in Seq(Statuses)
  BY PartsType, FrameType
<1> QED
  BY <1>1 DEF Write, TypeOK

(* A handler at work has its message in the buffer. *)
AtWork == cmd # 0 => Len(todo) >= FrameParts

(* The end of a put is typed. *)
LEMMA PutType ==
    ASSUME TypeOK, AtWork, PutSucceeds \/ PutFails
    PROVE  TypeOK'
<1>1. cmd # 0 /\ cmd \in Commands /\ Len(todo) >= FrameParts
  BY DEF AtWork, PutSucceeds, PutFails, TypeOK
<1>2. todo' \in Seq(Commands) /\ cmd' = 0
  BY <1>1, ConsumeType DEF PutSucceeds, PutFails
<1>3. stored' \subseteq Commands /\ failed' \subseteq Commands
  BY <1>1 DEF PutSucceeds, PutFails, TypeOK
<1>4. /\ toClient' \in Seq(Statuses)
      /\ ssocket' \in {"none", "open", "ended", "over", "destroyed"}
  BY WriteType DEF PutSucceeds, PutFails, Statuses
<1>5. UNCHANGED <<client, toServer, paused, buffer, phase, handled>>
  BY DEF PutSucceeds, PutFails
<1> QED
  BY <1>2, <1>3, <1>4, <1>5 DEF TypeOK, client

(* The end of the stream is typed. *)
LEMMA HandleEndStreamType == ASSUME TypeOK, HandleEndStream PROVE TypeOK'
<1>1. Len(todo) >= FrameParts
  BY DEF HandleEndStream, AtMessage
<1>2. todo[1] \in Commands /\ todo' \in Seq(Commands)
  BY <1>1, ConsumeType DEF HandleEndStream
<1>3. handled' \in Seq(Commands)
  BY <1>2, PartsType DEF HandleEndStream
<1>4. toClient \o Frame("OK") \in Seq(Statuses)
  BY PartsType, FrameType DEF Statuses
<1>5. toClient' \in Seq(Statuses)
  BY <1>4, PartsType DEF HandleEndStream
<1>6. ssocket' \in {"none", "open", "ended", "over", "destroyed"}
  BY DEF HandleEndStream, TypeOK
<1>7. UNCHANGED <<client, toServer, paused, buffer, cmd, phase, stored, failed>>
  BY DEF HandleEndStream
<1> QED
  BY <1>2, <1>3, <1>5, <1>6, <1>7 DEF TypeOK, client

(* Steps that only move what is there already. *)
LEMMA SocketType ==
    ASSUME TypeOK,
           \/ Connect \/ ConnectTimesOut
           \/ Disconnect \/ Disconnected \/ ServerEnded
           \/ ServerLost \/ Timeout \/ Close
           \/ Accept \/ ChunkDone \/ ClientEnded \/ ConnectionLost
           \/ Stop \/ StoreClosed \/ Exit
    PROVE  TypeOK'
<1>1. CASE \/ Connect \/ ConnectTimesOut \/ Disconnect \/ Disconnected
           \/ ServerEnded \/ ServerLost
  BY <1>1 DEF TypeOK, Connect, ConnectTimesOut, Disconnect, Disconnected,
              ServerEnded, ServerLost, server, app
<1>2. CASE Timeout \/ Close
  <2>1. outcome' \in [Commands -> {"waiting", "ok", "refused", "lost"}]
    BY <1>2 DEF TypeOK, Timeout, Close, RejectAllPending
  <2>2. pendingAcks' = << >>
    BY <1>2 DEF Timeout, Close, RejectAllPending
  <2>3. /\ csocket' \in {"ended", "destroyed", "closed"}
        /\ connected' \in BOOLEAN
    BY <1>2 DEF Timeout, Close, TypeOK
  <2>4. UNCHANGED <<kinds, cbuffer, toServer, toClient, server, app>>
    BY <1>2 DEF Timeout, Close
  <2> QED
    BY <2>1, <2>2, <2>3, <2>4 DEF TypeOK, server, app
<1>3. CASE ChunkDone
  <2>1. buffer' \in Seq(Commands) /\ todo' \in Seq(Commands)
    BY <1>3, PartsType DEF ChunkDone
  <2>2. paused' = FALSE
        /\ UNCHANGED <<client, toServer, toClient, ssocket, cmd, app>>
    BY <1>3 DEF ChunkDone
  <2> QED
    BY <2>1, <2>2 DEF TypeOK, client, app
<1>4. CASE Accept \/ ClientEnded \/ ConnectionLost \/ Stop \/ StoreClosed
           \/ Exit
  BY <1>4 DEF TypeOK, Accept, ClientEnded, ConnectionLost, Stop, StoreClosed,
              Exit, client, server, app
<1> QED
  BY <1>1, <1>2, <1>3, <1>4

(* Every step keeps the types. *)
LEMMA NextType == TypeOK /\ AtWork /\ [Next]_vars => TypeOK'
<1> SUFFICES ASSUME TypeOK, AtWork, [Next]_vars PROVE TypeOK'
  OBVIOUS
<1>1. CASE Put \/ EndStream
  BY <1>1, CallType DEF Put, EndStream
<1>2. CASE Data
  BY <1>2, HandleDataType DEF Data
<1>3. CASE Chunk
  BY <1>3, ReceiveType DEF Chunk
<1>4. CASE HandleStreamPut
  <2>1. todo[1] \in Commands
    BY <1>4, ConsumeType DEF HandleStreamPut, AtMessage
  <2>2. cmd' \in Commands /\ handled' \in Seq(Commands)
    BY <1>4, <2>1, PartsType DEF HandleStreamPut
  <2> QED
    BY <1>4, <2>2 DEF HandleStreamPut, TypeOK, client
<1>5. CASE PutSucceeds \/ PutFails
  BY <1>5, PutType
<1>6. CASE HandleEndStream
  BY <1>6, HandleEndStreamType
<1>7. CASE UNCHANGED vars
  BY <1>7 DEF TypeOK, vars, client, server, app
<1> QED
  BY <1>1, <1>2, <1>3, <1>4, <1>5, <1>6, <1>7, SocketType DEF Next

-----------------------------------------------------------------------------
(* The stream of commands *)

(* What the client has written and the server has not consumed.            *)
Unread == IF paused THEN todo ELSE buffer

Stream == Unread \o toServer

(* How many commands the server has consumed.                              *)
Consumed == Len(handled) - (IF cmd = 0 THEN 0 ELSE 1)

(* s is the frames of the m commands that follow command n.                *)
Framed(s, n, m) ==
    /\ Len(s) = 2 * m
    /\ \A f \in 1..m : s[2 * f - 1] = n + f /\ s[2 * f] = n + f

(* How the two sockets restrict what the handlers do.                      *)
Sockets ==
    /\ ~paused => cmd = 0
    /\ csocket = "ended" => ~connected
    /\ csocket = "new" => ~connected /\ kinds = << >>
    /\ ssocket = "none" => ~paused

(* The put that waits for the store is the last command taken up.          *)
PutUnderWay ==
    cmd # 0 => /\ Len(todo) >= FrameParts
               /\ cmd = Len(handled)
               /\ cmd \in Called
               /\ kinds[cmd] = "put"

(* The stream continues where the server is; while the client's socket is  *)
(* open it reaches to the last call.                                       *)
StreamGoesOn ==
    \E m \in Nat :
        /\ Framed(Stream, Consumed, m)
        /\ Consumed + m <= Len(kinds)
        /\ csocket \in {"new", "open"} => Consumed + m = Len(kinds)

StreamInv == Sockets /\ PutUnderWay /\ StreamGoesOn /\ CommandsInOrder

(* Types of the abbreviations. *)
LEMMA StreamType ==
    ASSUME TypeOK, PutUnderWay
    PROVE  /\ Unread \in Seq(Commands) /\ Stream \in Seq(Commands)
           /\ Consumed \in Nat
           /\ Len(handled) \in Nat
<1>1. Unread \in Seq(Commands)
  BY PartsType DEF Unread
<1>2. Stream \in Seq(Commands)
  BY <1>1, PartsType DEF Stream
<1>3. Len(handled) \in Nat /\ cmd \in {0} \cup Commands
  BY PartsType DEF TypeOK
<1>4. Consumed \in Nat
  BY <1>3 DEF Consumed, PutUnderWay, Commands
<1> QED
  BY <1>1, <1>2, <1>3, <1>4

(* A call puts the next frame at the end. *)
LEMMA FramedMore ==
    ASSUME NEW s \in Seq(Commands), NEW n \in Nat, NEW m \in Nat,
           Framed(s, n, m), n + m + 1 \in Commands
    PROVE  Framed(s \o Frame(n + m + 1), n, m + 1)
<1> DEFINE x == n + m + 1
           longer == s \o Frame(x)
<1>0. x \in Commands /\ x = n + m + 1
  OBVIOUS
<1> HIDE DEF x
<1>1. /\ Len(longer) = Len(s) + 2
      /\ \A i \in 1..Len(s) : longer[i] = s[i]
      /\ longer[Len(s) + 1] = x /\ longer[Len(s) + 2] = x
  BY <1>0 DEF Frame
<1> HIDE DEF longer
<1>2. Len(s) = 2 * m
  BY DEF Framed
<1>3. ASSUME NEW f \in 1..(m + 1)
      PROVE  longer[2 * f - 1] = n + f /\ longer[2 * f] = n + f
  <2>1. CASE f \in 1..m
    <3>1. 2 * f - 1 \in 1..Len(s) /\ 2 * f \in 1..Len(s)
      BY <1>2, <2>1
    <3>2. s[2 * f - 1] = n + f /\ s[2 * f] = n + f
      BY <2>1 DEF Framed
    <3> QED
      BY <1>1, <3>1, <3>2
  <2>2. CASE f = m + 1
    BY <1>0, <1>1, <1>2, <2>2
  <2> QED
    BY <2>1, <2>2
<1>4. Len(longer) = 2 * (m + 1)
  BY <1>1, <1>2
<1> QED
  BY <1>3, <1>4 DEF Framed, longer, x

(* The server consumes the first frame. *)
LEMMA FramedLess ==
    ASSUME NEW s \in Seq(Commands), NEW n \in Nat, NEW m \in Nat,
           Framed(s, n, m), Len(s) >= 2
    PROVE  /\ m - 1 \in Nat
           /\ s[1] = n + 1
           /\ Framed(From(s, 2), n + 1, m - 1)
<1>1. Len(s) = 2 * m /\ m >= 1 /\ m - 1 \in Nat
  BY DEF Framed
<1>2. s[1] = n + 1
  <2>1. 1 \in 1..m /\ 2 * 1 - 1 = 1
    BY <1>1
  <2> QED
    BY <2>1 DEF Framed
<1> DEFINE rest == From(s, 2)
<1>3. /\ Len(rest) = Len(s) - 2
      /\ \A i \in 1..(Len(s) - 2) : rest[i] = s[i + 2]
  BY FromParts
<1> HIDE DEF rest
<1>4. ASSUME NEW f \in 1..(m - 1)
      PROVE  rest[2 * f - 1] = n + 1 + f /\ rest[2 * f] = n + 1 + f
  <2>1. 2 * f - 1 \in 1..(Len(s) - 2) /\ 2 * f \in 1..(Len(s) - 2)
    BY <1>1
  <2>2. /\ rest[2 * f - 1] = s[2 * (f + 1) - 1]
        /\ rest[2 * f] = s[2 * (f + 1)]
    BY <1>3, <2>1
  <2>3. f + 1 \in 1..m
    BY <1>1
  <2>4. s[2 * (f + 1) - 1] = n + (f + 1) /\ s[2 * (f + 1)] = n + (f + 1)
    BY <2>3 DEF Framed
  <2> QED
    BY <2>2, <2>4
<1>5. Len(rest) = 2 * (m - 1)
  BY <1>1, <1>3
<1> QED
  BY <1>1, <1>2, <1>4, <1>5 DEF Framed, rest

(* A step that neither writes nor consumes a command. *)
LEMMA StreamStays ==
    ASSUME StreamGoesOn, Stream' = Stream, Consumed' = Consumed,
           kinds' = kinds,
           csocket' \in {"new", "open"} => csocket \in {"new", "open"}
    PROVE  StreamGoesOn'
<1>1. PICK m \in Nat :
        /\ Framed(Stream, Consumed, m)
        /\ Consumed + m <= Len(kinds)
        /\ csocket \in {"new", "open"} => Consumed + m = Len(kinds)
  BY DEF StreamGoesOn
<1>2. /\ Framed(Stream', Consumed', m)
      /\ Consumed' + m <= Len(kinds')
      /\ csocket' \in {"new", "open"} => Consumed' + m = Len(kinds')
  BY <1>1 DEF Framed
<1> QED
  BY <1>2 DEF StreamGoesOn, Framed

(* A call adds its command to the stream while the socket is open. *)
LEMMA CallStream ==
    ASSUME TypeOK, StreamInv, NEW kind \in {"put", "end"}, Call(kind)
    PROVE  StreamGoesOn'
<1> DEFINE k == Len(kinds) + 1
<1>1. PICK m \in Nat :
        /\ Framed(Stream, Consumed, m)
        /\ Consumed + m <= Len(kinds)
        /\ csocket \in {"new", "open"} => Consumed + m = Len(kinds)
  BY DEF StreamInv, StreamGoesOn
<1>2. /\ kinds' = Append(kinds, kind) /\ Len(kinds') = Len(kinds) + 1
      /\ k \in Commands /\ Len(kinds) \in Nat
  BY KindsType, MaxCommandsAssumption DEF Call, Commands
<1>3. Unread' = Unread /\ Consumed' = Consumed /\ Consumed \in Nat
      /\ Unread \in Seq(Commands) /\ Stream \in Seq(Commands)
  BY StreamType DEF StreamInv, Call, Unread, Consumed, server, app
<1>4. CASE csocket = "open"
  <2>1. toServer' = toServer \o Frame(k)
    BY <1>4 DEF Call
  <2>2. Stream' = Stream \o Frame(k)
    <3>1. Frame(k) \in Seq(Commands) /\ toServer \in Seq(Commands)
      BY <1>2, PartsType DEF Frame
    <3>2. Stream' = Unread \o (toServer \o Frame(k))
      BY <1>3, <2>1 DEF Stream
    <3> HIDE DEF k
    <3> QED
      BY <1>3, <3>1, <3>2, CatAssoc, SMTT(30) DEF Stream
  <2>3. k = Consumed + m + 1
    BY <1>1, <1>4
  <2>4. Framed(Stream \o Frame(k), Consumed, m + 1)
    <3> HIDE DEF k
    <3> QED
      BY <1>1, <1>2, <1>3, <2>3, FramedMore
  <2>5. Framed(Stream', Consumed', m + 1)
    BY <1>3, <2>2, <2>4
  <2>6. Consumed' + (m + 1) = Len(kinds')
    <3>1. Consumed + (m + 1) = Len(kinds) + 1
      BY <1>2, <1>3, <2>3
    <3> QED
      BY <1>2, <1>3, <3>1
  <2>7. m + 1 \in Nat
    OBVIOUS
  <2>8. Consumed' + (m + 1) <= Len(kinds')
    BY <1>2, <2>6
  <2> QED
    BY <2>5, <2>6, <2>7, <2>8 DEF StreamGoesOn, Framed
<1>5. CASE csocket # "open"
  <2>1. toServer' = toServer /\ csocket' = "destroyed"
    BY <1>5 DEF Call
  <2>2. Stream' = Stream
    BY <1>3, <2>1 DEF Stream
  <2>3. Framed(Stream', Consumed', m) /\ Consumed' + m <= Len(kinds')
    BY <1>1, <1>2, <1>3, <2>2
  <2> QED
    BY <2>1, <2>3 DEF StreamGoesOn, Framed
<1> QED
  BY <1>4, <1>5

(* The message at the head of the buffer is the next command. *)
LEMMA NextCommand ==
    ASSUME TypeOK, StreamInv, paused, Len(todo) >= FrameParts
    PROVE  /\ todo[1] = Consumed + 1
           /\ Consumed + 1 <= Len(kinds)
<1>1. PICK m \in Nat :
        Framed(Stream, Consumed, m) /\ Consumed + m <= Len(kinds)
  BY DEF StreamInv, StreamGoesOn
<1>2. Unread = todo /\ todo \in Seq(Commands) /\ toServer \in Seq(Commands)
  BY PartsType DEF Unread
<1>3. Len(Stream) >= 2 /\ Stream[1] = todo[1]
  BY <1>2 DEF Stream, FrameParts
<1>4. Stream \in Seq(Commands) /\ Consumed \in Nat
  BY StreamType DEF StreamInv
<1>5. m - 1 \in Nat /\ Stream[1] = Consumed + 1
  BY <1>1, <1>3, <1>4, FramedLess
<1>6. Len(kinds) \in Nat
  BY KindsType
<1> QED
  BY <1>1, <1>3, <1>4, <1>5, <1>6

(* A step that consumes the message at the head of the buffer. *)
LEMMA ConsumeStream ==
    ASSUME TypeOK, StreamInv, paused, paused' = paused,
           Len(todo) >= FrameParts, todo' = From(todo, FrameParts),
           Consumed' = Consumed + 1,
           UNCHANGED <<toServer, kinds, csocket>>
    PROVE  StreamGoesOn'
<1>1. PICK m \in Nat :
        /\ Framed(Stream, Consumed, m)
        /\ Consumed + m <= Len(kinds)
        /\ csocket \in {"new", "open"} => Consumed + m = Len(kinds)
  BY DEF StreamInv, StreamGoesOn
<1>2. Unread = todo /\ todo \in Seq(Commands) /\ toServer \in Seq(Commands)
  BY PartsType DEF Unread
<1>3. 2 \in 0..Len(todo)
  BY <1>2 DEF FrameParts
<1>4. Stream' = From(Stream, 2)
  <2>1. Stream' = From(todo, 2) \o toServer
    BY DEF Stream, Unread, FrameParts
  <2> QED
    BY <1>2, <1>3, <2>1, FromFront DEF Stream
<1>5. Stream \in Seq(Commands) /\ Consumed \in Nat
  BY StreamType DEF StreamInv
<1>6. Len(Stream) >= 2
  BY <1>2, <1>3 DEF Stream
<1>7. m - 1 \in Nat /\ Framed(From(Stream, 2), Consumed + 1, m - 1)
  BY <1>1, <1>5, <1>6, FramedLess
<1>8. Framed(Stream', Consumed', m - 1)
  BY <1>4, <1>7
<1>9. Len(kinds) \in Nat
  BY KindsType
<1>10. /\ Consumed' + (m - 1) <= Len(kinds')
       /\ csocket' \in {"new", "open"} => Consumed' + (m - 1) = Len(kinds')
  BY <1>1, <1>5, <1>7, <1>9
<1> QED
  BY <1>7, <1>8, <1>10 DEF StreamGoesOn, Framed

(* The restrictions on the sockets survive every step. *)
LEMMA NextSockets == TypeOK /\ Sockets /\ [Next]_vars => Sockets'
<1> SUFFICES ASSUME TypeOK, Sockets, [Next]_vars PROVE Sockets'
  OBVIOUS
<1>1. CASE \/ Put \/ EndStream \/ Connect \/ ConnectTimesOut \/ Disconnect
           \/ Disconnected
  BY <1>1 DEF Sockets, Put, EndStream, Call, Connect, ConnectTimesOut,
              Disconnect, Disconnected, server, app
<1>2. CASE Data \/ ServerEnded \/ ServerLost \/ Timeout \/ Close
  BY <1>2 DEF Sockets, Data, HandleData, ServerEnded, ServerLost, Timeout,
              Close, server
<1>3. CASE Accept \/ Chunk \/ HandleStreamPut \/ ChunkDone \/ ClientEnded
           \/ ConnectionLost
  BY <1>3 DEF Sockets, Accept, Chunk, Receive, HandleStreamPut, AtMessage,
              ChunkDone, ClientEnded, ConnectionLost, client
<1>4. CASE PutSucceeds \/ PutFails \/ HandleEndStream
  BY <1>4 DEF Sockets, PutSucceeds, PutFails, HandleEndStream, AtMessage,
              Write, client
<1>5. CASE Stop \/ StoreClosed \/ Exit \/ UNCHANGED vars
  BY <1>5 DEF Sockets, Stop, StoreClosed, Exit, vars, client, server, app
<1> QED
  BY <1>1, <1>2, <1>3, <1>4, <1>5 DEF Next

(* Everything is in order at first. *)
LEMMA InitStream == Init => StreamInv
<1> SUFFICES ASSUME Init PROVE StreamInv
  OBVIOUS
<1>1. Stream = << >> /\ Consumed = 0 /\ kinds = << >>
  BY DEF Init, Stream, Unread, Consumed
<1>2. Framed(Stream, Consumed, 0) /\ Consumed + 0 = Len(kinds)
  BY <1>1 DEF Framed
<1>3. StreamGoesOn
  BY <1>2 DEF StreamGoesOn
<1>4. Sockets /\ PutUnderWay /\ CommandsInOrder
  BY DEF Init, Sockets, PutUnderWay, CommandsInOrder
<1> QED
  BY <1>3, <1>4 DEF StreamInv

(* The handler takes up a command. *)
LEMMA TakesUpNext ==
    ASSUME TypeOK, StreamInv, NEW kind, AtMessage(kind),
           handled' = Append(handled, todo[1])
    PROVE  /\ todo[1] = Len(handled) + 1
           /\ todo[1] \in Called
           /\ Len(handled') = Len(handled) + 1
           /\ CommandsInOrder'
<1>1. paused /\ cmd = 0 /\ Len(todo) >= FrameParts
  BY DEF AtMessage
<1>2. todo[1] = Consumed + 1 /\ Consumed + 1 <= Len(kinds)
  BY <1>1, NextCommand
<1>3. Consumed = Len(handled) /\ Len(handled) \in Nat
  BY <1>1, PartsType DEF Consumed
<1>4. handled \in Seq(Commands) /\ todo[1] \in Commands
  BY <1>1, PartsType, ConsumeType
<1> DEFINE next == todo[1]
           longer == Append(handled, next)
<1> HIDE DEF next
<1>5. /\ Len(longer) = Len(handled) + 1
      /\ \A i \in 1..Len(handled) : longer[i] = handled[i]
      /\ longer[Len(handled) + 1] = next
  BY <1>4 DEF next
<1>6. handled' = longer
  BY DEF next
<1> HIDE DEF longer
<1>7. \A i \in 1..Len(handled) : handled[i] = i
  BY DEF StreamInv, CommandsInOrder
<1>8. next = Len(handled) + 1
  BY <1>2, <1>3 DEF next
<1>9. \A i \in 1..Len(longer) : longer[i] = i
  BY <1>3, <1>5, <1>7, <1>8
<1>10. next \in Called
  BY <1>2, <1>3, <1>8, KindsType DEF Called
<1> QED
  BY <1>5, <1>6, <1>8, <1>9, <1>10 DEF CommandsInOrder, next

(* A step that leaves the server's handler and its buffers alone. *)
LEMMA HandlerRests ==
    ASSUME StreamInv,
           UNCHANGED <<kinds, toServer, paused, buffer, todo, cmd, handled>>,
           csocket' \in {"new", "open"} => csocket \in {"new", "open"}
    PROVE  PutUnderWay' /\ StreamGoesOn' /\ CommandsInOrder'
<1>1. Stream' = Stream /\ Consumed' = Consumed
  BY DEF Stream, Unread, Consumed
<1>2. StreamGoesOn'
  BY <1>1, StreamStays DEF StreamInv
<1> QED
  BY <1>2 DEF StreamInv, PutUnderWay, CommandsInOrder, Called

(* A chunk moves from the connection to the buffer. *)
LEMMA ReceiveStream ==
    ASSUME TypeOK, StreamInv, NEW n, Receive(n)
    PROVE  Stream' = Stream
<1>1. n \in 0..Len(toServer) /\ buffer \in Seq(Commands)
      /\ toServer \in Seq(Commands)
  BY PartsType DEF Receive
<1> DEFINE front == SubSeq(toServer, 1, n)
           back == From(toServer, n)
<1>2. front \in Seq(Commands) /\ back \in Seq(Commands)
      /\ front \o back = toServer
  BY <1>1, CutTogether, FromParts
<1>3. Stream' = (buffer \o front) \o back
  BY DEF Receive, Stream, Unread
<1>4. Stream = buffer \o toServer
  BY DEF Receive, Stream, Unread
<1> HIDE DEF front, back
<1>5. ASSUME NEW f \in Seq(Commands), NEW b \in Seq(Commands)
      PROVE  (buffer \o f) \o b = buffer \o (f \o b)
  BY <1>1, CatAssoc, SMTT(30)
<1> QED
  BY <1>2, <1>3, <1>4, <1>5

(* The stream of commands survives every step. *)
LEMMA NextStream == TypeOK /\ StreamInv /\ [Next]_vars => StreamInv'
<1> SUFFICES ASSUME TypeOK, StreamInv, [Next]_vars PROVE StreamInv'
  OBVIOUS
<1>1. Sockets'
  BY NextSockets DEF StreamInv
<1>2. CASE Put \/ EndStream
  <2>1. PICK kind \in {"put", "end"} : Call(kind)
    BY <1>2 DEF Put, EndStream
  <2>2. StreamGoesOn'
    BY <2>1, CallStream
  <2>3. kinds' = Append(kinds, kind) /\ UNCHANGED <<todo, cmd, handled>>
    BY <2>1 DEF Call, server, app
  <2>4. PutUnderWay'
    BY <2>3, KindsType DEF StreamInv, PutUnderWay, Called
  <2> QED
    BY <1>1, <2>2, <2>3, <2>4 DEF StreamInv, CommandsInOrder
<1>3. CASE \/ Connect \/ ConnectTimesOut
           \/ Disconnect \/ Disconnected \/ Data \/ ServerEnded
           \/ ServerLost \/ Timeout \/ Close
           \/ Accept \/ ClientEnded \/ ConnectionLost
           \/ Stop \/ StoreClosed \/ Exit \/ UNCHANGED vars
  <2>1. UNCHANGED <<kinds, toServer, paused, buffer, todo, cmd, handled>>
    BY <1>3 DEF Connect, ConnectTimesOut, Disconnect, Disconnected, Data,
                HandleData, ServerEnded, ServerLost, Timeout, Close, Accept,
                ClientEnded, ConnectionLost, Stop, StoreClosed, Exit, vars,
                client, server, app
  <2>2. csocket' \in {"new", "open"} => csocket \in {"new", "open"}
    BY <1>3 DEF Connect, ConnectTimesOut, Disconnect, Disconnected, Data,
                HandleData, ServerEnded, ServerLost, Timeout, Close, Accept,
                ClientEnded, ConnectionLost, Stop, StoreClosed, Exit, vars,
                client
  <2> QED
    BY <1>1, <2>1, <2>2, HandlerRests DEF StreamInv
<1>4. CASE Chunk
  <2>1. PICK n : Receive(n)
    BY <1>4 DEF Chunk
  <2>2. Stream' = Stream
    BY <2>1, ReceiveStream
  <2>3. cmd = 0 /\ UNCHANGED <<csocket, kinds, cmd, handled>>
    BY <2>1 DEF Receive, client, app, StreamInv, Sockets
  <2>4. StreamGoesOn'
    BY <2>2, <2>3, StreamStays DEF StreamInv, Consumed
  <2> QED
    BY <1>1, <2>3, <2>4 DEF StreamInv, PutUnderWay, CommandsInOrder
<1>5. CASE ChunkDone
  <2>1. /\ cmd = 0 /\ UNCHANGED <<csocket, kinds, cmd, handled, toServer>>
        /\ Unread' = Unread
    BY <1>5 DEF ChunkDone, client, app, Unread
  <2>2. StreamGoesOn'
    BY <2>1, StreamStays DEF StreamInv, Consumed, Stream
  <2> QED
    BY <1>1, <2>1, <2>2 DEF StreamInv, PutUnderWay, CommandsInOrder
<1>6. CASE HandleStreamPut
  <2>1. /\ AtMessage("put") /\ handled' = Append(handled, todo[1])
        /\ cmd' = todo[1]
        /\ UNCHANGED <<csocket, kinds, paused, buffer, todo, toServer>>
    BY <1>6 DEF HandleStreamPut, client
  <2>2. /\ todo[1] = Len(handled) + 1 /\ todo[1] \in Called
        /\ Len(handled') = Len(handled) + 1 /\ CommandsInOrder'
    BY <2>1, TakesUpNext
  <2>3. /\ cmd = 0 /\ Len(todo) >= FrameParts /\ kinds[todo[1]] = "put"
        /\ Len(handled) \in Nat
    BY <2>1, PartsType DEF AtMessage
  <2>4. Consumed' = Consumed /\ Stream' = Stream
    BY <2>1, <2>2, <2>3 DEF Consumed, Stream, Unread
  <2>5. StreamGoesOn'
    BY <2>1, <2>4, StreamStays DEF StreamInv
  <2>6. PutUnderWay'
    BY <2>1, <2>2, <2>3 DEF PutUnderWay, Called
  <2> QED
    BY <1>1, <2>2, <2>5, <2>6 DEF StreamInv
<1>7. CASE PutSucceeds \/ PutFails
  <2>1. /\ cmd # 0 /\ cmd' = 0 /\ todo' = From(todo, FrameParts)
        /\ UNCHANGED <<csocket, kinds, toServer, paused, handled>>
    BY <1>7 DEF PutSucceeds, PutFails, client
  <2>2. paused /\ Len(todo) >= FrameParts
    BY <2>1 DEF StreamInv, Sockets, PutUnderWay, TypeOK
  <2>3. Consumed' = Consumed + 1
    BY <2>1, PartsType DEF Consumed
  <2>4. StreamGoesOn'
    BY <2>1, <2>2, <2>3, ConsumeStream
  <2> QED
    BY <1>1, <2>1, <2>4 DEF StreamInv, PutUnderWay, CommandsInOrder
<1>8. CASE HandleEndStream
  <2>1. /\ AtMessage("end") /\ handled' = Append(handled, todo[1])
        /\ todo' = From(todo, FrameParts)
        /\ UNCHANGED <<csocket, kinds, toServer, paused, cmd>>
    BY <1>8 DEF HandleEndStream, client
  <2>2. Len(handled') = Len(handled) + 1 /\ CommandsInOrder'
    BY <2>1, TakesUpNext
  <2>3. paused /\ cmd = 0 /\ Len(todo) >= FrameParts
    BY <2>1 DEF AtMessage
  <2>4. Consumed' = Consumed + 1
    BY <2>1, <2>2, <2>3 DEF Consumed
  <2>5. StreamGoesOn'
    BY <2>1, <2>3, <2>4, ConsumeStream
  <2> QED
    BY <1>1, <2>1, <2>2, <2>3, <2>5 DEF StreamInv, PutUnderWay
<1> QED
  BY <1>2, <1>3, <1>4, <1>5, <1>6, <1>7, <1>8 DEF Next

(* The types and the stream together are inductive. *)
LEMMA StreamHolds == Spec => [](TypeOK /\ StreamInv)
<1>1. Init => TypeOK /\ StreamInv
  BY InitType, InitStream
<1>2. (TypeOK /\ StreamInv) /\ [Next]_vars => (TypeOK /\ StreamInv)'
  <2> SUFFICES ASSUME TypeOK, StreamInv, [Next]_vars
               PROVE  (TypeOK /\ StreamInv)'
    OBVIOUS
  <2>1. AtWork
    BY DEF StreamInv, PutUnderWay, AtWork
  <2> QED
    BY <2>1, NextType, NextStream
<1> QED
  BY <1>1, <1>2, PTL DEF Spec

(* The server takes up every command once, in the order of the calls.      *)
THEOREM ServedInOrder == Spec => []CommandsInOrder
<1>1. StreamInv => CommandsInOrder
  BY DEF StreamInv
<1> QED
  BY <1>1, StreamHolds, PTL

-----------------------------------------------------------------------------
(* The stream of answers *)

(* What the server has answered and the client has not parsed.             *)
Answers == cbuffer \o toClient

(* How many calls the client has settled.                                  *)
Settled == Len(kinds) - Len(pendingAcks)

(* What status says of command k is true. *)
Right(status, k) ==
    IF status = "OK"
    THEN IF kinds[k] = "put" THEN k \in stored ELSE k \in ToSet(handled)
    ELSE kinds[k] = "put" /\ k \in failed

(* Bytes from the server may still settle a call.                          *)
Listens == \/ csocket \in {"new", "open", "ending"}
           \/ csocket = "ended" /\ pendingAcks # << >>

(* The answers under way are r, true, and for the oldest calls that wait;  *)
(* while the server's socket is open they reach to its last command.       *)
AnswersReach(r) ==
    /\ Len(Answers) = 2 * r
    /\ Settled + r <= Consumed
    /\ ssocket \in {"none", "open"} => Settled + r = Consumed
    /\ \A f \in 1..r : Right(Answers[2 * f], Settled + f)

PendingInOrder ==
    /\ Len(pendingAcks) <= Len(kinds)
    /\ \A i \in DOMAIN pendingAcks : pendingAcks[i] = Settled + i

AnswersGoOn == Listens => PendingInOrder /\ \E r \in Nat : AnswersReach(r)

(* No call is answered before it is made. *)
Uncalled ==
    \A k \in Commands : k > Len(kinds) => outcome[k] \in {"waiting", "lost"}

AnswerInv == AnswersGoOn /\ AnswersMatch /\ Uncalled

(* Types of the abbreviations. *)
LEMMA AnswersType ==
    ASSUME TypeOK, PendingInOrder
    PROVE  /\ Answers \in Seq(Statuses)
           /\ Settled \in Nat
           /\ Len(kinds) \in Nat /\ Len(pendingAcks) \in Nat
           /\ Settled + Len(pendingAcks) = Len(kinds)
<1>1. Answers \in Seq(Statuses)
  BY PartsType DEF Answers
<1>2. Len(kinds) \in Nat /\ Len(pendingAcks) \in Nat
  BY KindsType DEF TypeOK
<1>3. Settled \in Nat /\ Settled + Len(pendingAcks) = Len(kinds)
  BY <1>2 DEF Settled, PendingInOrder
<1> QED
  BY <1>1, <1>2, <1>3

(* The answers at first. *)
LEMMA InitAnswer == Init => AnswerInv
<1> SUFFICES ASSUME Init PROVE AnswerInv
  OBVIOUS
<1>1. /\ Answers = << >> /\ Settled = 0 /\ Consumed = 0
      /\ pendingAcks = << >> /\ kinds = << >> /\ Len(kinds) = 0
  BY DEF Init, Answers, Settled, Consumed
<1>2. AnswersReach(0)
  BY <1>1 DEF AnswersReach
<1>3. PendingInOrder
  BY <1>1 DEF PendingInOrder
<1>4. Uncalled
  BY DEF Init, Uncalled
<1>5. AnswersMatch
  BY <1>1 DEF AnswersMatch, Called
<1>6. AnswersGoOn
  BY <1>2, <1>3 DEF AnswersGoOn
<1> QED
  BY <1>4, <1>5, <1>6 DEF AnswerInv

(* The history of the server only grows. *)
LEMMA HistoryGrows ==
    ASSUME TypeOK, StreamInv, [Next]_vars
    PROVE  /\ stored \subseteq stored' /\ failed \subseteq failed'
           /\ ToSet(handled) \subseteq ToSet(handled')
<1>1. stored \subseteq stored' /\ failed \subseteq failed'
  BY DEF Next, Connect, ConnectTimesOut, Put, EndStream, Call, Disconnect,
         Disconnected, Data, HandleData, ServerEnded, ServerLost, Timeout,
         Close, Accept, Chunk, Receive, HandleStreamPut, PutSucceeds,
         PutFails, HandleEndStream, ChunkDone, ClientEnded, ConnectionLost,
         Stop, StoreClosed, Exit, vars, app
<1>2. handled' = handled \/ handled' = Append(handled, todo[1])
  BY DEF Next, Connect, ConnectTimesOut, Put, EndStream, Call, Disconnect,
         Disconnected, Data, HandleData, ServerEnded, ServerLost, Timeout,
         Close, Accept, Chunk, Receive, HandleStreamPut, PutSucceeds,
         PutFails, HandleEndStream, ChunkDone, ClientEnded, ConnectionLost,
         Stop, StoreClosed, Exit, vars, app
<1>3. ToSet(handled) \subseteq ToSet(handled')
  <2>1. CASE handled' = handled
    BY <2>1
  <2>2. CASE handled' = Append(handled, todo[1])
    <3> DEFINE last == todo[1]
               longer == Append(handled, last)
    <3> HIDE DEF last
    <3>1. handled \in Seq(Commands)
      BY PartsType
    <3>2. \A i \in DOMAIN handled : i \in DOMAIN longer /\ longer[i] = handled[i]
      BY <3>1
    <3>3. handled' = longer
      BY <2>2 DEF last
    <3> HIDE DEF longer
    <3> QED
      BY <3>2, <3>3 DEF ToSet
  <2> QED
    BY <1>2, <2>1, <2>2
<1> QED
  BY <1>1, <1>3

(* What was true of a called command stays true. *)
LEMMA RightStays ==
    ASSUME TypeOK, StreamInv, [Next]_vars, NEW status, NEW k \in Called,
           Right(status, k), kinds'[k] = kinds[k]
    PROVE  Right(status, k)'
BY HistoryGrows DEF Right

(* The kind of a call never changes. *)
LEMMA KindsGrow ==
    ASSUME TypeOK, [Next]_vars
    PROVE  /\ \A k \in Called : kinds'[k] = kinds[k]
           /\ \/ kinds' = kinds
              \/ Len(kinds') = Len(kinds) + 1 /\ (Put \/ EndStream)
<1>1. kinds \in Seq({"put", "end"})
  BY KindsType
<1>2. CASE Put \/ EndStream
  <2>1. PICK kind \in {"put", "end"} : kinds' = Append(kinds, kind)
    BY <1>2 DEF Put, EndStream, Call
  <2> QED
    BY <1>1, <1>2, <2>1 DEF Called
<1>3. CASE ~(Put \/ EndStream)
  BY <1>3 DEF Next, Connect, ConnectTimesOut, Disconnect, Disconnected, Data,
              HandleData, ServerEnded, ServerLost, Timeout, Close, Accept,
              Chunk, Receive, HandleStreamPut, PutSucceeds, PutFails,
              HandleEndStream, ChunkDone, ClientEnded, ConnectionLost, Stop,
              StoreClosed, Exit, vars, client
<1> QED
  BY <1>2, <1>3

(* Answers under way belong to commands that were called. *)
LEMMA AnswersCalled ==
    ASSUME TypeOK, StreamInv, PendingInOrder, NEW r \in Nat, AnswersReach(r)
    PROVE  /\ r <= Len(pendingAcks)
           /\ \A f \in 1..r : Settled + f \in Called
<1>1. PICK m \in Nat : Consumed + m <= Len(kinds)
  BY DEF StreamInv, StreamGoesOn
<1>2. Consumed \in Nat
  BY StreamType DEF StreamInv
<1>3. Settled + r <= Len(kinds)
  BY <1>1, <1>2, AnswersType DEF AnswersReach
<1> QED
  BY <1>3, AnswersType DEF Called

(* A step that neither writes nor parses an answer. *)
LEMMA AnswersStay ==
    ASSUME TypeOK, StreamInv, AnswersGoOn, [Next]_vars,
           UNCHANGED <<cbuffer, toClient, pendingAcks, kinds>>,
           Consumed' = Consumed,
           ssocket' \in {"none", "open"} => ssocket \in {"none", "open"},
           Listens' => Listens
    PROVE  AnswersGoOn'
<1> SUFFICES ASSUME Listens'
             PROVE  PendingInOrder' /\ \E r \in Nat : AnswersReach(r)'
  BY DEF AnswersGoOn
<1>1. PendingInOrder /\ \E r \in Nat : AnswersReach(r)
  BY DEF AnswersGoOn
<1>2. PICK r \in Nat : AnswersReach(r)
  BY <1>1
<1>3. Settled' = Settled /\ Answers' = Answers
  BY DEF Settled, Answers
<1>4. PendingInOrder'
  BY <1>1, <1>3 DEF PendingInOrder
<1>5. ASSUME NEW f \in 1..r
      PROVE  Right(Answers[2 * f], Settled + f)'
  <2>1. Right(Answers[2 * f], Settled + f) /\ Settled + f \in Called
    BY <1>1, <1>2, AnswersCalled DEF AnswersReach
  <2>2. Right(Answers[2 * f], Settled + f)'
    BY <2>1, <1>3, HistoryGrows DEF Right
  <2> QED
    BY <2>2
<1>6. AnswersReach(r)'
  BY <1>2, <1>3, <1>5 DEF AnswersReach
<1> QED
  BY <1>4, <1>6

(* A new call waits behind the others. *)
LEMMA CallAnswers ==
    ASSUME TypeOK, StreamInv, AnswersGoOn, [Next]_vars, NEW kind, Call(kind)
    PROVE  AnswersGoOn'
<1>1. CASE csocket # "open"
  <2>1. csocket' = "destroyed"
    BY <1>1 DEF Call
  <2> QED
    BY <2>1 DEF AnswersGoOn, Listens
<1>2. CASE csocket = "open"
  <2>1. PendingInOrder /\ \E r \in Nat : AnswersReach(r)
    BY <1>2 DEF AnswersGoOn, Listens
  <2>2. PICK r \in Nat : AnswersReach(r)
    BY <2>1
  <2> DEFINE k == Len(kinds) + 1
  <2>3. k = Settled + (Len(pendingAcks) + 1) /\ k \in Nat
    BY <2>1, AnswersType
  <2>4. /\ pendingAcks' = Append(pendingAcks, k)
        /\ kinds' = Append(kinds, kind)
        /\ UNCHANGED <<cbuffer, toClient, ssocket, handled, cmd>>
    BY DEF Call, server, app
  <2> HIDE DEF k
  <2>5. pendingAcks \in Seq(Commands) /\ kinds \in Seq({"put", "end"})
    BY KindsType DEF TypeOK
  <2>6. /\ Len(pendingAcks') = Len(pendingAcks) + 1
        /\ Len(kinds') = Len(kinds) + 1
        /\ \A i \in 1..Len(pendingAcks) : pendingAcks'[i] = pendingAcks[i]
        /\ pendingAcks'[Len(pendingAcks) + 1] = k
    BY <2>3, <2>4, <2>5
  <2>7. Settled' = Settled /\ Answers' = Answers /\ Consumed' = Consumed
    BY <2>1, <2>4, <2>6, AnswersType DEF Settled, Answers, Consumed
  <2>8. PendingInOrder'
    <3>1. Len(pendingAcks') <= Len(kinds')
      BY <2>1, <2>6, AnswersType DEF PendingInOrder
    <3>2. \A i \in 1..Len(pendingAcks) : pendingAcks[i] = Settled + i
      BY <2>1, <2>5 DEF PendingInOrder
    <3>3. ASSUME NEW i \in 1..(Len(pendingAcks) + 1)
          PROVE  pendingAcks'[i] = Settled' + i
      <4>1. CASE i \in 1..Len(pendingAcks)
        BY <2>6, <2>7, <3>2, <4>1
      <4>2. CASE i = Len(pendingAcks) + 1
        BY <2>3, <2>6, <2>7, <4>2
      <4> QED
        BY <2>5, <4>1, <4>2
    <3>4. DOMAIN pendingAcks' = 1..(Len(pendingAcks) + 1)
      BY <2>3, <2>4, <2>5
    <3> QED
      BY <3>1, <3>3, <3>4 DEF PendingInOrder
  <2>9. ASSUME NEW f \in 1..r
        PROVE  Right(Answers[2 * f], Settled + f)'
    <3>1. Right(Answers[2 * f], Settled + f) /\ Settled + f \in Called
      BY <2>1, <2>2, AnswersCalled DEF AnswersReach
    <3>2. kinds'[Settled + f] = kinds[Settled + f]
      BY <3>1, KindsGrow
    <3> QED
      BY <2>7, <3>1, <3>2, HistoryGrows DEF Right
  <2>10. AnswersReach(r)'
    BY <2>2, <2>4, <2>7, <2>9 DEF AnswersReach
  <2> QED
    BY <2>8, <2>10 DEF AnswersGoOn
<1> QED
  BY <1>1, <1>2

(* The server answers its next command; once its half of the connection    *)
(* is closed the answer is not sent.                                       *)
LEMMA AnswerWritten ==
    ASSUME TypeOK, StreamInv, AnswersGoOn, [Next]_vars, paused,
           NEW status \in Statuses,
           toClient' = IF ssocket = "open" THEN toClient \o Frame(status)
                                           ELSE toClient,
           ssocket # "open" => ssocket' # "open", ssocket' # "none",
           UNCHANGED <<cbuffer, pendingAcks, kinds, csocket>>,
           Consumed' = Consumed + 1,
           Right(status, Consumed)'
    PROVE  AnswersGoOn'
<1> SUFFICES ASSUME Listens
             PROVE  PendingInOrder' /\ \E r \in Nat : AnswersReach(r)'
  BY DEF AnswersGoOn, Listens
<1>1. PendingInOrder /\ \E r \in Nat : AnswersReach(r)
  BY DEF AnswersGoOn
<1>2. PICK r \in Nat : AnswersReach(r)
  BY <1>1
<1>3. Settled' = Settled /\ Settled \in Nat /\ Consumed \in Nat
  BY <1>1, AnswersType, StreamType DEF Settled, StreamInv
<1>4. PendingInOrder'
  BY <1>1, <1>3 DEF PendingInOrder
<1>6. CASE ssocket = "open"
  <2>1. toClient' = toClient \o Frame(status)
    BY <1>6
  <2>2. Answers' = Answers \o Frame(status)
    <3>1. /\ cbuffer \in Seq(Statuses) /\ toClient \in Seq(Statuses)
          /\ Frame(status) \in Seq(Statuses)
      BY PartsType DEF Frame
    <3>2. Answers' = cbuffer \o (toClient \o Frame(status))
      BY <2>1 DEF Answers
    <3>3. \A s, t, u \in Seq(Statuses) : s \o (t \o u) = (s \o t) \o u
      BY CatAssoc
    <3> QED
      BY <3>1, <3>2, <3>3 DEF Answers
  <2>3. Answers \in Seq(Statuses) /\ Len(Answers) = 2 * r
    BY <1>1, <1>2, AnswersType DEF AnswersReach
  <2> DEFINE longer == Answers \o Frame(status)
  <2>4. /\ Len(longer) = Len(Answers) + 2
        /\ \A i \in 1..Len(Answers) : longer[i] = Answers[i]
        /\ longer[Len(Answers) + 2] = status
    BY <2>3 DEF Frame
  <2> HIDE DEF longer
  <2>5. Answers' = longer
    BY <2>2 DEF longer
  <2>6. Settled + r = Consumed
    BY <1>2, <1>6 DEF AnswersReach
  <2>7. ASSUME NEW f \in 1..(r + 1)
        PROVE  Right(Answers[2 * f], Settled + f)'
    <3>1. CASE f \in 1..r
      <4>1. Right(Answers[2 * f], Settled + f) /\ Settled + f \in Called
        BY <1>1, <1>2, <3>1, AnswersCalled DEF AnswersReach
      <4>2. Answers'[2 * f] = Answers[2 * f]
        BY <2>3, <2>4, <2>5, <3>1
      <4> QED
        BY <1>3, <4>1, <4>2, HistoryGrows DEF Right
    <3>2. CASE f = r + 1
      <4>1. Answers'[2 * f] = status /\ Settled' + f = Consumed'
        BY <1>3, <2>3, <2>4, <2>5, <2>6, <3>2
      <4> QED
        BY <4>1 DEF Right
    <3> QED
      BY <3>1, <3>2
  <2>8. AnswersReach(r + 1)'
    <3>1. Len(Answers') = 2 * (r + 1)
      BY <2>3, <2>4, <2>5
    <3>2. Settled' + (r + 1) = Consumed' /\ Settled' + (r + 1) <= Consumed'
      BY <1>3, <2>6
    <3> QED
      BY <2>7, <3>1, <3>2 DEF AnswersReach
  <2>9. r + 1 \in Nat
    OBVIOUS
  <2> QED
    BY <1>4, <2>8, <2>9
<1>7. CASE ssocket # "open"
  <2>1. Answers' = Answers /\ ssocket' \notin {"none", "open"}
    BY <1>7 DEF Answers
  <2>2. ASSUME NEW f \in 1..r
        PROVE  Right(Answers[2 * f], Settled + f)'
    <3>1. Right(Answers[2 * f], Settled + f) /\ Settled + f \in Called
      BY <1>1, <1>2, AnswersCalled DEF AnswersReach
    <3> QED
      BY <1>3, <2>1, <3>1, HistoryGrows DEF Right
  <2>3. Len(Answers') = 2 * r /\ Settled' + r <= Consumed'
    BY <1>2, <1>3, <2>1 DEF AnswersReach
  <2>4. AnswersReach(r)'
    BY <2>1, <2>2, <2>3 DEF AnswersReach
  <2> QED
    BY <1>4, <2>4
<1> QED
  BY <1>6, <1>7

(* The part of the answers that one chunk completes. *)
LEMMA ChunkParts ==
    ASSUME TypeOK, NEW n \in 1..Len(toClient)
    PROVE  LET parts  == cbuffer \o SubSeq(toClient, 1, n)
               frames == Len(parts) \div FrameParts
           IN  /\ parts \in Seq(Statuses)
               /\ frames \in Nat /\ 2 * frames \in 0..Len(parts)
               /\ Len(Answers) >= Len(parts)
               /\ \A i \in 1..Len(parts) : parts[i] = Answers[i]
               /\ From(parts, frames * FrameParts) \o From(toClient, n)
                      = From(Answers, 2 * frames)
<1> DEFINE front == SubSeq(toClient, 1, n)
           back == From(toClient, n)
           parts == cbuffer \o front
           frames == Len(parts) \div FrameParts
<1>1. /\ n \in 0..Len(toClient) /\ toClient \in Seq(Statuses)
      /\ cbuffer \in Seq(Statuses)
  BY PartsType
<1>2. /\ front \in Seq(Statuses) /\ back \in Seq(Statuses)
      /\ front \o back = toClient
  BY <1>1, CutTogether, FromParts
<1> HIDE DEF front, back
<1>3. parts \in Seq(Statuses)
  BY <1>1, <1>2
<1>4. parts \o back = Answers
  <2>1. \A s, t, u \in Seq(Statuses) : s \o (t \o u) = (s \o t) \o u
    BY CatAssoc, SMTT(30)
  <2> QED
    BY <1>1, <1>2, <2>1 DEF Answers
<1> HIDE DEF parts
<1>5. frames \in Nat /\ 2 * frames \in 0..Len(parts)
  BY <1>3 DEF FrameParts
<1>6. /\ Len(Answers) = Len(parts) + Len(back)
      /\ \A i \in 1..Len(parts) : (parts \o back)[i] = parts[i]
  BY <1>2, <1>3, <1>4
<1>7. From(parts, 2 * frames) \o back = From(Answers, 2 * frames)
  BY <1>2, <1>3, <1>4, <1>5, FromFront
<1>8. frames * FrameParts = 2 * frames
  BY <1>5 DEF FrameParts
<1>9. Len(back) \in Nat /\ Len(parts) \in Nat
  BY <1>2, <1>3
<1>10. \A i \in 1..Len(parts) : parts[i] = Answers[i]
  BY <1>4, <1>6
<1>11. From(parts, frames * FrameParts) \o back = From(Answers, 2 * frames)
  BY <1>7, <1>8
<1>12. Len(Answers) >= Len(parts)
  BY <1>6, <1>9
<1> HIDE DEF frames
<1> QED
  BY <1>3, <1>5, <1>10, <1>11, <1>12, Zenon DEF parts, front, back, frames

(* One chunk settles the oldest calls, each by its own answer. *)
LEMMA ChunkSettles ==
    ASSUME TypeOK, StreamInv, AnswersGoOn, NEW n, HandleData(n), Listens
    PROVE  \E r \in Nat, frames \in 0..Len(pendingAcks) :
             /\ PendingInOrder /\ AnswersReach(r) /\ frames <= r
             /\ pendingAcks' = From(pendingAcks, frames)
             /\ Answers' = From(Answers, 2 * frames)
             /\ \A k \in Commands :
                  \/ outcome'[k] = outcome[k]
                  \/ \E i \in 1..frames :
                        /\ k = Settled + i
                        /\ outcome'[k] = IF Answers[2 * i] = "OK"
                                         THEN "ok" ELSE "refused"
<1>1. PendingInOrder /\ \E r \in Nat : AnswersReach(r)
  BY DEF AnswersGoOn
<1>2. PICK r \in Nat : AnswersReach(r)
  BY <1>1
<1>3. n \in 1..Len(toClient)
  BY DEF HandleData
<1> DEFINE parts == cbuffer \o SubSeq(toClient, 1, n)
           frames == Len(parts) \div FrameParts
<1>4. /\ parts \in Seq(Statuses)
      /\ frames \in Nat /\ 2 * frames \in 0..Len(parts)
      /\ Len(Answers) >= Len(parts)
      /\ \A i \in 1..Len(parts) : parts[i] = Answers[i]
      /\ From(parts, frames * FrameParts) \o From(toClient, n)
             = From(Answers, 2 * frames)
  BY <1>3, ChunkParts
<1>5. Answered(parts) /\ toClient' = From(toClient, n)
  BY DEF HandleData
<1>6. Len(Answers) = 2 * r /\ Len(parts) \in Nat
  BY <1>2, <1>4 DEF AnswersReach
<1>7. frames <= r
  BY <1>4, <1>6
<1>8. r <= Len(pendingAcks) /\ Len(pendingAcks) \in Nat
  BY <1>1, <1>2, AnswersCalled, AnswersType
<1>9. frames \in 0..Len(pendingAcks)
  BY <1>4, <1>7, <1>8
<1> DEFINE settled == IF frames < Len(pendingAcks) THEN frames
                                                   ELSE Len(pendingAcks)
           answer(i) == IF parts[FrameParts * i] = "OK" THEN "ok" ELSE "refused"
<1> HIDE DEF frames
<1>10. settled = frames
  BY <1>8, <1>9
<1>11. /\ outcome' = [k \in Commands |->
              IF \E i \in 1..settled : pendingAcks[i] = k
              THEN answer(CHOOSE i \in 1..settled : pendingAcks[i] = k)
              ELSE outcome[k]]
       /\ pendingAcks' = From(pendingAcks, settled)
       /\ cbuffer' = From(parts, frames * FrameParts)
  BY <1>5 DEF Answered, frames
<1>12. pendingAcks' = From(pendingAcks, frames)
  BY <1>10, <1>11
<1>13. Answers' = From(Answers, 2 * frames)
  BY <1>4, <1>5, <1>11 DEF Answers
<1> HIDE DEF parts
<1>14. ASSUME NEW k \in Commands, outcome'[k] # outcome[k]
       PROVE  \E i \in 1..frames :
                /\ k = Settled + i
                /\ outcome'[k] = IF Answers[2 * i] = "OK"
                                 THEN "ok" ELSE "refused"
  <2>1. \E i \in 1..settled : pendingAcks[i] = k
    BY <1>11, <1>14
  <2> DEFINE i == CHOOSE i \in 1..settled : pendingAcks[i] = k
  <2>2. i \in 1..settled /\ pendingAcks[i] = k
    BY <2>1
  <2>3. outcome'[k] = answer(i)
    BY <1>11, <2>1
  <2> HIDE DEF i
  <2>4. i \in 1..frames
    BY <1>10, <2>2
  <2>5. k = Settled + i
    <3>1. pendingAcks \in Seq(Commands)
      BY DEF TypeOK
    <3>2. i \in DOMAIN pendingAcks
      BY <1>9, <2>4, <3>1
    <3> QED
      BY <1>1, <2>2, <3>2 DEF PendingInOrder
  <2>6. parts[FrameParts * i] = Answers[2 * i]
    BY <1>4, <1>9, <2>4 DEF FrameParts
  <2> QED
    BY <2>3, <2>4, <2>5, <2>6
<1> QED
  BY <1>1, <1>2, <1>7, <1>9, <1>12, <1>13, <1>14

(* The answers that are left belong to the calls that are left. *)
LEMMA DataAnswers ==
    ASSUME TypeOK, StreamInv, AnswersGoOn, [Next]_vars, NEW n, HandleData(n)
    PROVE  AnswersGoOn'
<1> SUFFICES ASSUME Listens'
             PROVE  PendingInOrder' /\ \E r \in Nat : AnswersReach(r)'
  BY DEF AnswersGoOn
<1>1. UNCHANGED <<csocket, kinds, server, app>>
  BY DEF HandleData
<1>2. csocket \in {"open", "ending", "ended"}
  BY DEF HandleData
<1>3. CASE csocket = "ended" /\ pendingAcks = << >>
  <2>1. pendingAcks' = << >>
    <3>1. PICK parts : Answered(parts)
      BY DEF HandleData
    <3> QED
      BY <1>3, <3>1 DEF Answered, From
  <2> QED
    BY <1>1, <1>3, <2>1 DEF Listens
<1>4. CASE Listens
  <2>1. PICK r \in Nat, frames \in 0..Len(pendingAcks) :
          /\ PendingInOrder /\ AnswersReach(r) /\ frames <= r
          /\ pendingAcks' = From(pendingAcks, frames)
          /\ Answers' = From(Answers, 2 * frames)
    BY <1>4, ChunkSettles
  <2>2. /\ pendingAcks \in Seq(Commands) /\ Answers \in Seq(Statuses)
        /\ Settled \in Nat /\ Len(kinds) \in Nat /\ Len(pendingAcks) \in Nat
        /\ Settled + Len(pendingAcks) = Len(kinds)
    BY <2>1, AnswersType DEF TypeOK
  <2>3. /\ Len(pendingAcks') = Len(pendingAcks) - frames
        /\ DOMAIN pendingAcks' = 1..(Len(pendingAcks) - frames)
        /\ \A i \in 1..(Len(pendingAcks) - frames) :
              pendingAcks'[i] = pendingAcks[i + frames]
    <3> DEFINE rest == From(pendingAcks, frames)
    <3>1. /\ rest \in Seq(Commands)
          /\ Len(rest) = Len(pendingAcks) - frames
          /\ \A i \in 1..(Len(pendingAcks) - frames) :
                rest[i] = pendingAcks[i + frames]
      BY <2>2, FromParts
    <3> HIDE DEF rest
    <3>2. DOMAIN rest = 1..(Len(pendingAcks) - frames)
      BY <3>1
    <3> QED
      BY <2>1, <3>1, <3>2 DEF rest
  <2>4. Settled' = Settled + frames
    BY <1>1, <2>2, <2>3 DEF Settled
  <2>5. PendingInOrder'
    <3>1. \A i \in 1..Len(pendingAcks) : pendingAcks[i] = Settled + i
      BY <2>1, <2>2 DEF PendingInOrder
    <3>2. ASSUME NEW i \in 1..(Len(pendingAcks) - frames)
          PROVE  pendingAcks'[i] = Settled' + i
      <4>1. i + frames \in 1..Len(pendingAcks)
        BY <2>2
      <4> QED
        BY <2>2, <2>3, <2>4, <3>1, <4>1
    <3>3. Len(pendingAcks') <= Len(kinds')
      BY <1>1, <2>1, <2>2, <2>3 DEF PendingInOrder
    <3> QED
      BY <2>3, <3>2, <3>3 DEF PendingInOrder
  <2>6. Len(Answers) = 2 * r /\ 2 * frames \in 0..Len(Answers)
    BY <2>1 DEF AnswersReach
  <2>7. /\ Len(Answers') = 2 * (r - frames)
        /\ \A i \in 1..(2 * r - 2 * frames) : Answers'[i] = Answers[i + 2 * frames]
    <3> DEFINE rest == From(Answers, 2 * frames)
    <3>1. /\ Len(rest) = Len(Answers) - 2 * frames
          /\ \A i \in 1..(Len(Answers) - 2 * frames) :
                rest[i] = Answers[i + 2 * frames]
      BY <2>2, <2>6, FromParts
    <3> HIDE DEF rest
    <3>2. Len(Answers) - 2 * frames = 2 * (r - frames)
          /\ 2 * (r - frames) = 2 * r - 2 * frames
      BY <2>6
    <3> QED
      BY <2>1, <3>1, <3>2 DEF rest
  <2>8. ASSUME NEW f \in 1..(r - frames)
        PROVE  Right(Answers[2 * f], Settled + f)'
    <3>1. f + frames \in 1..r
      BY <2>1
    <3>2. Right(Answers[2 * (f + frames)], Settled + (f + frames))
      BY <2>1, <3>1 DEF AnswersReach
    <3>3. Settled' + f = Settled + (f + frames)
      BY <2>2, <2>4
    <3>4. Answers'[2 * f] = Answers[2 * (f + frames)]
      <4>1. 2 * f \in 1..(2 * r - 2 * frames)
            /\ 2 * f + 2 * frames = 2 * (f + frames)
        BY <2>1
      <4> QED
        BY <2>7, <4>1
    <3>5. UNCHANGED <<kinds, stored, failed, handled>>
      BY <1>1 DEF app
    <3> QED
      BY <3>2, <3>3, <3>4, <3>5 DEF Right
  <2>9. Consumed' = Consumed /\ ssocket' = ssocket /\ Consumed \in Nat
    BY <1>1, StreamType DEF Consumed, server, app, StreamInv
  <2>10. /\ Settled' + (r - frames) = Settled + r
         /\ r - frames \in Nat
    BY <2>1, <2>2, <2>4
  <2>11. AnswersReach(r - frames)'
    BY <2>1, <2>7, <2>8, <2>9, <2>10 DEF AnswersReach
  <2> QED
    BY <2>5, <2>10, <2>11
<1> QED
  BY <1>2, <1>3, <1>4 DEF Listens

(* The stream of answers survives every step. *)
LEMMA NextAnswers ==
    TypeOK /\ StreamInv /\ AnswersGoOn /\ [Next]_vars => AnswersGoOn'
<1> SUFFICES ASSUME TypeOK, StreamInv, AnswersGoOn, [Next]_vars
             PROVE  AnswersGoOn'
  OBVIOUS
<1>1. CASE Put \/ EndStream
  BY <1>1, CallAnswers DEF Put, EndStream
<1>2. CASE Data
  BY <1>2, DataAnswers DEF Data
<1>3. CASE Timeout \/ Close
  <2>1. ~Listens'
    BY <1>3 DEF Timeout, Close, RejectAllPending, Listens
  <2> QED
    BY <2>1 DEF AnswersGoOn
<1>4. CASE \/ Connect \/ ConnectTimesOut
           \/ Disconnect \/ Disconnected \/ ServerEnded
           \/ ServerLost
  <2>1. UNCHANGED <<kinds, pendingAcks, cbuffer, toClient, server, app>>
    BY <1>4 DEF Connect, ConnectTimesOut, Disconnect, Disconnected,
                ServerEnded, ServerLost
  <2>2. Listens' => Listens
    BY <1>4 DEF Connect, ConnectTimesOut, Disconnect, Disconnected,
                ServerEnded, ServerLost, Listens
  <2> QED
    BY <2>1, <2>2, AnswersStay DEF server, app, Consumed
<1>5. CASE \/ Accept \/ Chunk \/ ChunkDone \/ ClientEnded \/ ConnectionLost
           \/ Stop \/ StoreClosed \/ Exit \/ UNCHANGED vars
  <2>1. UNCHANGED <<client, toClient, cmd, handled>>
    BY <1>5 DEF Accept, Chunk, Receive, ChunkDone, ClientEnded,
                ConnectionLost, Stop, StoreClosed, Exit, vars, server, app
  <2>2. ssocket' \in {"none", "open"} => ssocket \in {"none", "open"}
    BY <1>5 DEF Accept, Chunk, Receive, ChunkDone, ClientEnded,
                ConnectionLost, Stop, StoreClosed, Exit, vars, server
  <2>3. Consumed' = Consumed /\ (Listens' => Listens)
    BY <2>1 DEF client, Consumed, Listens
  <2> QED
    BY <2>1, <2>2, <2>3, AnswersStay DEF client
<1>6. CASE HandleStreamPut
  <2>1. /\ AtMessage("put") /\ handled' = Append(handled, todo[1])
        /\ cmd' = todo[1]
        /\ UNCHANGED <<client, toClient, ssocket>>
    BY <1>6 DEF HandleStreamPut
  <2>2. todo[1] = Len(handled) + 1 /\ Len(handled') = Len(handled) + 1
    BY <2>1, TakesUpNext
  <2>3. Consumed' = Consumed /\ (Listens' => Listens)
    <3>1. cmd = 0 /\ Len(handled) \in Nat
      BY <2>1, PartsType DEF AtMessage
    <3> QED
      BY <2>1, <2>2, <3>1 DEF Consumed, Listens, client
  <2> QED
    BY <2>1, <2>3, AnswersStay DEF client
<1>7. CASE PutSucceeds \/ PutFails
  <2>1. /\ cmd # 0 /\ cmd' = 0
        /\ UNCHANGED <<client, paused, handled>>
    BY <1>7 DEF PutSucceeds, PutFails
  <2>2. /\ paused /\ cmd = Len(handled) /\ cmd \in Called
        /\ kinds[cmd] = "put"
    BY <2>1 DEF StreamInv, Sockets, PutUnderWay, TypeOK
  <2>3. Consumed' = Consumed + 1 /\ Consumed' = cmd
    BY <2>1, <2>2, PartsType DEF Consumed
  <2>4. ssocket # "none"
    BY <2>2 DEF StreamInv, Sockets
  <2>5. PICK status \in Statuses : Write(status) /\ Right(status, Consumed)'
    <3>1. CASE PutSucceeds
      BY <2>1, <2>2, <2>3, <3>1 DEF PutSucceeds, Right, Statuses, client
    <3>2. CASE PutFails
      BY <2>1, <2>2, <2>3, <3>2 DEF PutFails, Right, Statuses, client
    <3> QED
      BY <1>7, <3>1, <3>2
  <2>6. /\ toClient' = IF ssocket = "open" THEN toClient \o Frame(status)
                                           ELSE toClient
        /\ ssocket # "open" => ssocket' # "open"
        /\ ssocket' # "none"
    BY <2>4, <2>5 DEF Write
  <2> QED
    BY <2>1, <2>2, <2>3, <2>5, <2>6, AnswerWritten DEF client
<1>8. CASE HandleEndStream
  <2>1. /\ AtMessage("end") /\ handled' = Append(handled, todo[1])
        /\ UNCHANGED <<client, paused, cmd>>
    BY <1>8 DEF HandleEndStream
  <2>2. /\ todo[1] = Len(handled) + 1 /\ todo[1] \in Called
        /\ Len(handled') = Len(handled) + 1
    BY <2>1, TakesUpNext
  <2>3. paused /\ cmd = 0 /\ kinds[todo[1]] = "end" /\ Len(handled) \in Nat
    BY <2>1, PartsType DEF AtMessage
  <2>4. Consumed' = Consumed + 1 /\ Consumed' = todo[1]
    BY <2>1, <2>2, <2>3 DEF Consumed
  <2>5. ssocket # "none"
    BY <2>3 DEF StreamInv, Sockets
  <2>6. /\ toClient' = IF ssocket = "open" THEN toClient \o Frame("OK")
                                           ELSE toClient
        /\ ssocket # "open" => ssocket' # "open"
        /\ ssocket' # "none"
    BY <1>8, <2>5 DEF HandleEndStream
  <2>7. todo[1] \in ToSet(handled')
    <3> DEFINE k == todo[1]
               longer == Append(handled, k)
    <3>1. handled \in Seq(Commands)
      BY PartsType
    <3> HIDE DEF k
    <3>2. /\ Len(handled) + 1 \in DOMAIN longer
          /\ longer[Len(handled) + 1] = k
      BY <3>1
    <3>3. handled' = longer
      BY <2>1 DEF k
    <3> HIDE DEF longer
    <3>4. k \in ToSet(handled')
      BY <3>2, <3>3 DEF ToSet
    <3> QED
      BY <3>4 DEF k
  <2>8. Right("OK", Consumed)'
    BY <2>1, <2>3, <2>4, <2>7 DEF Right, client
  <2> QED
    BY <2>1, <2>3, <2>4, <2>6, <2>8, AnswerWritten DEF client, Statuses
<1> QED
  BY <1>1, <1>2, <1>3, <1>4, <1>5, <1>6, <1>7, <1>8 DEF Next

(* The outcome of a call stays, gets lost or is the answer to that call.   *)
LEMMA OutcomeMoves ==
    ASSUME TypeOK, StreamInv, AnswersGoOn, [Next]_vars, NEW k \in Commands
    PROVE  \/ outcome'[k] \in {outcome[k], "lost"}
           \/ /\ k \in Called
              /\ \/ outcome'[k] = "ok" /\ Right("OK", k)
                 \/ outcome'[k] = "refused" /\ Right("ERROR", k)
<1>1. CASE Data
  <2>1. PICK n : HandleData(n)
    BY <1>1 DEF Data
  <2>2. CASE ~Listens
    <3>1. pendingAcks = << >>
      BY <2>1, <2>2 DEF HandleData, Listens
    <3>2. PICK parts \in Seq(Statuses) : Answered(parts)
      <4>1. /\ n \in 1..Len(toClient)
            /\ Answered(cbuffer \o SubSeq(toClient, 1, n))
        BY <2>1 DEF HandleData
      <4> QED
        BY <4>1, ChunkParts
    <3>3. outcome'[k] = outcome[k]
      <4> DEFINE frames == Len(parts) \div FrameParts
                 settled == IF frames < Len(pendingAcks) THEN frames
                                                         ELSE Len(pendingAcks)
      <4>1. frames \in Nat
        BY DEF FrameParts
      <4> HIDE DEF frames
      <4>2. Len(pendingAcks) = 0 /\ settled = 0
        BY <3>1, <4>1
      <4>3. ~\E i \in 1..settled : pendingAcks[i] = k
        BY <4>2
      <4> QED
        BY <3>2, <4>3 DEF Answered, frames
    <3> QED
      BY <3>3
  <2>3. CASE Listens
    <3>1. PICK r \in Nat, frames \in 0..Len(pendingAcks) :
            /\ PendingInOrder /\ AnswersReach(r) /\ frames <= r
            /\ \A c \in Commands :
                 \/ outcome'[c] = outcome[c]
                 \/ \E i \in 1..frames :
                       /\ c = Settled + i
                       /\ outcome'[c] = IF Answers[2 * i] = "OK"
                                        THEN "ok" ELSE "refused"
      BY <2>1, <2>3, ChunkSettles
    <3>2. CASE outcome'[k] = outcome[k]
      BY <3>2
    <3>3. ASSUME NEW i \in 1..frames, k = Settled + i,
                 outcome'[k] = IF Answers[2 * i] = "OK" THEN "ok"
                                                        ELSE "refused"
          PROVE  /\ k \in Called
                 /\ \/ outcome'[k] = "ok" /\ Right("OK", k)
                    \/ outcome'[k] = "refused" /\ Right("ERROR", k)
      <4>1. i \in 1..r
        BY <3>1
      <4>2. Right(Answers[2 * i], k) /\ k \in Called
        BY <3>1, <3>3, <4>1, AnswersCalled DEF AnswersReach
      <4> QED
        BY <3>3, <4>2 DEF Right
    <3> QED
      BY <3>1, <3>2, <3>3
  <2> QED
    BY <2>2, <2>3
<1>2. CASE Timeout \/ Close
  <2>1. outcome'[k] = IF k \in ToSet(pendingAcks) THEN "lost" ELSE outcome[k]
    BY <1>2 DEF Timeout, Close, RejectAllPending
  <2> QED
    BY <2>1
<1>3. CASE ~(Data \/ Timeout \/ Close)
  <2>1. outcome' = outcome
    BY <1>3 DEF Next, Connect, ConnectTimesOut, Put, EndStream, Call,
                Disconnect, Disconnected, ServerEnded, ServerLost, Accept,
                Chunk, Receive, HandleStreamPut, PutSucceeds, PutFails,
                HandleEndStream, ChunkDone, ClientEnded, ConnectionLost, Stop,
                StoreClosed, Exit, vars, client
  <2> QED
    BY <2>1
<1> QED
  BY <1>1, <1>2, <1>3

(* An answer reaches the call it answers, after every step. *)
LEMMA NextAnswer == TypeOK /\ StreamInv /\ AnswerInv /\ [Next]_vars => AnswerInv'
<1> SUFFICES ASSUME TypeOK, StreamInv, AnswerInv, [Next]_vars
             PROVE  AnswerInv'
  OBVIOUS
<1>1. AnswersGoOn'
  BY NextAnswers DEF AnswerInv
<1>2. Len(kinds) \in 0..MaxCommands /\ MaxCommands \in Nat
  BY KindsType, MaxCommandsAssumption
<1>3. Len(kinds') \in {Len(kinds), Len(kinds) + 1}
  BY KindsGrow
<1>4. ASSUME NEW k \in Commands, k > Len(kinds')
      PROVE  outcome'[k] \in {"waiting", "lost"}
  <2>1. k > Len(kinds) /\ k \notin Called
    BY <1>2, <1>3, <1>4 DEF Commands, Called
  <2>2. outcome'[k] \in {outcome[k], "lost"}
    BY <2>1, OutcomeMoves DEF AnswerInv
  <2> QED
    BY <2>1, <2>2 DEF AnswerInv, Uncalled
<1>5. ASSUME NEW k \in 1..Len(kinds')
      PROVE  /\ outcome'[k] = "ok" => Right("OK", k)'
             /\ outcome'[k] = "refused" => Right("ERROR", k)'
  <2>1. k \in Commands
    <3>1. Len(kinds') \in 0..MaxCommands
      <4>1. TypeOK'
        BY NextType DEF StreamInv, PutUnderWay, AtWork
      <4>2. kinds' \in BoundedSeq({"put", "end"}, MaxCommands)
        BY <4>1 DEF TypeOK
      <4>3. kinds' \in Seq({"put", "end"}) /\ Len(kinds') <= MaxCommands
        BY <1>2, <4>2, Bounded
      <4> QED
        BY <4>3
    <3> QED
      BY <1>2, <3>1 DEF Commands
  <2>2. CASE k \in Called
    <3>1. kinds'[k] = kinds[k]
      BY <2>2, KindsGrow
    <3>2. /\ outcome[k] = "ok" => Right("OK", k)
          /\ outcome[k] = "refused" => Right("ERROR", k)
      BY <2>2 DEF AnswerInv, AnswersMatch, Right
    <3>3. /\ outcome'[k] = "ok" => Right("OK", k)
          /\ outcome'[k] = "refused" => Right("ERROR", k)
      BY <2>1, <3>2, OutcomeMoves DEF AnswerInv
    <3> QED
      BY <3>1, <3>3, HistoryGrows DEF Right
  <2>3. CASE k \notin Called
    <3>1. k > Len(kinds)
      BY <1>2, <2>3 DEF Called
    <3>2. outcome'[k] \in {outcome[k], "lost"}
      BY <2>1, <2>3, OutcomeMoves DEF AnswerInv
    <3> QED
      BY <2>1, <3>1, <3>2 DEF AnswerInv, Uncalled
  <2> QED
    BY <2>2, <2>3
<1>6. AnswersMatch'
  BY <1>5 DEF AnswersMatch, Called, Right
<1>7. Uncalled'
  BY <1>4 DEF Uncalled
<1> QED
  BY <1>1, <1>6, <1>7 DEF AnswerInv

(* The types and both streams together are inductive. *)
LEMMA AnswersHold == Spec => [](TypeOK /\ StreamInv /\ AnswerInv)
<1>1. Spec => []AnswerInv
  BY InitAnswer, NextAnswer, StreamHolds, PTL DEF Spec
<1> QED
  BY <1>1, StreamHolds, PTL

(* A put that returned was stored, one that was refused was refused by the *)
(* store, and endStream returns only once the server has taken it up.      *)
THEOREM AnswersReachTheirCalls == Spec => []AnswersMatch
<1>1. AnswerInv => AnswersMatch
  BY DEF AnswerInv
<1> QED
  BY <1>1, AnswersHold, PTL

(* While the connection is open every call that waits is owed exactly one  *)
(* answer.                                                                 *)
THEOREM EveryCallIsOwed == Spec => []AnswersOwed
<1>1. ASSUME TypeOK, StreamInv, AnswerInv
      PROVE  AnswersOwed
  <2> SUFFICES ASSUME csocket = "open", ssocket = "open"
               PROVE  FrameParts * Len(pendingAcks) =
                        Len(toServer) + Len(Unread) + Len(toClient)
                        + Len(cbuffer)
    BY DEF AnswersOwed, Unread
  <2>1. PendingInOrder /\ \E r \in Nat : AnswersReach(r)
    BY <1>1 DEF AnswerInv, AnswersGoOn, Listens
  <2>2. PICK r \in Nat : AnswersReach(r)
    BY <2>1
  <2>3. PICK m \in Nat : Framed(Stream, Consumed, m)
                        /\ Consumed + m = Len(kinds)
    BY <1>1 DEF StreamInv, StreamGoesOn
  <2>4. Len(Answers) = 2 * r /\ Settled + r = Consumed
    BY <2>2 DEF AnswersReach
  <2>5. Len(Stream) = 2 * m
    BY <2>3 DEF Framed
  <2>6. /\ Unread \in Seq(Commands) /\ toServer \in Seq(Commands)
        /\ cbuffer \in Seq(Statuses) /\ toClient \in Seq(Statuses)
    BY <1>1, PartsType, StreamType DEF StreamInv
  <2>7. /\ Len(Stream) = Len(Unread) + Len(toServer)
        /\ Len(Answers) = Len(cbuffer) + Len(toClient)
    BY <2>6 DEF Stream, Answers
  <2>8. /\ Settled \in Nat /\ Len(pendingAcks) \in Nat
        /\ Settled + Len(pendingAcks) = Len(kinds) /\ Consumed \in Nat
    BY <1>1, <2>1, AnswersType, StreamType DEF StreamInv
  <2>9. Len(pendingAcks) = m + r
    BY <2>3, <2>4, <2>8
  <2>10. FrameParts * Len(pendingAcks) = 2 * m + 2 * r
    BY <2>9 DEF FrameParts
  <2>11. /\ Len(Unread) \in Nat /\ Len(toServer) \in Nat
         /\ Len(cbuffer) \in Nat /\ Len(toClient) \in Nat
    BY <2>6
  <2> QED
    BY <2>4, <2>5, <2>7, <2>10, <2>11
<1>2. TypeOK /\ StreamInv /\ AnswerInv => AnswersOwed
  BY <1>1
<1> QED
  BY <1>2, AnswersHold, PTL

(* Every variable keeps its type. *)
THEOREM StreamTypeCorrect == Spec => []TypeOK
BY AnswersHold, PTL
=============================================================================
