---------------------------- MODULE ClientProofs ----------------------------
(***************************************************************************)
(* Proofs about the client's program.                                      *)
(*                                                                         *)
(* ClientSession, for packets of any size and any number of them: nobody   *)
(* destroys a session that a worker uses, the socket outlives the workers  *)
(* when the game thread ran the destructor, and packets go out and come in *)
(* whole and in order.                                                     *)
(*                                                                         *)
(* ClientActors, for any wizards, enemies and hit points.  The two modules *)
(* share no name, and no proof about one uses the other.                   *)
(***************************************************************************)
EXTENDS ClientSession, ClientActors, SequenceTheorems, TLAPS

-----------------------------------------------------------------------------
(* ClientSession *)

InTurn == {"pinned", "busy", "unpin"}

\* The shared pointers are the game instance's, from Connect to Shutdown, and
\* those of the workers that are in a turn of their loop.
RefsInv ==
  /\ \A w \in Workers : w \in refs <=> at[w] \in InTurn
  /\ "game" \in refs <=> socket # "none" /\ InGame
  /\ game = "menu" => socket = "none" /\ refs = {} /\ dtor = "idle"

\* The destructor runs once there is no shared pointer.
DestroyerInv ==
  /\ destroyer = "nobody" <=> dtor = "idle"
  /\ dtor # "idle" => refs = {}

\* How far the destructor has come, and the game thread that runs it.
ProgressInv ==
  /\ dtor \in {"stopRecv", "joinRecv", "over"} => at["send"] = "exited"
  /\ dtor = "over" => at["recv"] = "exited"
  /\ destroyer = "game" => game = "destroying" \/ dtor = "over"
  /\ socket = "destroyed" => game \in {"shutdown", "ended", "crashed"}

IInv == TypeOK /\ RefsInv /\ DestroyerInv /\ ProgressInv

-----------------------------------------------------------------------------
(* Types of ClientSession *)

LEMMA EnqueueType ==
  ASSUME TypeOK, EnqueueSendPacket
  PROVE  /\ queued' \in 1 .. MaxPackets
         /\ queued' = queued + 1
         /\ m_sendQueue' \in Seq(1 .. MaxPackets)
<1>1. queued + 1 \in 1 .. MaxPackets
  BY SessionAssumption DEF TypeOK, EnqueueSendPacket
<1> QED
  BY <1>1, AppendProperties DEF TypeOK, EnqueueSendPacket

LEMMA NextPart ==
  ASSUME TypeOK, sending.part # Parts
  PROVE  [sending EXCEPT !.part = @ + 1] \in SentParts
<1>1. sending.part \in 1 .. Parts /\ sending.packet \in 1 .. MaxPackets
  BY DEF TypeOK, SentParts
<1>2. sending.part + 1 \in 1 .. Parts
  BY <1>1, SessionAssumption
<1> QED
  BY <1>1, <1>2 DEF TypeOK, SentParts

\* The first state is typed.
LEMMA InitType == Init => TypeOK
<1> SUFFICES ASSUME Init PROVE TypeOK
  OBVIOUS
<1>1. Part(1, 1) \in SentParts
  BY SessionAssumption DEF Part, SentParts
<1>2. /\ <<>> \in Seq(1 .. MaxPackets) /\ <<>> \in Seq(SentParts)
      /\ <<>> \in Seq(1 .. MaxArrived) /\ <<>> \in Seq(Seq(1 .. MaxArrived))
  BY EmptySeq
<1>3. 0 \in 0 .. MaxPackets /\ 0 \in 0 .. MaxArrived /\ 0 \in 0 .. 0
  BY SessionAssumption
<1> QED
  BY <1>1, <1>2, <1>3 DEF Init, TypeOK, Workers, Threads

\* The steps of the game thread keep the types.
LEMMA GameType ==
  ASSUME TypeOK,
         \/ ConnectToServer \/ SendPacketOfGame \/ DequeueRecvPacket
         \/ DisconnectFromServer \/ CloseWindow \/ Leave
  PROVE  TypeOK'
<1>1. CASE ConnectToServer
  <2>1. CASE EnqueueSendPacket
    BY <1>1, <2>1, EnqueueType DEF ConnectToServer, EnqueueSendPacket, incoming, outgoing, TypeOK, Workers, Threads
  <2>2. CASE UNCHANGED outgoing
    BY <1>1, <2>2 DEF ConnectToServer, EnqueueSendPacket, incoming, outgoing, TypeOK, Workers, Threads
  <2> QED
    BY <1>1, <2>1, <2>2 DEF ConnectToServer
<1>2. CASE SendPacketOfGame
  BY <1>2, EnqueueType DEF SendPacketOfGame, EnqueueSendPacket, session, incoming, TypeOK
<1>3. CASE DequeueRecvPacket
  <2>1. /\ Tail(m_recvQueue) \in Seq(Seq(1 .. MaxArrived))
        /\ Append(processed, Head(m_recvQueue)) \in Seq(Seq(1 .. MaxArrived))
    BY <1>3, HeadTailProperties, AppendProperties DEF DequeueRecvPacket, TypeOK
  <2> QED
    BY <1>3, <2>1 DEF DequeueRecvPacket, session, outgoing, TypeOK
<1>4. CASE DisconnectFromServer
  BY <1>4, EnqueueType DEF DisconnectFromServer, EnqueueSendPacket, session, incoming, TypeOK
<1>5. CASE CloseWindow
  BY <1>5 DEF CloseWindow, session, outgoing, incoming, TypeOK
<1>6. CASE Leave
  BY <1>6 DEF Leave, Shutdown, DestroySocket, ExitProcess, Release, session, outgoing, incoming, TypeOK, Threads
<1> QED
  BY <1>1, <1>2, <1>3, <1>4, <1>5, <1>6

\* What both workers do keeps the types.
LEMMA WorkerType ==
  ASSUME TypeOK, NEW w \in Workers, Worker(w)
  PROVE  TypeOK'
<1>1. CASE CheckRunning(w)
  BY <1>1 DEF CheckRunning, Goto, session, outgoing, incoming, TypeOK
<1>2. CASE Pin(w)
  BY <1>2 DEF Pin, Goto, outgoing, incoming, TypeOK, Threads
<1>3. CASE Unpin(w)
  BY <1>3 DEF Unpin, Release, Goto, outgoing, incoming, TypeOK, Threads
<1>4. CASE UseDestroyedSocket(w)
  BY <1>4 DEF UseDestroyedSocket, session, outgoing, incoming, TypeOK
<1> QED
  BY <1>1, <1>2, <1>3, <1>4 DEF Worker

\* So does sending a packet ...
LEMMA SendType ==
  ASSUME TypeOK, DequeueSendPacket \/ SendPart \/ SendFails
  PROVE  TypeOK'
<1>1. CASE DequeueSendPacket
  <2>1. CASE m_sendQueue = <<>>
    BY <1>1, <2>1 DEF DequeueSendPacket, Goto, session, incoming, TypeOK
  <2>2. CASE m_sendQueue # <<>>
    <3>1. /\ Tail(m_sendQueue) \in Seq(1 .. MaxPackets)
          /\ Head(m_sendQueue) \in 1 .. MaxPackets
      BY <2>2, HeadTailProperties DEF TypeOK
    <3>2. Part(Head(m_sendQueue), 1) \in SentParts
      BY <3>1, SessionAssumption DEF Part, SentParts
    <3> QED
      BY <1>1, <2>2, <3>1, <3>2 DEF DequeueSendPacket, Goto, session, incoming, TypeOK
  <2> QED
    BY <2>1, <2>2
<1>2. CASE SendPart
  <2>1. wire' \in Seq(SentParts)
    BY <1>2, AppendProperties DEF SendPart, TypeOK
  <2>2. sending' \in SentParts
    BY <1>2, NextPart DEF SendPart, TypeOK
  <2>3. at' \in [Workers -> {"none", "run", "pin", "pinned", "busy", "unpin", "destroying", "exited"}]
    BY <1>2 DEF SendPart, Goto, TypeOK
  <2> QED
    BY <1>2, <2>1, <2>2, <2>3 DEF SendPart, session, incoming, TypeOK
<1>3. CASE SendFails
  <2>1. sending.packet \in 1 .. MaxPackets
    BY DEF TypeOK, SentParts
  <2> QED
    BY <1>3, <2>1 DEF SendFails, Goto, session, incoming, TypeOK
<1> QED
  BY <1>1, <1>2, <1>3

\* ... and reading one.
LEMMA RecvType ==
  ASSUME TypeOK, HasPendingData \/ RecvPart \/ RecvFails
  PROVE  TypeOK'
<1>1. CASE HasPendingData
  BY <1>1, EmptySeq DEF HasPendingData, Goto, session, outgoing, TypeOK
<1>2. CASE RecvPart
  <2>1. read + 1 \in 0 .. arrived /\ read + 1 \in 1 .. MaxArrived
    BY <1>2, SessionAssumption DEF RecvPart, TypeOK
  <2>2. Append(buffer, read + 1) \in Seq(1 .. MaxArrived)
    BY <2>1, AppendProperties DEF TypeOK
  <2>3. Append(m_recvQueue, Append(buffer, read + 1)) \in Seq(Seq(1 .. MaxArrived))
    BY <2>2, AppendProperties DEF TypeOK
  <2> QED
    BY <1>2, <2>1, <2>2, <2>3 DEF RecvPart, Goto, session, outgoing, TypeOK
<1>3. CASE RecvFails
  BY <1>3 DEF RecvFails, Goto, session, outgoing, incoming, TypeOK
<1> QED
  BY <1>1, <1>2, <1>3

\* Every step keeps the types.
LEMMA NextType ==
  ASSUME TypeOK, [Next]_vars
  PROVE  TypeOK'
<1>1. CASE Destructor
  BY <1>1 DEF Destructor, Stop, Join, outgoing, incoming, TypeOK
<1>2. CASE SendWorker
  BY <1>2, WorkerType, SendType DEF SendWorker, Workers
<1>3. CASE RecvWorker
  BY <1>3, WorkerType, RecvType DEF RecvWorker, Workers
<1>4. CASE Connected
  BY <1>4 DEF Connected, session, outgoing, incoming, TypeOK
<1>5. CASE ServerSends
  BY <1>5, SessionAssumption DEF ServerSends, session, outgoing, TypeOK
<1>6. CASE ServerCloses
  BY <1>6 DEF ServerCloses, session, outgoing, incoming, TypeOK
<1>7. CASE UNCHANGED vars
  BY <1>7 DEF vars, session, outgoing, incoming, TypeOK
<1> QED
  BY <1>1, <1>2, <1>3, <1>4, <1>5, <1>6, <1>7, GameType DEF Next

-----------------------------------------------------------------------------
(* Ownership of the session and of its socket *)

\* In the first state nobody has the session and nobody destroys it.
LEMMA InitInv == Init => IInv
<1> SUFFICES ASSUME Init PROVE IInv
  OBVIOUS
<1>1. TypeOK
  BY InitType
<1>2. RefsInv /\ DestroyerInv /\ ProgressInv
  BY DEF Init, RefsInv, DestroyerInv, ProgressInv, InTurn, InGame, Workers
<1> QED
  BY <1>1, <1>2 DEF IInv

\* Steps that leave the session and its socket alone, and move a worker at most
\* within a turn or within the rest of its loop.
LEMMA QuietStep ==
  ASSUME IInv,
         UNCHANGED <<game, session>>, socket' = socket,
         at' \in [Workers -> {"none", "run", "pin", "pinned", "busy", "unpin", "destroying", "exited"}],
         \A w \in Workers :
           \/ at'[w] = at[w]
           \/ at[w] \in InTurn /\ at'[w] \in InTurn
           \/ at[w] \notin InTurn \cup {"exited"} /\ at'[w] \notin InTurn
  PROVE  RefsInv' /\ DestroyerInv' /\ ProgressInv'
<1> USE DEF session
<1>1. RefsInv'
  BY DEF IInv, RefsInv, InGame
<1>2. DestroyerInv'
  BY DEF IInv, DestroyerInv
<1>3. ProgressInv'
  <2>1. \A w \in Workers : at[w] = "exited" => at'[w] = "exited"
    BY DEF InTurn
  <2> QED
    BY <2>1 DEF IInv, ProgressInv, Workers
<1> QED
  BY <1>1, <1>2, <1>3

\* The last shared pointer of thread t starts the destructor.
LEMMA ReleaseStep ==
  ASSUME IInv, NEW t \in refs, Release(t)
  PROVE  DestroyerInv' /\ dtor = "idle"
<1>1. dtor = "idle" /\ destroyer = "nobody"
  BY DEF IInv, DestroyerInv
<1>2. CASE refs = {t}
  BY <1>1, <1>2 DEF Release, DestroyerInv, IInv, TypeOK, Threads, Workers
<1>3. CASE refs # {t}
  BY <1>1, <1>3 DEF Release, DestroyerInv
<1> QED
  BY <1>1, <1>2, <1>3

\* The steps of the game thread.
LEMMA GameStep ==
  ASSUME IInv,
         \/ ConnectToServer \/ SendPacketOfGame \/ DequeueRecvPacket
         \/ DisconnectFromServer \/ CloseWindow \/ Leave
  PROVE  RefsInv' /\ DestroyerInv' /\ ProgressInv'
<1>1. CASE ConnectToServer
  <2>1. dtor = "idle" /\ destroyer = "nobody" /\ socket = "none"
    BY <1>1 DEF ConnectToServer, IInv, RefsInv, DestroyerInv
  <2>2. /\ game' = "playing" /\ refs' = {"game"} /\ at' = [w \in Workers |-> "run"]
        /\ socket' \in {"connecting", "closed"} /\ destroyer' = destroyer /\ dtor' = dtor
    BY <1>1 DEF ConnectToServer
  <2> QED
    BY <2>1, <2>2 DEF RefsInv, DestroyerInv, ProgressInv, InGame, InTurn, Workers
<1>2. CASE SendPacketOfGame \/ DequeueRecvPacket
  <2>1. UNCHANGED <<game, session>> /\ socket' = socket /\ at' = at
    BY <1>2 DEF SendPacketOfGame, DequeueRecvPacket, session
  <2> QED
    BY <2>1, QuietStep DEF IInv, TypeOK
<1>3. CASE DisconnectFromServer \/ CloseWindow
  <2>1. /\ game \in {"menu", "playing"} /\ game' = "quitting"
        /\ UNCHANGED <<socket, refs, destroyer, dtor, at>>
    BY <1>3 DEF DisconnectFromServer, CloseWindow, session
  <2>2. game = "menu" => socket = "none"
    BY DEF IInv, RefsInv
  <2> QED
    BY <2>1, <2>2 DEF IInv, RefsInv, DestroyerInv, ProgressInv, InGame
<1>4. CASE Shutdown
  <2>1. game = "quitting" /\ UNCHANGED <<socket, at>>
    BY <1>4 DEF Shutdown
  <2>2. CASE socket = "none"
    <3>1. game' = "shutdown" /\ UNCHANGED <<refs, destroyer, dtor>>
      BY <1>4, <2>2 DEF Shutdown
    <3> QED
      BY <2>1, <2>2, <3>1 DEF IInv, RefsInv, DestroyerInv, ProgressInv, InGame
  <2>3. CASE socket # "none"
    <3>1. "game" \in refs
      BY <2>1, <2>3 DEF IInv, RefsInv, InGame
    <3>2. Release("game") /\ game' = IF refs = {"game"} THEN "destroying" ELSE "closing"
      BY <1>4, <2>3 DEF Shutdown
    <3>3. DestroyerInv' /\ dtor = "idle" /\ destroyer = "nobody"
      BY <3>1, <3>2, ReleaseStep DEF IInv, DestroyerInv
    <3>4. RefsInv'
      BY <2>1, <2>3, <3>2 DEF IInv, RefsInv, Release, InGame, Workers
    <3>5. ProgressInv'
      BY <2>1, <3>2, <3>3 DEF IInv, ProgressInv, Release
    <3> QED
      BY <3>3, <3>4, <3>5
  <2> QED
    BY <2>2, <2>3
<1>5. CASE DestroySocket \/ ExitProcess
  <2>1. UNCHANGED <<refs, destroyer, dtor, at>>
    BY <1>5 DEF DestroySocket, ExitProcess, session
  <2>2. \/ game = "closing" /\ socket' = "destroyed" /\ game' = "shutdown"
        \/ game = "shutdown" /\ socket' = socket /\ game' = "ended"
    BY <1>5 DEF DestroySocket, ExitProcess
  <2> QED
    BY <2>1, <2>2 DEF IInv, RefsInv, DestroyerInv, ProgressInv, InGame
<1> QED
  BY <1>1, <1>2, <1>3, <1>4, <1>5 DEF Leave

\* The destructor: a Join is over when its worker has ended.
LEMMA DestructorStep ==
  ASSUME IInv, Destructor
  PROVE  RefsInv' /\ DestroyerInv' /\ ProgressInv'
<1>1. /\ UNCHANGED <<refs, destroyer, at, socket>>
      /\ \/ dtor = "stopSend" /\ dtor' = "joinSend" /\ game' = game
         \/ dtor = "joinSend" /\ dtor' = "stopRecv" /\ game' = game /\ at["send"] = "exited"
         \/ dtor = "stopRecv" /\ dtor' = "joinRecv" /\ game' = game
         \/ /\ dtor = "joinRecv" /\ dtor' = "over" /\ at["recv"] = "exited"
            /\ game' = IF destroyer = "game" THEN "closing" ELSE game
  BY DEF Destructor, Stop, Join
<1>2. destroyer = "game" /\ dtor # "over" => game = "destroying"
  BY DEF IInv, ProgressInv
<1>3. RefsInv'
  BY <1>1, <1>2 DEF IInv, RefsInv, InGame
<1>4. DestroyerInv'
  BY <1>1 DEF IInv, DestroyerInv
<1>5. ProgressInv'
  BY <1>1, <1>2 DEF IInv, ProgressInv
<1> QED
  BY <1>3, <1>4, <1>5

\* A worker's loop: a turn begins with a shared pointer and ends with it.
LEMMA WorkerStep ==
  ASSUME IInv, NEW w \in Workers, Worker(w)
  PROVE  RefsInv' /\ DestroyerInv' /\ ProgressInv'
<1>1. at \in [Workers -> {"none", "run", "pin", "pinned", "busy", "unpin", "destroying", "exited"}]
  BY DEF IInv, TypeOK
<1>2. CASE CheckRunning(w)
  BY <1>1, <1>2, QuietStep DEF CheckRunning, Goto, InTurn, session
<1>3. CASE Pin(w)
  <2>1. CASE refs = {}
    BY <1>1, <1>3, <2>1, QuietStep DEF Pin, Goto, InTurn, session
  <2>2. CASE refs # {}
    <3>1. /\ refs' = refs \cup {w} /\ at' = [at EXCEPT ![w] = "pinned"] /\ at[w] = "pin"
          /\ UNCHANGED <<game, socket, destroyer, dtor>>
      BY <1>3, <2>2 DEF Pin, Goto
    <3>2. dtor = "idle"
      BY <2>2 DEF IInv, DestroyerInv
    <3>3. RefsInv'
      <4>1. \A v \in Workers : v \in refs' <=> at'[v] \in InTurn
        BY <1>1, <3>1 DEF IInv, RefsInv, InTurn
      <4>2. "game" \in refs' <=> socket' # "none" /\ InGame'
        BY <3>1 DEF IInv, RefsInv, InGame, Workers
      <4>3. game' # "menu"
        BY <2>2, <3>1 DEF IInv, RefsInv
      <4> QED
        BY <4>1, <4>2, <4>3 DEF RefsInv
    <3>4. DestroyerInv' /\ ProgressInv'
      BY <3>1, <3>2 DEF IInv, DestroyerInv, ProgressInv
    <3> QED
      BY <3>3, <3>4
  <2> QED
    BY <2>1, <2>2
<1>4. CASE Unpin(w)
  <2>1. /\ Release(w) /\ at[w] = "unpin" /\ UNCHANGED <<game, socket>>
        /\ at' = [at EXCEPT ![w] = IF refs = {w} THEN "destroying" ELSE "run"]
    BY <1>4 DEF Unpin, Goto
  <2>2. w \in refs
    BY <2>1 DEF IInv, RefsInv, InTurn
  <2>3. DestroyerInv' /\ dtor = "idle" /\ destroyer = "nobody"
    BY <2>1, <2>2, ReleaseStep DEF IInv, DestroyerInv
  <2>4. RefsInv'
    <3>1. \A v \in Workers : v \in refs' <=> at'[v] \in InTurn
      BY <1>1, <2>1 DEF IInv, RefsInv, Release, InTurn
    <3>2. game # "menu"
      BY <2>2 DEF IInv, RefsInv
    <3> QED
      BY <2>1, <3>1, <3>2 DEF IInv, RefsInv, Release, InGame, Workers
  <2>5. ProgressInv'
    BY <2>1, <2>3 DEF IInv, ProgressInv, Release, Workers
  <2> QED
    BY <2>3, <2>4, <2>5
<1>5. CASE UseDestroyedSocket(w)
  <2>1. /\ socket = "destroyed" /\ game' = "crashed"
        /\ UNCHANGED <<socket, refs, destroyer, dtor, at>>
    BY <1>5 DEF UseDestroyedSocket, session
  <2> QED
    BY <2>1 DEF IInv, RefsInv, DestroyerInv, ProgressInv, InGame
<1> QED
  BY <1>2, <1>3, <1>4, <1>5 DEF Worker

\* What a worker does within a turn.
LEMMA TurnStep ==
  ASSUME IInv,
         \/ DequeueSendPacket \/ SendPart \/ SendFails
         \/ HasPendingData \/ RecvPart \/ RecvFails
  PROVE  RefsInv' /\ DestroyerInv' /\ ProgressInv'
<1>1. at \in [Workers -> {"none", "run", "pin", "pinned", "busy", "unpin", "destroying", "exited"}]
  BY DEF IInv, TypeOK
<1>2. UNCHANGED <<game, session>> /\ socket' = socket
  BY DEF DequeueSendPacket, SendPart, SendFails, HasPendingData, RecvPart, RecvFails, session
<1>3. \/ at' = at
      \/ \E w \in Workers : \E place \in InTurn :
           at[w] \in InTurn /\ at' = [at EXCEPT ![w] = place]
  BY DEF DequeueSendPacket, SendPart, SendFails, HasPendingData, RecvPart, RecvFails, Goto, InTurn, Workers
<1> QED
  BY <1>1, <1>2, <1>3, QuietStep DEF InTurn

\* The invariant is kept by every step.
LEMMA NextInv ==
  ASSUME IInv, [Next]_vars
  PROVE  IInv'
<1>1. TypeOK'
  BY NextType DEF IInv
<1>2. RefsInv' /\ DestroyerInv' /\ ProgressInv'
  <2>1. CASE Destructor
    BY <2>1, DestructorStep
  <2>2. CASE SendWorker \/ RecvWorker
    BY <2>2, WorkerStep, TurnStep DEF SendWorker, RecvWorker, Workers
  <2>3. CASE Connected \/ ServerCloses
    <3>1. /\ socket \in {"connecting", "connected"} /\ socket' \in {"connected", "closed"}
          /\ UNCHANGED <<game, refs, destroyer, dtor, at>>
      BY <2>3 DEF Connected, ServerCloses, session
    <3> QED
      BY <3>1 DEF IInv, RefsInv, DestroyerInv, ProgressInv, InGame
  <2>4. CASE ServerSends \/ UNCHANGED vars
    <3>1. UNCHANGED <<game, session>> /\ socket' = socket /\ at' = at
      BY <2>4 DEF ServerSends, vars, session
    <3> QED
      BY <3>1, QuietStep DEF IInv, TypeOK
  <2> QED
    BY <2>1, <2>2, <2>3, <2>4, GameStep DEF Next
<1> QED
  BY <1>1, <1>2 DEF IInv

LEMMA Invariant == Spec => []IInv
<1>1. Init => IInv
  BY InitInv
<1>2. IInv /\ [Next]_vars => IInv'
  BY NextInv
<1> QED
  BY <1>1, <1>2, PTL DEF Spec

-----------------------------------------------------------------------------
(* Both streams *)

Busy(w) == at[w] = "busy"

\* Packets the send worker has taken from the queue.
Taken == queued - Len(m_sendQueue)

\* The queue holds the packets not taken, in order.
QueueInv ==
  /\ Taken \in 0 .. queued
  /\ \A i \in 1 .. Len(m_sendQueue) : m_sendQueue[i] = Taken + i

\* The socket got parts of packets that were taken, and while one is being
\* sent its part before the next one, or nothing of it.
WireInv ==
  /\ \A i \in 1 .. Len(wire) : wire[i].packet <= Taken
  /\ Busy("send") =>
       /\ sending.packet = Taken
       /\ sending.part = 1 => \A i \in 1 .. Len(wire) : wire[i].packet < Taken
       /\ sending.part # 1 =>
            Len(wire) > 0 /\ wire[Len(wire)] = Part(Taken, sending.part - 1)

\* What became of packet k: it is being sent, it failed or its end is out.
Served(k) ==
  \/ Busy("send") /\ k = Taken
  \/ k \in lost
  \/ \E j \in 1 .. Len(wire) : wire[j] = Part(k, Parts)

TakenServed == \A k \in 1 .. Taken : Served(k)

SendInv == QueueInv /\ WireInv /\ TakenServed /\ SentWhole

Received == processed \o m_recvQueue

\* Parts of the packets that were received.
Whole == Len(Received) * Parts

\* The connection gives nothing more.
StreamOver ==
  \/ socket = "closed" /\ read = arrived
  \/ socket = "destroyed"

\* While the worker reads a packet, its buffer is the packet's beginning; when
\* it gave one up there will be no other.
ReadInv ==
  /\ Busy("recv") =>
       /\ Len(buffer) < Parts
       /\ read = Whole + Len(buffer)
       /\ \A j \in 1 .. Len(buffer) : buffer[j] = Whole + j
  /\ ~Busy("recv") => read = Whole \/ StreamOver

RecvInv == ReadInv /\ ReceivedWhole

StreamInv == SendInv /\ RecvInv

\* What the types say of the variables of the way out.
LEMMA SendTypes ==
  ASSUME TypeOK
  PROVE  /\ Len(m_sendQueue) \in Nat /\ Len(wire) \in Nat
         /\ m_sendQueue \in Seq(1 .. MaxPackets) /\ wire \in Seq(SentParts)
         /\ DOMAIN wire = 1 .. Len(wire)
         /\ queued \in Nat
         /\ sending \in SentParts
         /\ sending.packet \in Nat /\ sending.part \in 1 .. Parts
         /\ \A i \in 1 .. Len(wire) : wire[i] \in SentParts
         /\ \A i \in 1 .. Len(wire) : wire[i].packet \in Nat /\ wire[i].part \in Nat
         /\ Parts \in Nat \ {0}
<1>1. Len(m_sendQueue) \in Nat /\ Len(wire) \in Nat /\ DOMAIN wire = 1 .. Len(wire)
  BY LenProperties DEF TypeOK
<1>2. \A i \in 1 .. Len(wire) : wire[i] \in SentParts
  BY ElementOfSeq DEF TypeOK
<1>3. \A p \in SentParts : p.packet \in Nat /\ p.part \in 1 .. Parts /\ p.part \in Nat
  BY SessionAssumption DEF SentParts
<1>4. queued \in Nat
  BY SessionAssumption DEF TypeOK
<1> QED
  BY <1>1, <1>2, <1>3, <1>4, SessionAssumption DEF TypeOK

\* A step that leaves the way out alone.
LEMMA SendQuiet ==
  ASSUME SendInv, UNCHANGED outgoing, Busy("send")' <=> Busy("send")
  PROVE  SendInv'
<1> USE DEF outgoing
<1>1. Taken' = Taken
  BY DEF Taken
<1>2. QueueInv'
  BY <1>1 DEF SendInv, QueueInv
<1>3. WireInv'
  BY <1>1 DEF SendInv, WireInv
<1>4. TakenServed'
  BY <1>1 DEF SendInv, TakenServed, Served
<1>5. SentWhole'
  BY DEF SendInv, SentWhole
<1> QED
  BY <1>2, <1>3, <1>4, <1>5 DEF SendInv

LEMMA SendEnqueue ==
  ASSUME TypeOK, SendInv, EnqueueSendPacket, Busy("send")' <=> Busy("send")
  PROVE  SendInv'
<1>1. queued + 1 \in 1 .. MaxPackets
  BY EnqueueType DEF EnqueueSendPacket
<1>2. /\ Len(m_sendQueue') = Len(m_sendQueue) + 1
      /\ \A i \in 1 .. Len(m_sendQueue) : m_sendQueue'[i] = m_sendQueue[i]
      /\ m_sendQueue'[Len(m_sendQueue) + 1] = queued + 1
      /\ queued' = queued + 1
      /\ UNCHANGED <<sending, wire, lost>>
  BY <1>1, AppendProperties DEF EnqueueSendPacket, TypeOK
<1>3. Taken' = Taken /\ Taken \in Nat
  BY <1>2, SendTypes DEF Taken, SendInv, QueueInv
<1>4. QueueInv'
  <2>1. Taken' \in 0 .. queued'
    BY <1>2, <1>3, SendTypes DEF SendInv, QueueInv
  <2>2. \A i \in 1 .. Len(m_sendQueue) : m_sendQueue'[i] = Taken' + i
    BY <1>2, <1>3 DEF SendInv, QueueInv
  <2>3. m_sendQueue'[Len(m_sendQueue) + 1] = Taken' + (Len(m_sendQueue) + 1)
    BY <1>2, <1>3, SendTypes DEF Taken
  <2>4. \A i \in 1 .. Len(m_sendQueue') :
          i \in 1 .. Len(m_sendQueue) \/ i = Len(m_sendQueue) + 1
    BY <1>2, SendTypes
  <2> QED
    BY <2>1, <2>2, <2>3, <2>4 DEF QueueInv
<1>5. WireInv'
  BY <1>2, <1>3 DEF SendInv, WireInv
<1>6. TakenServed'
  BY <1>2, <1>3 DEF SendInv, TakenServed, Served
<1>7. SentWhole'
  BY <1>2 DEF SendInv, SentWhole
<1> QED
  BY <1>4, <1>5, <1>6, <1>7 DEF SendInv

LEMMA SendDequeue ==
  ASSUME TypeOK, SendInv, DequeueSendPacket
  PROVE  SendInv'
<1>1. at["send"] = "pinned" /\ ~Busy("send") /\ UNCHANGED <<queued, wire, lost>>
  BY DEF DequeueSendPacket, Busy
<1>2. CASE m_sendQueue = <<>>
  <2>1. UNCHANGED outgoing /\ ~Busy("send")'
    BY <1>2 DEF DequeueSendPacket, Goto, Busy, outgoing, TypeOK, Workers
  <2> QED
    BY <1>1, <2>1, SendQuiet
<1>3. CASE m_sendQueue # <<>>
  <2>1. /\ Len(m_sendQueue) \in Nat \ {0}
        /\ Len(m_sendQueue') = Len(m_sendQueue) - 1
        /\ \A i \in 1 .. Len(m_sendQueue') : m_sendQueue'[i] = m_sendQueue[i + 1]
        /\ Head(m_sendQueue) = m_sendQueue[1]
    <3>1. m_sendQueue' = Tail(m_sendQueue) /\ m_sendQueue \in Seq(1 .. MaxPackets)
      BY <1>3 DEF DequeueSendPacket, TypeOK
    <3>2. Head(m_sendQueue) = m_sendQueue[1]
      BY <3>1
    <3> QED
      BY <1>3, <3>1, <3>2, HeadTailProperties, EmptySeq
  <2>2. Taken' = Taken + 1 /\ Taken \in Nat
    BY <1>1, <2>1, SendTypes DEF Taken, SendInv, QueueInv
  <2>3. Busy("send")' /\ sending' = Part(Taken + 1, 1)
    <3>1. m_sendQueue[1] = Taken + 1
      BY <2>1 DEF SendInv, QueueInv
    <3> QED
      BY <1>3, <2>1, <3>1 DEF DequeueSendPacket, Goto, Busy, TypeOK, Workers
  <2>4. QueueInv'
    <3>1. Taken' \in 0 .. queued'
      BY <1>1, <2>1, <2>2, SendTypes DEF Taken
    <3>2. ASSUME NEW i \in 1 .. Len(m_sendQueue') PROVE m_sendQueue'[i] = Taken' + i
      <4>1. i + 1 \in 1 .. Len(m_sendQueue) /\ i \in Nat
        BY <2>1
      <4>2. m_sendQueue[i + 1] = Taken + (i + 1)
        BY <4>1 DEF SendInv, QueueInv
      <4> QED
        BY <2>1, <2>2, <4>1, <4>2
    <3> QED
      BY <3>1, <3>2 DEF QueueInv
  <2>5. WireInv'
    <3>1. \A i \in 1 .. Len(wire') : wire'[i].packet < Taken'
      BY <1>1, <2>2, SendTypes DEF SendInv, WireInv
    <3>2. \A i \in 1 .. Len(wire') : wire'[i].packet <= Taken'
      BY <1>1, <2>2, SendTypes DEF SendInv, WireInv
    <3>3. sending'.packet = Taken' /\ sending'.part = 1
      BY <2>2, <2>3 DEF Part
    <3> QED
      BY <3>1, <3>2, <3>3 DEF WireInv
  <2>6. TakenServed'
    <3>1. \A k \in 1 .. Taken : Served(k)'
      BY <1>1 DEF SendInv, TakenServed, Served
    <3>2. \A k \in 1 .. Taken' : k = Taken' => Served(k)'
      BY <2>3 DEF Served
    <3>3. \A k \in 1 .. Taken' : k \in 1 .. Taken \/ k = Taken'
      BY <2>2
    <3> QED
      BY <3>1, <3>2, <3>3 DEF TakenServed
  <2>7. SentWhole'
    BY <1>1 DEF SendInv, SentWhole
  <2> QED
    BY <2>4, <2>5, <2>6, <2>7 DEF SendInv
<1> QED
  BY <1>2, <1>3

\* A part leaves: the first of a new packet or the one after the last.
LEMMA SendOne ==
  ASSUME TypeOK, SendInv, SendPart
  PROVE  SendInv'
<1> DEFINE n == Len(wire)
<1>1. Busy("send") /\ UNCHANGED <<m_sendQueue, queued, lost>>
  BY DEF SendPart, Busy
<1>2. Taken' = Taken /\ Taken \in Nat
  BY <1>1, SendTypes DEF Taken, SendInv, QueueInv
<1>3. /\ Len(wire') = n + 1
      /\ \A i \in 1 .. n : wire'[i] = wire[i]
      /\ wire'[n + 1] = sending
      /\ DOMAIN wire' = 1 .. n + 1
  <2>1. wire' = Append(wire, sending)
    BY DEF SendPart
  <2>2. wire' \in Seq(SentParts) /\ Len(wire') = n + 1
        /\ (\A i \in 1 .. n : wire'[i] = wire[i]) /\ wire'[n + 1] = sending
    BY <2>1, SendTypes, AppendProperties
  <2> QED
    BY <2>2, LenProperties
<1>4. n \in Nat /\ \A i \in 1 .. n + 1 : i \in 1 .. n \/ i = n + 1
  BY SendTypes
<1>5. sending = Part(Taken, sending.part) /\ sending.packet = Taken
  BY <1>1, SendTypes DEF SendInv, WireInv, Part, SentParts
<1> HIDE DEF n
<1>6. QueueInv'
  BY <1>1, <1>2 DEF SendInv, QueueInv
<1>7. WireInv'
  <2>1. \A i \in 1 .. Len(wire') : wire'[i].packet <= Taken'
    BY <1>2, <1>3, <1>4, <1>5 DEF SendInv, WireInv, n
  <2>2. ASSUME Busy("send")'
        PROVE  /\ sending'.packet = Taken'
               /\ sending'.part = sending.part + 1
    BY <1>1, <1>2, <1>5, <2>2, SendTypes DEF SendPart, Goto, Busy, TypeOK, Workers, SentParts
  <2>3. sending.part + 1 # 1 /\ (sending.part + 1) - 1 = sending.part
    BY SendTypes
  <2>4. n + 1 > 0
    BY <1>4
  <2>5. Busy("send")' => sending'.part # 1 /\ wire'[Len(wire')] = Part(Taken', sending'.part - 1)
    <3> SUFFICES ASSUME Busy("send")' PROVE
                   sending'.part # 1 /\ wire'[Len(wire')] = Part(Taken', sending'.part - 1)
      OBVIOUS
    <3>1. sending'.part - 1 = sending.part /\ sending'.part # 1
      BY <2>2, <2>3
    <3>2. wire'[Len(wire')] = Part(Taken', sending.part)
      BY <1>2, <1>3, <1>5
    <3> QED
      BY <3>1, <3>2
  <2> QED
    BY <1>3, <2>1, <2>2, <2>4, <2>5 DEF WireInv
<1>8. TakenServed'
  <2>1. ASSUME NEW k \in 1 .. Taken PROVE Served(k)'
    <3>1. CASE \E j \in 1 .. n : wire[j] = Part(k, Parts)
      BY <1>3, <1>4, <3>1 DEF Served
    <3>2. CASE k = Taken
      <4>1. CASE sending.part = Parts
        BY <1>3, <1>4, <1>5, <3>2, <4>1 DEF Served
      <4>2. CASE sending.part # Parts
        BY <1>1, <1>2, <3>2, <4>2 DEF Served, SendPart, Busy
      <4> QED
        BY <4>1, <4>2
    <3>3. CASE k \in lost
      BY <1>1, <3>3 DEF Served
    <3> QED
      BY <3>1, <3>2, <3>3 DEF SendInv, TakenServed, Served, n
  <2> QED
    BY <1>2, <2>1 DEF TakenServed
<1>9. SentWhole'
  <2> DEFINE Fits(w, l, i) ==
        /\ w[i].part = 1 =>
             /\ \A j \in 1 .. i - 1 : w[j].packet < w[i].packet
             /\ \A k \in 1 .. w[i].packet - 1 :
                  k \in l \/ \E j \in 1 .. i - 1 : w[j] = Part(k, Parts)
        /\ w[i].part # 1 => i > 1 /\ w[i - 1] = Part(w[i].packet, w[i].part - 1)
  <2>1. ASSUME NEW i \in 1 .. n PROVE Fits(wire', lost, i)
    <3>1. Fits(wire, lost, i)
      BY SendTypes DEF SendInv, SentWhole, n
    <3>2. i \in Nat /\ \A j \in 1 .. i - 1 : j \in 1 .. n
      BY <1>4
    <3>3. i > 1 => i - 1 \in 1 .. n
      BY <1>4
    <3> QED
      BY <1>3, <3>1, <3>2, <3>3
  <2>2. Fits(wire', lost, n + 1)
    <3>1. (n + 1) - 1 = n
      BY <1>4
    <3>2. CASE sending.part = 1
      <4>1. \A j \in 1 .. n : wire'[j].packet < sending.packet
        BY <1>1, <1>3, <1>5, <3>2 DEF SendInv, WireInv, n
      <4>2. ASSUME NEW k \in 1 .. sending.packet - 1
            PROVE  k \in lost \/ \E j \in 1 .. n : wire'[j] = Part(k, Parts)
        <5>1. k \in 1 .. Taken /\ k # Taken
          BY <1>2, <1>5
        <5>2. k \in lost \/ \E j \in 1 .. n : wire[j] = Part(k, Parts)
          BY <5>1 DEF SendInv, TakenServed, Served, n
        <5> QED
          BY <1>3, <5>2
      <4>3. wire'[n + 1].part = 1 /\ wire'[n + 1].packet = sending.packet
        BY <1>3, <3>2
      <4>4. \A j \in 1 .. (n + 1) - 1 : wire'[j].packet < wire'[n + 1].packet
        BY <3>1, <4>1, <4>3
      <4>5. \A k \in 1 .. wire'[n + 1].packet - 1 :
              k \in lost \/ \E j \in 1 .. (n + 1) - 1 : wire'[j] = Part(k, Parts)
        BY <3>1, <4>2, <4>3
      <4> QED
        BY <4>3, <4>4, <4>5
    <3>3. CASE sending.part # 1
      <4>1. n > 0 /\ wire[n] = Part(Taken, sending.part - 1)
        BY <1>1, <3>3 DEF SendInv, WireInv, n
      <4>2. n + 1 > 1 /\ n \in 1 .. n
        BY <1>4, <4>1
      <4> QED
        BY <1>3, <1>5, <3>1, <3>3, <4>1, <4>2
    <3> QED
      BY <3>2, <3>3
  <2>3. \A i \in DOMAIN wire' : Fits(wire', lost, i)
    BY <1>3, <1>4, <2>1, <2>2
  <2> QED
    BY <1>1, <2>3 DEF SentWhole
<1> QED
  BY <1>6, <1>7, <1>8, <1>9 DEF SendInv

LEMMA SendGivenUp ==
  ASSUME TypeOK, SendInv, SendFails
  PROVE  SendInv'
<1>1. /\ Busy("send") /\ ~Busy("send")'
      /\ lost' = lost \cup {sending.packet}
      /\ UNCHANGED <<m_sendQueue, queued, wire>>
  BY DEF SendFails, Goto, Busy, TypeOK, Workers
<1>2. Taken' = Taken
  BY <1>1 DEF Taken
<1>3. QueueInv'
  BY <1>1, <1>2 DEF SendInv, QueueInv
<1>4. WireInv'
  BY <1>1, <1>2 DEF SendInv, WireInv
<1>5. TakenServed'
  BY <1>1, <1>2 DEF SendInv, WireInv, TakenServed, Served
<1>6. SentWhole'
  BY <1>1 DEF SendInv, SentWhole
<1> QED
  BY <1>3, <1>4, <1>5, <1>6 DEF SendInv

\* Two sequences in a row: the second grows, and its first element moves.
LEMMA AppendAfter ==
  ASSUME NEW S, NEW s \in Seq(S), NEW t \in Seq(S), NEW e \in S
  PROVE  s \o Append(t, e) = Append(s \o t, e)
<1>1. <<e>> \in Seq(S)
  OBVIOUS
<1>2. PICK u \in Seq(S) : u = <<e>>
  BY <1>1
<1>3. Append(t, e) = t \o u
  BY <1>2, AppendIsConcat
<1>4. s \o t \in Seq(S)
  BY ConcatProperties
<1>5. Append(s \o t, e) = (s \o t) \o u
  BY <1>2, <1>4, AppendIsConcat
<1> QED
  BY <1>3, <1>5, ConcatAssociative

LEMMA MoveFirst ==
  ASSUME NEW S, NEW s \in Seq(S), NEW t \in Seq(S), t # <<>>
  PROVE  Append(s, Head(t)) \o Tail(t) = s \o t
<1>1. /\ Head(t) \in S /\ Tail(t) \in Seq(S) /\ Head(t) = t[1]
      /\ Len(t) \in Nat \ {0} /\ Len(Tail(t)) = Len(t) - 1
      /\ \A i \in 1 .. Len(t) - 1 : Tail(t)[i] = t[i + 1]
  BY HeadTailProperties, EmptySeq
<1>2. PICK a \in Seq(S) : a = Append(s, Head(t))
  BY <1>1, AppendProperties
<1>3. /\ Len(s) \in Nat /\ Len(a) = Len(s) + 1
      /\ \A i \in 1 .. Len(s) : a[i] = s[i]
      /\ a[Len(s) + 1] = t[1]
  BY <1>1, <1>2, AppendProperties, LenProperties
<1>4. PICK r \in Seq(S) : r = Tail(t)
  BY <1>1
<1>5. /\ a \o r \in Seq(S) /\ Len(a \o r) = Len(a) + Len(r)
      /\ \A i \in 1 .. Len(a) + Len(r) :
           (a \o r)[i] = IF i <= Len(a) THEN a[i] ELSE r[i - Len(a)]
  BY ConcatProperties
<1>6. /\ s \o t \in Seq(S) /\ Len(s \o t) = Len(s) + Len(t)
      /\ \A i \in 1 .. Len(s) + Len(t) :
           (s \o t)[i] = IF i <= Len(s) THEN s[i] ELSE t[i - Len(s)]
  BY ConcatProperties
<1>7. Len(r) = Len(t) - 1 /\ \A i \in 1 .. Len(t) - 1 : r[i] = t[i + 1]
  BY <1>1, <1>4
<1>8. Len(a \o r) = Len(s \o t)
  BY <1>1, <1>3, <1>5, <1>6, <1>7
<1>9. ASSUME NEW i \in 1 .. Len(a \o r) PROVE (a \o r)[i] = (s \o t)[i]
  <2>1. i \in 1 .. Len(s) + Len(t) /\ i \in 1 .. Len(a) + Len(r) /\ i \in Nat
    BY <1>1, <1>3, <1>5, <1>6, <1>8
  <2>2. CASE i <= Len(s)
    BY <1>3, <1>5, <1>6, <2>1, <2>2
  <2>3. CASE i = Len(s) + 1
    BY <1>3, <1>5, <1>6, <2>1, <2>3
  <2>4. CASE i > Len(s) + 1
    <3>1. /\ i - Len(a) \in 1 .. Len(t) - 1
          /\ (i - Len(a)) + 1 = i - Len(s)
      BY <1>1, <1>3, <2>1, <2>4
    <3>2. (a \o r)[i] = t[(i - Len(a)) + 1]
      <4>1. (a \o r)[i] = r[i - Len(a)]
        BY <1>3, <1>5, <2>1, <2>4
      <4> QED
        BY <1>7, <3>1, <4>1
    <3>3. (s \o t)[i] = t[i - Len(s)]
      BY <1>3, <1>6, <2>1, <2>4
    <3> QED
      BY <3>1, <3>2, <3>3
  <2> QED
    BY <1>3, <2>1, <2>2, <2>3, <2>4
<1> QED
  BY <1>2, <1>4, <1>5, <1>6, <1>8, <1>9, SeqEqual

\* What the types say of the variables of the way in.
LEMMA RecvTypes ==
  ASSUME TypeOK
  PROVE  /\ arrived \in Nat /\ read \in Nat
         /\ buffer \in Seq(Nat) /\ Len(buffer) \in Nat
         /\ processed \in Seq(Seq(Nat)) /\ m_recvQueue \in Seq(Seq(Nat))
         /\ Received \in Seq(Seq(Nat)) /\ Len(Received) \in Nat
         /\ DOMAIN Received = 1 .. Len(Received)
         /\ Parts \in Nat \ {0} /\ Whole \in Nat
<1>1. arrived \in Nat /\ read \in Nat /\ Parts \in Nat \ {0}
  BY SessionAssumption DEF TypeOK
<1>2. 1 .. MaxArrived \subseteq Nat
  BY SessionAssumption
<1>3. buffer \in Seq(Nat) /\ Len(buffer) \in Nat
  BY <1>2, SeqMonotonic, LenProperties DEF TypeOK
<1>4. Seq(1 .. MaxArrived) \subseteq Seq(Nat)
  BY <1>2, SeqMonotonic
<1>5. processed \in Seq(Seq(Nat)) /\ m_recvQueue \in Seq(Seq(Nat))
  BY <1>4, SeqMonotonic DEF TypeOK
<1>6. Received \in Seq(Seq(Nat))
  BY <1>5, ConcatProperties DEF Received
<1>7. Len(Received) \in Nat /\ DOMAIN Received = 1 .. Len(Received)
  BY <1>6, LenProperties
<1>8. Whole \in Nat
  BY <1>1, <1>7 DEF Whole
<1> QED
  BY <1>1, <1>3, <1>5, <1>6, <1>7, <1>8

\* A step that reads nothing.
LEMMA RecvQuiet ==
  ASSUME RecvInv, UNCHANGED <<read, buffer, m_recvQueue, processed>>,
         Busy("recv")' <=> Busy("recv"), StreamOver => StreamOver'
  PROVE  RecvInv'
<1>1. Received' = Received /\ Whole' = Whole
  BY DEF Received, Whole
<1>2. ReadInv'
  BY <1>1 DEF RecvInv, ReadInv
<1>3. ReceivedWhole'
  BY DEF RecvInv, ReceivedWhole, ServerPacket
<1> QED
  BY <1>2, <1>3 DEF RecvInv

\* The game thread takes the oldest packet received.
LEMMA RecvProcess ==
  ASSUME TypeOK, RecvInv, DequeueRecvPacket
  PROVE  RecvInv'
<1>1. /\ m_recvQueue # <<>> /\ m_recvQueue' = Tail(m_recvQueue)
      /\ processed' = Append(processed, Head(m_recvQueue))
      /\ UNCHANGED <<arrived, read, buffer, at, socket>>
  BY DEF DequeueRecvPacket
<1>2. Append(processed, Head(m_recvQueue)) \o Tail(m_recvQueue) = processed \o m_recvQueue
  BY <1>1, RecvTypes, MoveFirst
<1>3. Received' = Received
  <2>1. Received = processed \o m_recvQueue /\ Received' = processed' \o m_recvQueue'
    BY DEF Received
  <2> QED
    BY <1>1, <1>2, <2>1
<1>4. ReadInv'
  BY <1>1, <1>3 DEF RecvInv, ReadInv, Whole, Busy, StreamOver
<1>5. ReceivedWhole'
  BY <1>3 DEF RecvInv, ReceivedWhole, ServerPacket, Received
<1> QED
  BY <1>4, <1>5 DEF RecvInv

\* A new packet begins where the last one ended.
LEMMA RecvLook ==
  ASSUME TypeOK, RecvInv, HasPendingData
  PROVE  RecvInv'
<1>1. /\ ~Busy("recv")
      /\ UNCHANGED <<socket, arrived, read, m_recvQueue, processed>>
  BY DEF HasPendingData, Busy
<1>2. CASE read < arrived /\ socket # "destroyed"
  <2>1. Busy("recv")' /\ buffer' = <<>>
    BY <1>2 DEF HasPendingData, Goto, Busy, TypeOK, Workers
  <2>2. read = Whole
    BY <1>1, <1>2, RecvTypes DEF RecvInv, ReadInv, StreamOver
  <2>3. Whole' = Whole
    BY <1>1 DEF Whole, Received
  <2>4. Len(buffer') = 0
    BY <2>1
  <2>5. ReadInv'
    BY <1>1, <2>1, <2>2, <2>3, <2>4, RecvTypes DEF ReadInv
  <2>6. ReceivedWhole'
    BY <1>1 DEF RecvInv, ReceivedWhole, ServerPacket
  <2> QED
    BY <2>5, <2>6 DEF RecvInv
<1>3. CASE ~(read < arrived /\ socket # "destroyed")
  <2>1. ~Busy("recv")' /\ UNCHANGED buffer
    BY <1>3 DEF HasPendingData, Goto, Busy, TypeOK, Workers
  <2> QED
    BY <1>1, <2>1, RecvQuiet DEF StreamOver
<1> QED
  BY <1>2, <1>3

\* The next part of a packet, or its last.
LEMMA RecvOne ==
  ASSUME TypeOK, RecvInv, RecvPart
  PROVE  RecvInv'
<1> DEFINE packet == Append(buffer, read + 1)
           n == Len(Received)
<1>1. /\ Busy("recv") /\ read' = read + 1 /\ buffer' = packet
      /\ UNCHANGED <<socket, arrived, processed>>
  BY DEF RecvPart, Busy
<1>2. /\ Len(buffer) < Parts /\ read = Whole + Len(buffer)
      /\ \A j \in 1 .. Len(buffer) : buffer[j] = Whole + j
  BY <1>1 DEF RecvInv, ReadInv
<1>3. /\ packet \in Seq(Nat) /\ Len(packet) = Len(buffer) + 1
      /\ \A j \in 1 .. Len(packet) : packet[j] = Whole + j
  <2>1. /\ packet \in Seq(Nat) /\ Len(packet) = Len(buffer) + 1
        /\ \A j \in 1 .. Len(buffer) : packet[j] = buffer[j]
        /\ packet[Len(buffer) + 1] = read + 1
    BY RecvTypes, AppendProperties
  <2>2. \A j \in 1 .. Len(packet) : j \in 1 .. Len(buffer) \/ j = Len(buffer) + 1
    BY <2>1, RecvTypes
  <2>3. read + 1 = Whole + (Len(buffer) + 1)
    BY <1>2, RecvTypes
  <2> HIDE DEF packet
  <2> QED
    BY <1>2, <2>1, <2>2, <2>3
<1>4. n \in Nat /\ Whole = n * Parts
  BY RecvTypes DEF Whole
<1> HIDE DEF packet, n
<1>5. CASE Len(packet) = Parts
  <2>1. ~Busy("recv")' /\ m_recvQueue' = Append(m_recvQueue, packet)
    BY <1>1, <1>5 DEF RecvPart, Goto, Busy, TypeOK, Workers
  <2>2. Received' = Append(Received, packet)
    <3>1. processed \o Append(m_recvQueue, packet) = Append(processed \o m_recvQueue, packet)
      <4>1. packet \in Seq(Nat) /\ m_recvQueue \in Seq(Seq(Nat)) /\ processed \in Seq(Seq(Nat))
        BY <1>3, RecvTypes
      <4> QED
        BY <4>1, AppendAfter
    <3>2. Received = processed \o m_recvQueue /\ Received' = processed' \o m_recvQueue'
      BY DEF Received
    <3> QED
      BY <1>1, <2>1, <3>1, <3>2
  <2>3. /\ Len(Received') = n + 1
        /\ DOMAIN Received' = 1 .. n + 1
        /\ \A i \in 1 .. n : Received'[i] = Received[i]
        /\ Received'[n + 1] = packet
    <3>1. /\ Received' \in Seq(Seq(Nat)) /\ Len(Received') = n + 1
          /\ \A i \in 1 .. n : Received'[i] = Received[i]
          /\ Received'[n + 1] = packet
      BY <1>3, <2>2, RecvTypes, AppendProperties DEF n
    <3> QED
      BY <3>1, LenProperties
  <2>4. Whole' = Whole + Parts
    <3>1. (n + 1) * Parts = n * Parts + Parts
      BY <1>4, RecvTypes
    <3>2. Whole' = Len(Received') * Parts
      BY DEF Whole
    <3> QED
      BY <1>4, <2>3, <3>1, <3>2
  <2>5. read' = Whole'
    BY <1>1, <1>2, <1>3, <1>5, <2>4, RecvTypes
  <2>6. packet = ServerPacket(n + 1)
    <3>1. (n + 1) - 1 = n
      BY <1>4
    <3>2. packet \in [1 .. Parts -> Nat]
      BY <1>3, <1>5, LenProperties
    <3>3. \A j \in 1 .. Parts : packet[j] = n * Parts + j
      BY <1>3, <1>4, <1>5
    <3> QED
      BY <3>1, <3>2, <3>3 DEF ServerPacket
  <2>7. ReceivedWhole'
    <3>1. \A i \in 1 .. n : Received[i] = ServerPacket(i)
      BY RecvTypes DEF RecvInv, ReceivedWhole, Received, n
    <3>2. \A i \in 1 .. n + 1 : i \in 1 .. n \/ i = n + 1
      BY <1>4
    <3>3. \A i \in DOMAIN Received' : Received'[i] = ServerPacket(i)
      BY <2>3, <2>6, <3>1, <3>2
    <3> QED
      BY <3>3 DEF ReceivedWhole, Received, ServerPacket
  <2> QED
    BY <2>1, <2>5, <2>7 DEF RecvInv, ReadInv
<1>6. CASE Len(packet) # Parts
  <2>1. Busy("recv")' /\ UNCHANGED m_recvQueue
    BY <1>1, <1>6 DEF RecvPart, Busy
  <2>2. Whole' = Whole
    BY <1>1, <2>1 DEF Whole, Received
  <2>3. ReadInv'
    <3>1. Len(packet) < Parts
      BY <1>2, <1>3, <1>6, RecvTypes
    <3>2. read' = Whole' + Len(packet)
      BY <1>1, <1>2, <1>3, <2>2, RecvTypes
    <3> QED
      BY <1>1, <1>3, <2>1, <2>2, <3>1, <3>2 DEF ReadInv
  <2>4. ReceivedWhole'
    BY <1>1, <2>1 DEF RecvInv, ReceivedWhole, ServerPacket
  <2> QED
    BY <2>3, <2>4 DEF RecvInv
<1> QED
  BY <1>5, <1>6

LEMMA RecvGivenUp ==
  ASSUME TypeOK, RecvInv, RecvFails
  PROVE  RecvInv'
<1>1. /\ ~Busy("recv")' /\ StreamOver'
      /\ UNCHANGED <<read, m_recvQueue, processed>>
  BY DEF RecvFails, Goto, Busy, StreamOver, TypeOK, Workers, incoming
<1>2. ReadInv'
  BY <1>1 DEF ReadInv
<1>3. ReceivedWhole'
  BY <1>1 DEF RecvInv, ReceivedWhole, ServerPacket
<1> QED
  BY <1>2, <1>3 DEF RecvInv

LEMMA InitStream == Init => StreamInv
<1> SUFFICES ASSUME Init PROVE StreamInv
  OBVIOUS
<1>1. /\ m_sendQueue = <<>> /\ queued = 0 /\ wire = <<>> /\ buffer = <<>>
      /\ processed = <<>> /\ m_recvQueue = <<>> /\ read = 0
      /\ ~Busy("send") /\ ~Busy("recv")
  BY DEF Init, Busy, Workers
<1>2. Taken = 0
  <2>1. Len(m_sendQueue) = 0
    BY <1>1
  <2>2. queued = 0
    BY <1>1
  <2> QED
    BY <2>1, <2>2 DEF Taken
<1>3. SendInv
  BY <1>1, <1>2 DEF SendInv, QueueInv, WireInv, TakenServed, SentWhole
<1>4. Received = <<>>
  BY <1>1 DEF Received
<1>5. Whole = 0
  BY <1>4, SessionAssumption DEF Whole
<1>6. RecvInv
  BY <1>1, <1>4, <1>5 DEF RecvInv, ReadInv, ReceivedWhole, Received
<1> QED
  BY <1>3, <1>6 DEF StreamInv

\* The worker's loop and the destructor leave both streams alone.
LEMMA StreamQuiet ==
  ASSUME StreamInv, UNCHANGED outgoing, UNCHANGED incoming,
         \A w \in Workers : Busy(w)' <=> Busy(w), StreamOver => StreamOver'
  PROVE  StreamInv'
<1>1. SendInv'
  BY SendQuiet DEF StreamInv, Workers
<1>2. RecvInv'
  BY RecvQuiet DEF StreamInv, Workers, incoming
<1> QED
  BY <1>1, <1>2 DEF StreamInv

LEMMA WorkerStream ==
  ASSUME TypeOK, StreamInv, NEW w \in Workers, Worker(w)
  PROVE  StreamInv'
<1>1. UNCHANGED outgoing /\ UNCHANGED incoming /\ socket' = socket
  BY DEF Worker, CheckRunning, Pin, Unpin, UseDestroyedSocket
<1>2. \A v \in Workers : Busy(v)' <=> Busy(v)
  BY DEF Worker, CheckRunning, Pin, Unpin, UseDestroyedSocket, Goto, Busy, TypeOK
<1>3. StreamOver => StreamOver'
  BY <1>1 DEF StreamOver, incoming
<1> QED
  BY <1>1, <1>2, <1>3, StreamQuiet

\* What the workers do with packets.
LEMMA TurnStream ==
  ASSUME TypeOK, StreamInv,
         \/ DequeueSendPacket \/ SendPart \/ SendFails
         \/ HasPendingData \/ RecvPart \/ RecvFails
  PROVE  StreamInv'
<1>1. CASE DequeueSendPacket \/ SendPart \/ SendFails
  <2>1. SendInv'
    BY <1>1, SendDequeue, SendOne, SendGivenUp DEF StreamInv
  <2>2. UNCHANGED incoming /\ socket' = socket /\ (Busy("recv")' <=> Busy("recv"))
    BY <1>1 DEF DequeueSendPacket, SendPart, SendFails, Goto, Busy, TypeOK, Workers
  <2>3. RecvInv'
    BY <2>2, RecvQuiet DEF StreamInv, incoming, StreamOver
  <2> QED
    BY <2>1, <2>3 DEF StreamInv
<1>2. CASE HasPendingData \/ RecvPart \/ RecvFails
  <2>1. RecvInv'
    BY <1>2, RecvLook, RecvOne, RecvGivenUp DEF StreamInv
  <2>2. UNCHANGED outgoing /\ (Busy("send")' <=> Busy("send"))
    BY <1>2 DEF HasPendingData, RecvPart, RecvFails, Goto, Busy, TypeOK, Workers
  <2>3. SendInv'
    BY <2>2, SendQuiet DEF StreamInv
  <2> QED
    BY <2>1, <2>3 DEF StreamInv
<1> QED
  BY <1>1, <1>2

\* The game thread queues packets and takes those that came.
LEMMA GameStream ==
  ASSUME IInv, StreamInv,
         \/ ConnectToServer \/ SendPacketOfGame \/ DequeueRecvPacket
         \/ DisconnectFromServer \/ CloseWindow \/ Leave
  PROVE  StreamInv'
<1>1. CASE ConnectToServer
  <2>1. socket = "none" /\ refs = {}
    BY <1>1 DEF ConnectToServer, IInv, RefsInv
  <2>2. \A w \in Workers : ~Busy(w) /\ ~Busy(w)'
    BY <1>1, <2>1 DEF ConnectToServer, IInv, RefsInv, InTurn, Busy
  <2>3. SendInv'
    BY <1>1, <2>2, SendEnqueue, SendQuiet DEF ConnectToServer, StreamInv, Workers, IInv
  <2>4. UNCHANGED incoming /\ ~StreamOver
    BY <1>1, <2>1 DEF ConnectToServer, StreamOver
  <2>5. RecvInv'
    BY <2>2, <2>4, RecvQuiet DEF StreamInv, Workers, incoming
  <2> QED
    BY <2>3, <2>5 DEF StreamInv
<1>2. CASE SendPacketOfGame \/ DisconnectFromServer
  <2>1. EnqueueSendPacket /\ UNCHANGED incoming /\ socket' = socket /\ at' = at
    BY <1>2 DEF SendPacketOfGame, DisconnectFromServer
  <2>2. SendInv'
    BY <2>1, SendEnqueue DEF StreamInv, Busy, IInv
  <2>3. RecvInv'
    BY <2>1, RecvQuiet DEF StreamInv, Busy, StreamOver, incoming
  <2> QED
    BY <2>2, <2>3 DEF StreamInv
<1>3. CASE DequeueRecvPacket
  <2>1. RecvInv'
    BY <1>3, RecvProcess DEF StreamInv, IInv
  <2>2. UNCHANGED outgoing /\ at' = at
    BY <1>3 DEF DequeueRecvPacket
  <2>3. SendInv'
    BY <2>2, SendQuiet DEF StreamInv, Busy
  <2> QED
    BY <2>1, <2>3 DEF StreamInv
<1>4. CASE CloseWindow \/ Leave
  <2>1. UNCHANGED outgoing /\ UNCHANGED incoming /\ at' = at
    BY <1>4 DEF CloseWindow, Leave, Shutdown, DestroySocket, ExitProcess
  <2>2. socket' = socket \/ socket' = "destroyed"
    BY <1>4 DEF CloseWindow, Leave, Shutdown, DestroySocket, ExitProcess
  <2>3. StreamOver => StreamOver'
    BY <2>1, <2>2 DEF StreamOver, incoming
  <2> QED
    BY <2>1, <2>3, StreamQuiet DEF Busy
<1> QED
  BY <1>1, <1>2, <1>3, <1>4

\* Every step keeps both streams whole.
LEMMA NextStream ==
  ASSUME IInv, StreamInv, [Next]_vars
  PROVE  StreamInv'
<1>1. TypeOK
  BY DEF IInv
<1>2. CASE Destructor \/ UNCHANGED vars
  <2>1. UNCHANGED outgoing /\ UNCHANGED incoming /\ at' = at /\ socket' = socket
    BY <1>2 DEF Destructor, Stop, Join, vars
  <2> QED
    BY <2>1, StreamQuiet DEF Busy, StreamOver, incoming
<1>3. CASE SendWorker \/ RecvWorker
  BY <1>1, <1>3, WorkerStream, TurnStream DEF SendWorker, RecvWorker, Workers
<1>4. CASE Connected \/ ServerSends \/ ServerCloses
  <2>1. UNCHANGED outgoing /\ at' = at /\ ~StreamOver
        /\ UNCHANGED <<read, buffer, m_recvQueue, processed>>
    BY <1>4 DEF Connected, ServerSends, ServerCloses, incoming, StreamOver
  <2>2. SendInv'
    BY <2>1, SendQuiet DEF StreamInv, Busy
  <2>3. RecvInv'
    BY <2>1, RecvQuiet DEF StreamInv, Busy
  <2> QED
    BY <2>2, <2>3 DEF StreamInv
<1> QED
  BY <1>2, <1>3, <1>4, GameStream DEF Next

-----------------------------------------------------------------------------
(* Theorems about ClientSession *)

\* The state keeps its type, whatever the size and the number of packets.
THEOREM TypeCorrect == Spec => []TypeOK
<1>1. IInv => TypeOK
  BY DEF IInv
<1> QED
  BY <1>1, Invariant, PTL

\* No thread is in ~ClientSession while a worker is in a turn of its loop
\* (NetworkWorker.cpp:49 and :117).
THEOREM SessionLives == Spec => []PinnedSessionLives
<1>1. IInv => PinnedSessionLives
  BY DEF IInv, RefsInv, DestroyerInv, PinnedSessionLives, InTurn
<1> QED
  BY <1>1, Invariant, PTL

\* When the game thread ran the destructor, both workers have ended before
\* their socket is destroyed (ClientSession.cpp:114-115).
THEOREM SocketOutlives == Spec => []SocketOutlivesWorkers
<1>1. IInv => SocketOutlivesWorkers
  BY DEF IInv, ProgressInv, SocketOutlivesWorkers, Workers
<1> QED
  BY <1>1, Invariant, PTL

\* Whatever the socket takes at once and wherever it fails, packets go out
\* whole, in order and each once but for those given up, and come in so to the
\* game thread (NetworkWorker.cpp:66-104 and :165).
THEOREM PacketsStayWhole == Spec => []PacketsWhole
<1>1. Init => StreamInv
  BY InitStream
<1>2. IInv /\ StreamInv /\ [Next]_vars => StreamInv'
  BY NextStream
<1>3. StreamInv => PacketsWhole
  BY DEF StreamInv, SendInv, RecvInv, PacketsWhole
<1> QED
  BY <1>1, <1>2, <1>3, Invariant, PTL DEF Spec

-----------------------------------------------------------------------------
(* ClientActors *)

\* What an actor is.
ActorStates ==
  [here : {"absent", "null", "spawned", "destroyed"}, hp : Int,
   gotHit : BOOLEAN, attacking : BOOLEAN, succeeded : BOOLEAN, dead : BOOLEAN,
   dying : BOOLEAN, destroySet : BOOLEAN, hitting : BOOLEAN]

Brains ==
  [gotHit : BOOLEAN, target : Wizards \cup {None},
   stale : 0 .. MaxTimers - 1, armed : BOOLEAN]

\* An attack under way may still hurt someone.
Armed(e) == actor[e].attacking /\ ~actor[e].succeeded

SwingInv ==
  \A e \in Enemies : hurt[e] <= 1 /\ (Armed(e) => hurt[e] = 0)

-----------------------------------------------------------------------------
(* Types. *)

LEMMA ActorTyped ==
  ASSUME NEW h \in {"absent", "null", "spawned", "destroyed"}, NEW n \in Int
  PROVE  Actor(h, n) \in ActorStates
  BY DEF Actor, ActorStates

LEMMA OnPossessTyped == OnPossess \in Brains
  BY ActorsAssumption DEF OnPossess, Brains

LEMMA AttackTyped ==
  ASSUME NEW a \in ActorStates
  PROVE  /\ StartAttack(a) \in ActorStates /\ StopAttack(a) \in ActorStates
         /\ [StopAttack(a) EXCEPT !.succeeded = FALSE] \in ActorStates
<1>1. StartAttack(a) \in ActorStates /\ StopAttack(a) \in ActorStates
  BY DEF ActorStates, StartAttack, StopAttack
<1>2. [StopAttack(a) EXCEPT !.succeeded = FALSE] \in ActorStates
  BY DEF ActorStates, StopAttack
<1> QED
  BY <1>1, <1>2

LEMMA HpTyped ==
  ASSUME NEW a \in ActorStates, NEW n \in Int
  PROVE  /\ TakeHp(a, n) \in ActorStates
         /\ [TakeHp(a, n) EXCEPT !.gotHit = TRUE] \in ActorStates
<1>1. TakeHp(a, n) \in ActorStates
  <2> DEFINE x == a.hp - n
             d == a.dead \/ a.hp - n <= 0
             g == a.gotHit \/ a.hp - n > 0
  <2>1. TakeHp(a, n) = [a EXCEPT !.hp = x, !.dead = d, !.gotHit = g]
    BY DEF TakeHp
  <2>2. x \in Int /\ d \in BOOLEAN /\ g \in BOOLEAN
    BY DEF ActorStates
  <2> HIDE DEF x, d, g
  <2>3. [a EXCEPT !.hp = x, !.dead = d, !.gotHit = g] \in ActorStates
    BY <2>2 DEF ActorStates
  <2> QED
    BY <2>1, <2>3
<1>2. [TakeHp(a, n) EXCEPT !.gotHit = TRUE] \in ActorStates
  BY <1>1 DEF ActorStates
<1> QED
  BY <1>1, <1>2

LEMMA WoundTyped ==
  ASSUME NEW w \in Actors, actor[w] \in ActorStates
  PROVE  Wound(w) \in ActorStates
<1> DEFINE now == TakeHp(actor[w], WizardDamage)
           corpse == Actor("spawned", now.hp)
<1>1. now \in ActorStates
  <2>1. WizardDamage \in Int
    BY DEF WizardDamage
  <2> QED
    BY <2>1, HpTyped
<1> HIDE DEF now
<1>2. corpse \in ActorStates
  BY <1>1, ActorTyped DEF ActorStates
<1> HIDE DEF corpse
<1>3. [corpse EXCEPT !.dead = TRUE, !.dying = now.dying, !.destroySet = now.destroySet]
        \in ActorStates
  BY <1>1, <1>2 DEF ActorStates
<1>4. Wound(w) = IF actor[w].dead THEN actor[w]
                 ELSE IF now.dead
                 THEN [corpse EXCEPT !.dead = TRUE, !.dying = now.dying,
                                     !.destroySet = now.destroySet]
                 ELSE now
  BY DEF Wound, now, corpse
<1> QED
  BY <1>1, <1>3, <1>4

\* Animation changes how an actor is shown, not its attack.
LEMMA AnimatedTyped ==
  ASSUME NEW a, NEW now \in ActorStates
  PROVE  /\ Animated(a, now) \in ActorStates
         /\ Animated(a, now).attacking = now.attacking
         /\ Animated(a, now).succeeded = now.succeeded
<1>1. (now.dying \/ ~now.destroySet) \in BOOLEAN
  OBVIOUS
<1> QED
  BY <1>1 DEF Animated, ActorStates

\* Nothing but actors and blackboards of actors that were there changes.
LEMMA OneActor ==
  ASSUME ActorTypeOK, NEW a \in Actors, NEW now \in ActorStates,
         actor' = [actor EXCEPT ![a] = now]
  PROVE  /\ actor' \in [Actors -> ActorStates]
         /\ \A b \in Actors : actor'[b] = IF b = a THEN now ELSE actor[b]
  BY DEF ActorTypeOK, ActorStates

LEMMA ActorInitial == ActorInit => ActorTypeOK /\ SwingInv
  <1> SUFFICES ASSUME ActorInit PROVE ActorTypeOK /\ SwingInv
    OBVIOUS
  <1>1. Actor("absent", 0) \in ActorStates /\ ~Actor("absent", 0).attacking
    BY ActorTyped DEF Actor
  <1>2. /\ running = TRUE /\ actor = [a \in Actors |-> Actor("absent", 0)]
        /\ brain = [e \in Enemies |-> OnPossess] /\ seen = [e \in Enemies |-> {}]
        /\ hurt = [e \in Enemies |-> 0]
    BY DEF ActorInit, NothingYet
  <1>3. actor \in [Actors -> ActorStates] /\ brain \in [Enemies -> Brains]
    BY <1>1, <1>2, OnPossessTyped
  <1>4. ActorTypeOK
    BY <1>2, <1>3 DEF ActorTypeOK, ActorStates, Brains
  <1> QED
    BY <1>1, <1>2, <1>4 DEF SwingInv, Armed, Actors

-----------------------------------------------------------------------------
(* Steps. *)

\* A step that leaves enemies' attacks as they are, or ends them.
LEMMA AttacksStay ==
  ASSUME SwingInv, hurt' = hurt,
         \A e \in Enemies : Armed(e)' => Armed(e)
  PROVE  SwingInv'
  BY DEF SwingInv

LEMMA CrashNext == ASSUME Crash PROVE ActorTypeOK' /\ SwingInv'
<1>1. Actor("absent", 0) \in ActorStates /\ ~Actor("absent", 0).attacking
  BY ActorTyped DEF Actor
<1>2. /\ running' = FALSE /\ actor' = [a \in Actors |-> Actor("absent", 0)]
      /\ brain' = [e \in Enemies |-> OnPossess] /\ seen' = [e \in Enemies |-> {}]
      /\ hurt' = [e \in Enemies |-> 0]
  BY DEF Crash, NothingYet
<1>3. actor' \in [Actors -> ActorStates] /\ brain' \in [Enemies -> Brains]
  BY <1>1, <1>2, OnPossessTyped
<1>4. ActorTypeOK'
  BY <1>2, <1>3 DEF ActorTypeOK, ActorStates, Brains
<1> QED
  BY <1>1, <1>2, <1>4 DEF SwingInv, Armed, Actors

\* An actor changes and keeps its attack, or ends it.
LEMMA ChangeNext ==
  ASSUME ActorTypeOK, SwingInv, NEW a \in Actors, NEW now \in ActorStates,
         actor' = [actor EXCEPT ![a] = now],
         UNCHANGED <<running, brain, seen, hurt>>,
         a \in Enemies /\ now.attacking /\ ~now.succeeded => Armed(a)
  PROVE  ActorTypeOK' /\ SwingInv'
<1>1. /\ actor' \in [Actors -> ActorStates]
      /\ \A b \in Actors : actor'[b] = IF b = a THEN now ELSE actor[b]
  BY OneActor
<1>2. ActorTypeOK'
  BY <1>1 DEF ActorTypeOK, ActorStates
<1>3. \A e \in Enemies : Armed(e)' => Armed(e)
  BY <1>1 DEF Armed, Actors
<1> QED
  BY <1>2, <1>3, AttacksStay

LEMMA GoneNext ==
  ASSUME ActorTypeOK, SwingInv, NEW a \in Actors,
         NEW h \in {"absent", "destroyed"}, Gone(a, h)
  PROVE  ActorTypeOK' /\ SwingInv'
<1>1. Actor(h, 0) \in ActorStates /\ ~Actor(h, 0).attacking
  BY ActorTyped DEF Actor
<1>2. /\ actor' \in [Actors -> ActorStates]
      /\ \A b \in Actors : actor'[b] = IF b = a THEN Actor(h, 0) ELSE actor[b]
  BY <1>1, OneActor DEF Gone
<1>3. brain' \in [Enemies -> Brains]
  <2>1. brain' = [e \in Enemies |->
                    IF e = a THEN OnPossess
                    ELSE [brain[e] EXCEPT !.target = IF brain[e].target = a THEN None ELSE brain[e].target]]
    BY DEF Gone
  <2>2. ASSUME NEW e \in Enemies
        PROVE  [brain[e] EXCEPT !.target = IF brain[e].target = a THEN None ELSE brain[e].target]
                 \in Brains
    BY DEF ActorTypeOK, Brains
  <2> QED
    BY <2>1, <2>2, OnPossessTyped
<1>4. /\ seen' \in [Enemies -> SUBSET (Actors \cup Others)]
      /\ UNCHANGED <<running, hurt>>
  BY DEF Gone, ActorTypeOK
<1>5. ActorTypeOK'
  BY <1>2, <1>3, <1>4 DEF ActorTypeOK, ActorStates, Brains
<1>6. \A e \in Enemies : Armed(e)' => Armed(e)
  BY <1>1, <1>2 DEF Armed, Actors
<1> QED
  BY <1>4, <1>5, <1>6, AttacksStay

LEMMA BrainNext ==
  ASSUME ActorTypeOK, SwingInv, brain' \in [Enemies -> Brains],
         seen' \in [Enemies -> SUBSET (Actors \cup Others)], UNCHANGED <<running, actor, hurt>>
  PROVE  ActorTypeOK' /\ SwingInv'
<1>1. ActorTypeOK'
  BY DEF ActorTypeOK, Brains
<1>2. \A e \in Enemies : Armed(e)' => Armed(e)
  BY DEF Armed
<1> QED
  BY <1>1, <1>2, AttacksStay

LEMMA WizardNext ==
  ASSUME ActorTypeOK, SwingInv, NEW w \in Wizards,
         \/ AddPlayer(w) \/ RemovePlayerById(w)
         \/ \E battack \in BOOLEAN : UpdatePlayerMovement(w, battack)
  PROVE  ActorTypeOK' /\ SwingInv'
<1>1. w \in Actors /\ w \notin Enemies /\ actor[w] \in ActorStates
  BY ActorsAssumption DEF Actors, ActorTypeOK, ActorStates
<1>2. CASE AddPlayer(w)
  <2>1. Actor("spawned", PlayerHp) \in ActorStates /\ Actor("null", 0) \in ActorStates
    BY ActorsAssumption, ActorTyped
  <2>2. CASE Crash
    BY <2>2, CrashNext
  <2>3. ASSUME NEW now \in ActorStates, actor' = [actor EXCEPT ![w] = now],
               UNCHANGED <<running, brain, seen, hurt>>
        PROVE  ActorTypeOK' /\ SwingInv'
    BY <1>1, <2>3, ChangeNext
  <2> QED
    BY <1>2, <2>1, <2>2, <2>3 DEF AddPlayer
<1>3. CASE RemovePlayerById(w)
  BY <1>1, <1>3, CrashNext, GoneNext DEF RemovePlayerById
<1>4. ASSUME NEW battack \in BOOLEAN, UpdatePlayerMovement(w, battack)
      PROVE  ActorTypeOK' /\ SwingInv'
  <2> DEFINE now == IF battack THEN StartAttack(actor[w]) ELSE StopAttack(actor[w])
  <2>1. now \in ActorStates
    <3>1. StartAttack(actor[w]) \in ActorStates /\ StopAttack(actor[w]) \in ActorStates
      BY <1>1, AttackTyped
    <3> QED
      BY <3>1
  <2>2. CASE Crash
    BY <2>2, CrashNext
  <2>3. CASE /\ actor' = [actor EXCEPT ![w] = now]
             /\ UNCHANGED <<running, brain, seen, hurt>>
    <3> HIDE DEF now
    <3> QED
      BY <1>1, <2>1, <2>3, ChangeNext
  <2> QED
    BY <1>4, <2>2, <2>3 DEF UpdatePlayerMovement
<1> QED
  BY <1>2, <1>3, <1>4

LEMMA KeyNext ==
  ASSUME ActorTypeOK, SwingInv, PressAttack \/ ReleaseAttack
  PROVE  ActorTypeOK' /\ SwingInv'
<1>1. Me \in Actors /\ Me \notin Enemies /\ actor[Me] \in ActorStates
  BY ActorsAssumption DEF Actors, ActorTypeOK, ActorStates
<1>2. StartAttack(actor[Me]) \in ActorStates /\ StopAttack(actor[Me]) \in ActorStates
  BY <1>1, AttackTyped
<1>3. ASSUME NEW now \in ActorStates, Key(now) PROVE ActorTypeOK' /\ SwingInv'
  BY <1>1, <1>3, ChangeNext DEF Key
<1> QED
  BY <1>2, <1>3 DEF PressAttack, ReleaseAttack

LEMMA AnimationNext ==
  ASSUME ActorTypeOK, SwingInv, NEW a \in Actors, Proceed(a) \/ ResetHit(a)
  PROVE  ActorTypeOK' /\ SwingInv'
<1>1. actor[a] \in ActorStates
  BY DEF ActorTypeOK, ActorStates
<1>2. CASE NativeUpdateAnimation(a)
  <2>1. /\ Animated(a, actor[a]) \in ActorStates
        /\ Animated(a, actor[a]).attacking = actor[a].attacking
        /\ Animated(a, actor[a]).succeeded = actor[a].succeeded
    BY <1>1, AnimatedTyped
  <2> QED
    BY <1>2, <2>1, ChangeNext DEF NativeUpdateAnimation, Armed
<1>3. CASE DestroyTimer(a)
  <2> DEFINE now == [actor[a] EXCEPT !.destroySet = TRUE]
  <2>1. now \in ActorStates /\ now.attacking = actor[a].attacking /\ now.succeeded = actor[a].succeeded
    BY <1>1 DEF ActorStates
  <2>2. actor' = [actor EXCEPT ![a] = now] /\ UNCHANGED <<running, brain, seen, hurt>>
    BY <1>3 DEF DestroyTimer
  <2> HIDE DEF now
  <2> QED
    BY <2>1, <2>2, ChangeNext DEF Armed
<1>4. CASE DestroyActor(a)
  BY <1>4, GoneNext DEF DestroyActor
<1>5. CASE ResetHit(a)
  <2>1. /\ actor' = [actor EXCEPT ![a].gotHit = FALSE, ![a].hitting = FALSE]
        /\ brain' = [e \in Enemies |-> [brain[e] EXCEPT !.gotHit = @ /\ e # a]]
        /\ UNCHANGED <<running, seen, hurt>>
    BY <1>5 DEF ResetHit
  <2>2. actor' \in [Actors -> ActorStates]
    <3> DEFINE now == [actor[a] EXCEPT !.gotHit = FALSE, !.hitting = FALSE]
    <3>1. now \in ActorStates
      BY <1>1 DEF ActorStates
    <3>2. actor' = [actor EXCEPT ![a] = now]
      BY <2>1 DEF ActorTypeOK
    <3> HIDE DEF now
    <3> QED
      BY <3>1, <3>2, OneActor
  <2>3. ASSUME NEW e \in Enemies
        PROVE  [brain[e] EXCEPT !.gotHit = brain[e].gotHit /\ e # a] \in Brains
    <3> DEFINE g == brain[e].gotHit /\ e # a
    <3>1. g \in BOOLEAN /\ brain[e] \in Brains
      BY DEF ActorTypeOK, Brains
    <3> HIDE DEF g
    <3>2. [brain[e] EXCEPT !.gotHit = g] \in Brains
      BY <3>1 DEF Brains
    <3> QED
      BY <3>2 DEF g
  <2>4. brain' \in [Enemies -> Brains]
    BY <2>1, <2>3
  <2>5. ActorTypeOK'
    BY <2>1, <2>2, <2>4 DEF ActorTypeOK, ActorStates, Brains
  <2>6. ASSUME NEW b \in Actors
        PROVE  actor'[b].attacking = actor[b].attacking /\ actor'[b].succeeded = actor[b].succeeded
    BY <2>1 DEF ActorTypeOK
  <2>7. \A e \in Enemies : Armed(e)' => Armed(e)
    BY <2>6 DEF Armed, Actors
  <2> QED
    BY <2>1, <2>5, <2>7, AttacksStay
<1> QED
  BY <1>2, <1>3, <1>4, <1>5 DEF Proceed

LEMMA SightNext ==
  ASSUME ActorTypeOK, SwingInv, NEW e \in Enemies,
         \/ StartEnemyTimer(e)
         \/ \E a \in Actors \cup Others, sensed \in BOOLEAN : OnTargetInSight(e, a, sensed)
  PROVE  ActorTypeOK' /\ SwingInv'
<1>1. /\ brain[e] \in Brains /\ brain \in [Enemies -> Brains]
      /\ seen \in [Enemies -> SUBSET (Actors \cup Others)]
  BY DEF ActorTypeOK, Brains
<1>2. CASE StartEnemyTimer(e)
  <2> DEFINE h == brain[e].armed /\ brain[e].stale > 0
             t == IF brain[e].stale > 0 THEN brain[e].stale - 1 ELSE 0
             now == [brain[e] EXCEPT !.target = None, !.stale = t, !.armed = h]
  <2>1. /\ brain' = [brain EXCEPT ![e] = now]
        /\ UNCHANGED <<running, actor, seen, hurt>>
    BY <1>1, <1>2 DEF StartEnemyTimer, Brains
  <2>2. h \in BOOLEAN /\ t \in 0 .. MaxTimers - 1
    <3>1. brain[e].stale \in 0 .. MaxTimers - 1
      BY <1>1 DEF Brains
    <3>2. h \in BOOLEAN
      OBVIOUS
    <3> QED
      BY <3>1, <3>2, ActorsAssumption
  <2> HIDE DEF h, t
  <2>3. now \in Brains
    BY <1>1, <2>2 DEF Brains
  <2> HIDE DEF now
  <2>4. brain' \in [Enemies -> Brains]
    BY <1>1, <2>1, <2>3
  <2> QED
    BY <1>1, <2>1, <2>4, BrainNext
<1>3. ASSUME NEW a \in Actors \cup Others, NEW sensed \in BOOLEAN, OnTargetInSight(e, a, sensed)
      PROVE  ActorTypeOK' /\ SwingInv'
  <2> DEFINE now == IF Spotted(a, sensed) THEN Sighted(brain[e], a) ELSE SetTimer(brain[e])
  <2>1. /\ brain' = [brain EXCEPT ![e] = now]
        /\ seen' = [seen EXCEPT ![e] = IF sensed THEN @ \cup {a} ELSE @ \ {a}]
        /\ UNCHANGED <<running, actor, hurt>>
    BY <1>3 DEF OnTargetInSight
  <2>2. ASSUME Spotted(a, sensed) PROVE Sighted(brain[e], a) \in Brains
    <3> DEFINE t == IF brain[e].armed THEN brain[e].stale + 1 ELSE brain[e].stale
    <3>1. a \in Wizards
      BY <2>2 DEF Spotted
    <3>2. brain[e].stale \in 0 .. MaxTimers - 1
      BY <1>1 DEF Brains
    <3>3. brain[e].armed => brain[e].stale < MaxTimers - 1
      BY <1>3, <2>2 DEF OnTargetInSight
    <3>4. t \in 0 .. MaxTimers - 1
      BY <3>2, <3>3, ActorsAssumption
    <3>5. Sighted(brain[e], a) = [brain[e] EXCEPT !.stale = t, !.armed = FALSE, !.target = a]
      BY DEF Sighted
    <3> HIDE DEF t
    <3> QED
      BY <1>1, <3>1, <3>4, <3>5 DEF Brains
  <2>3. SetTimer(brain[e]) \in Brains
    BY <1>1 DEF SetTimer, Brains
  <2>4. now \in Brains
    BY <2>2, <2>3
  <2> HIDE DEF now
  <2>5. brain' \in [Enemies -> Brains]
    BY <1>1, <2>1, <2>4
  <2>6. seen' \in [Enemies -> SUBSET (Actors \cup Others)]
    BY <1>1, <2>1
  <2> QED
    BY <2>1, <2>5, <2>6, BrainNext
<1> QED
  BY <1>2, <1>3

LEMMA SwingNext ==
  ASSUME ActorTypeOK, SwingInv, NEW e \in Enemies,
         ExecuteTask(e) \/ \E w \in Wizards : OnHandOverlap(e, w)
  PROVE  ActorTypeOK' /\ SwingInv'
<1>1. e \in Actors /\ actor[e] \in ActorStates /\ hurt \in [Enemies -> Nat]
  BY DEF Actors, ActorTypeOK, ActorStates
<1>2. CASE ExecuteTask(e)
  <2> DEFINE now == StartAttack(actor[e])
  <2>1. now \in ActorStates
    BY <1>1, AttackTyped
  <2> HIDE DEF now
  <2>2. /\ actor' = [actor EXCEPT ![e] = now] /\ hurt' = [hurt EXCEPT ![e] = 0]
        /\ UNCHANGED <<running, brain, seen>>
    BY <1>2 DEF ExecuteTask, now
  <2>3. /\ actor' \in [Actors -> ActorStates]
        /\ \A b \in Actors : actor'[b] = IF b = e THEN now ELSE actor[b]
    BY <1>1, <2>1, <2>2, OneActor
  <2>4. hurt' \in [Enemies -> Nat]
    BY <1>1, <2>2
  <2>5. ActorTypeOK'
    BY <2>2, <2>3, <2>4 DEF ActorTypeOK, ActorStates
  <2>6. ASSUME NEW f \in Enemies PROVE hurt'[f] <= 1 /\ (Armed(f)' => hurt'[f] = 0)
    <3>1. CASE f = e
      BY <1>1, <2>2, <3>1
    <3>2. CASE f # e
      BY <1>1, <2>2, <2>3, <3>2 DEF SwingInv, Armed, Actors
    <3> QED
      BY <3>1, <3>2
  <2> QED
    BY <2>5, <2>6 DEF SwingInv
<1>3. ASSUME NEW w \in Wizards, OnHandOverlap(e, w) PROVE ActorTypeOK' /\ SwingInv'
  <2> DEFINE struck == [actor[e] EXCEPT !.succeeded = TRUE]
             wounded == Wound(w)
  <2>1. w \in Actors /\ e # w /\ w \notin Enemies /\ actor[w] \in ActorStates
    BY ActorsAssumption DEF Actors, ActorTypeOK, ActorStates
  <2>2. struck \in ActorStates /\ wounded \in ActorStates /\ struck.succeeded
    BY <1>1, <2>1, WoundTyped DEF ActorStates
  <2>3. /\ actor' = [actor EXCEPT ![e] = struck, ![w] = wounded]
        /\ hurt' = [hurt EXCEPT ![e] = @ + 1] /\ Armed(e)
        /\ UNCHANGED <<running, brain, seen>>
    BY <1>3 DEF OnHandOverlap, Armed
  <2> HIDE DEF struck, wounded
  <2>4. /\ actor' \in [Actors -> ActorStates]
        /\ \A b \in Actors :
             actor'[b] = IF b = w THEN wounded ELSE IF b = e THEN struck ELSE actor[b]
    BY <1>1, <2>1, <2>2, <2>3 DEF ActorTypeOK, ActorStates
  <2>5. hurt' \in [Enemies -> Nat]
    BY <1>1, <2>3
  <2>6. ActorTypeOK'
    BY <2>3, <2>4, <2>5 DEF ActorTypeOK, ActorStates
  <2>7. ASSUME NEW f \in Enemies PROVE hurt'[f] <= 1 /\ (Armed(f)' => hurt'[f] = 0)
    <3>1. CASE f = e
      <4>1. ~Armed(f)'
        BY <1>1, <2>1, <2>2, <2>4, <3>1 DEF Armed
      <4>2. hurt[f] = 0 /\ hurt'[f] = hurt[f] + 1
        BY <1>1, <2>3, <3>1 DEF SwingInv
      <4> QED
        BY <4>1, <4>2
    <3>2. CASE f # e
      <4>1. actor'[f] = actor[f] /\ hurt'[f] = hurt[f]
        BY <1>1, <2>1, <2>3, <2>4, <3>2 DEF Actors
      <4> QED
        BY <4>1 DEF SwingInv, Armed
    <3> QED
      BY <3>1, <3>2
  <2> QED
    BY <2>6, <2>7 DEF SwingInv
<1> QED
  BY <1>2, <1>3

LEMMA EnemyNext ==
  ASSUME ActorTypeOK, SwingInv, NEW e \in Enemies,
         AddEnemy(e) \/ UpdateEnemyHp(e) \/ NotifyStopAttack(e)
  PROVE  ActorTypeOK' /\ SwingInv'
<1>1. e \in Actors /\ actor[e] \in ActorStates
  BY DEF Actors, ActorTypeOK, ActorStates
<1>2. CASE AddEnemy(e)
  <2>1. Actor("spawned", EnemyHp) \in ActorStates /\ ~Actor("spawned", EnemyHp).attacking
    BY ActorTyped DEF Actor, EnemyHp
  <2> QED
    BY <1>1, <1>2, <2>1, ChangeNext DEF AddEnemy
<1>3. CASE NotifyStopAttack(e)
  <2>1. /\ [StopAttack(actor[e]) EXCEPT !.succeeded = FALSE] \in ActorStates
        /\ ~[StopAttack(actor[e]) EXCEPT !.succeeded = FALSE].attacking
    BY <1>1, AttackTyped DEF StopAttack, ActorStates
  <2> QED
    BY <1>1, <1>3, <2>1, ChangeNext DEF NotifyStopAttack
<1>4. CASE UpdateEnemyHp(e)
  <2> DEFINE now == [TakeHp(actor[e], EnemyDamage) EXCEPT !.gotHit = TRUE]
  <2>1. EnemyDamage \in Int
    BY DEF EnemyDamage
  <2>2. now \in ActorStates
    BY <1>1, <2>1, HpTyped
  <2>3. now.attacking = actor[e].attacking /\ now.succeeded = actor[e].succeeded
    BY <1>1 DEF TakeHp, ActorStates
  <2> HIDE DEF now
  <2>4. /\ actor' = [actor EXCEPT ![e] = now] /\ brain' = [brain EXCEPT ![e].gotHit = TRUE]
        /\ UNCHANGED <<running, seen, hurt>>
    BY <1>4 DEF UpdateEnemyHp, now
  <2>5. /\ actor' \in [Actors -> ActorStates]
        /\ \A b \in Actors : actor'[b] = IF b = e THEN now ELSE actor[b]
    BY <1>1, <2>2, <2>4, OneActor
  <2>6. brain' \in [Enemies -> Brains]
    BY <2>4 DEF ActorTypeOK, Brains
  <2>7. ActorTypeOK'
    BY <2>4, <2>5, <2>6 DEF ActorTypeOK, ActorStates, Brains
  <2>8. \A f \in Enemies : Armed(f)' => Armed(f)
    BY <2>3, <2>5 DEF Armed, Actors
  <2> QED
    BY <2>4, <2>7, <2>8, AttacksStay
<1> QED
  BY <1>2, <1>3, <1>4

LEMMA ActorsNext ==
  ASSUME ActorTypeOK, SwingInv, [ActorNext]_actorVars
  PROVE  ActorTypeOK' /\ SwingInv'
<1>1. CASE UNCHANGED actorVars
  BY <1>1 DEF actorVars, ActorTypeOK, SwingInv, Armed
<1>2. CASE ActorNext
  BY <1>2, WizardNext, KeyNext, AnimationNext, SightNext, SwingNext, EnemyNext DEF ActorNext
<1> QED
  BY <1>1, <1>2

-----------------------------------------------------------------------------

\* The actors and blackboards of any level keep their types; no blackboard
\* names anyone but a wizard (CastleDefenseGameState.h, EnemyAIController.h).
THEOREM ActorTypeCorrect == ActorSpec => []ActorTypeOK
<1>1. ActorInit => ActorTypeOK /\ SwingInv
  BY ActorInitial
<1>2. ActorTypeOK /\ SwingInv /\ [ActorNext]_actorVars => ActorTypeOK' /\ SwingInv'
  BY ActorsNext
<1> QED
  BY <1>1, <1>2, PTL DEF ActorSpec

\* However sword overlaps, hits and ends of attacks follow each other, an
\* attack that may still hurt someone has hurt nobody, so each attack hurts one
\* wizard at most (SkeletonEnemy.cpp:140-148).
THEOREM OneHitPerSwingHolds == ActorSpec => []OneHitPerSwing
<1>1. ActorInit => ActorTypeOK /\ SwingInv
  BY ActorInitial
<1>2. ActorTypeOK /\ SwingInv /\ [ActorNext]_actorVars => ActorTypeOK' /\ SwingInv'
  BY ActorsNext
<1>3. SwingInv => OneHitPerSwing
  BY DEF SwingInv, OneHitPerSwing
<1> QED
  BY <1>1, <1>2, <1>3, PTL DEF ActorSpec

=============================================================================
