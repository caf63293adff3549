---------------------------- MODULE ClientSession ----------------------------
(***************************************************************************)
(* The network side of the client program: ClientSession with its send and *)
(* its receive worker (NetworkWorker.cpp), and the game instance that      *)
(* connects, queues packets and shuts down.                                *)
(*                                                                         *)
(* Three threads run: the game thread and the two workers.  The game       *)
(* instance owns the session by a shared pointer; a worker has a weak one  *)
(* and makes it a shared pointer for one turn of its loop.  Whoever drops  *)
(* the last of them runs the destructor, which stops both workers.         *)
(***************************************************************************)
EXTENDS Naturals, Sequences

CONSTANTS
  Parts,       \* calls of Send or Recv a packet takes
  MaxPackets,  \* bound: packets the program queues
  MaxArrived   \* bound: parts of packets the server sends

ASSUME SessionAssumption ==
  /\ Parts \in Nat \ {0}
  /\ MaxPackets \in Nat \ {0}
  /\ MaxArrived \in Nat

VARIABLES
  game,         \* how far the game thread has come
  socket,       \* m_pSocket
  refs,         \* threads that have a shared pointer to the session
  destroyer,    \* the thread in ~ClientSession
  dtor,         \* and where it is there
  m_bRunning,   \* the flag of each worker
  at,           \* where each worker is in its loop
  m_sendQueue,  \* packets to send
  queued,       \* packets ever queued, which are numbered from 1
  despawn,      \* the number of the C_Despawn, or 0
  sending,      \* the packet that the send worker sends and its next part
  wire,         \* parts the socket took
  lost,         \* packets a call of Send failed for
  arrived,      \* parts the server sent, which are numbered from 1
  read,         \* parts the receive worker has read
  buffer,       \* those of the packet it is reading
  m_recvQueue,  \* packets received
  processed     \* packets the game thread has taken

outgoing == <<m_sendQueue, queued, despawn, sending, wire, lost>>
incoming == <<arrived, read, buffer, m_recvQueue, processed>>
session == <<refs, destroyer, dtor, m_bRunning>>
vars == <<game, socket, session, at, outgoing, incoming>>

Workers == {"send", "recv"}
Threads == {"game"} \cup Workers

Part(packet, part) == [packet |-> packet, part |-> part]
SentParts == [packet : 1 .. MaxPackets, part : 1 .. Parts]

TypeOK ==
  /\ game \in {"menu", "playing", "quitting", "destroying", "closing",
               "shutdown", "ended", "crashed"}
  /\ socket \in {"none", "connecting", "connected", "closed", "destroyed"}
  /\ refs \subseteq Threads
  /\ destroyer \in Threads \cup {"nobody"}
  /\ dtor \in {"idle", "stopSend", "joinSend", "stopRecv", "joinRecv", "over"}
  /\ m_bRunning \in [Workers -> BOOLEAN]
  /\ at \in [Workers -> {"none", "run", "pin", "pinned", "busy", "unpin",
                         "destroying", "exited"}]
  /\ m_sendQueue \in Seq(1 .. MaxPackets)
  /\ queued \in 0 .. MaxPackets
  /\ despawn \in 0 .. MaxPackets
  /\ sending \in SentParts
  /\ wire \in Seq(SentParts)
  /\ lost \subseteq 1 .. MaxPackets
  /\ arrived \in 0 .. MaxArrived
  /\ read \in 0 .. arrived
  /\ buffer \in Seq(1 .. MaxArrived)
  /\ m_recvQueue \in Seq(Seq(1 .. MaxArrived))
  /\ processed \in Seq(Seq(1 .. MaxArrived))

Init ==
  /\ game = "menu"
  /\ socket = "none"
  /\ refs = {}
  /\ destroyer = "nobody"
  /\ dtor = "idle"
  /\ m_bRunning = [w \in Workers |-> TRUE]
  /\ at = [w \in Workers |-> "none"]
  /\ m_sendQueue = <<>>
  /\ queued = 0
  /\ despawn = 0
  /\ sending = Part(1, 1)
  /\ wire = <<>>
  /\ lost = {}
  /\ arrived = 0
  /\ read = 0
  /\ buffer = <<>>
  /\ m_recvQueue = <<>>
  /\ processed = <<>>

-----------------------------------------------------------------------------
(* The game thread *)

InGame == game \in {"playing", "quitting"}

EnqueueSendPacket ==
  /\ queued < MaxPackets
  /\ queued' = queued + 1
  /\ m_sendQueue' = Append(m_sendQueue, queued + 1)
  /\ UNCHANGED <<sending, wire, lost>>

\* The session and its workers come to life whether Connect succeeds or not;
\* as the socket does not block, it has not connected yet when it does.
ConnectToServer ==
  /\ game = "menu"
  /\ game' = "playing"
  /\ refs' = {"game"}
  /\ at' = [w \in Workers |-> "run"]
  /\ \/ /\ socket' = "connecting"
        /\ EnqueueSendPacket
        /\ UNCHANGED despawn
     \/ /\ socket' = "closed"
        /\ UNCHANGED outgoing
  /\ UNCHANGED <<destroyer, dtor, m_bRunning, incoming>>

\* SendC_Spawn, SendC_Move, SendC_Chat and SendC_Attack.
SendPacketOfGame ==
  /\ InGame
  /\ EnqueueSendPacket
  /\ UNCHANGED <<game, socket, session, at, despawn, incoming>>

DequeueRecvPacket ==
  /\ InGame
  /\ m_recvQueue # <<>>
  /\ m_recvQueue' = Tail(m_recvQueue)
  /\ processed' = Append(processed, Head(m_recvQueue))
  /\ UNCHANGED <<game, socket, session, at, outgoing, arrived, read, buffer>>

\* C_Despawn is queued and the engine is told to quit.
DisconnectFromServer ==
  /\ game = "playing"
  /\ EnqueueSendPacket
  /\ despawn' = queued + 1
  /\ game' = "quitting"
  /\ UNCHANGED <<socket, session, at, incoming>>

\* Or the window is closed.
CloseWindow ==
  /\ game \in {"menu", "playing"}
  /\ game' = "quitting"
  /\ UNCHANGED <<socket, session, at, outgoing, incoming>>

\* Thread t drops its shared pointer; the last one enters the destructor.
Release(t) ==
  /\ refs' = refs \ {t}
  /\ IF refs = {t} THEN destroyer' = t /\ dtor' = "stopSend"
                   ELSE UNCHANGED <<destroyer, dtor>>

\* Shutdown up to m_pSession = nullptr.
Shutdown ==
  /\ game = "quitting"
  /\ IF socket = "none"
     THEN game' = "shutdown" /\ UNCHANGED <<refs, destroyer, dtor>>
     ELSE /\ Release("game")
          /\ game' = IF refs = {"game"} THEN "destroying" ELSE "closing"
  /\ UNCHANGED <<socket, m_bRunning, at, outgoing, incoming>>

\* And from there on.
DestroySocket ==
  /\ game = "closing"
  /\ socket' = "destroyed"
  /\ game' = "shutdown"
  /\ UNCHANGED <<session, at, outgoing, incoming>>

\* The process ends, and with it every thread.
ExitProcess ==
  /\ game = "shutdown"
  /\ game' = "ended"
  /\ UNCHANGED <<socket, session, at, outgoing, incoming>>

-----------------------------------------------------------------------------
(* ~ClientSession, in the thread that entered it *)

\* Mutant: the flag is left alone.
Stop_KeepRunning(w, here, next) ==
  /\ dtor = here
  /\ dtor' = next
  /\ UNCHANGED <<game, socket, refs, destroyer, m_bRunning, at, outgoing, incoming>>

\* The first half of the worker's Shutdown.
Stop(w, here, next) ==
  /\ dtor = here
  /\ m_bRunning' = [m_bRunning EXCEPT ![w] = FALSE]
  /\ dtor' = next
  /\ UNCHANGED <<game, socket, refs, destroyer, at, outgoing, incoming>>

\* Mutant: nobody waits for the thread.
Join_NoWait(w, here, next) ==
  /\ dtor = here
  /\ dtor' = next
  /\ game' = IF next = "over" /\ destroyer = "game" THEN "closing" ELSE game
  /\ UNCHANGED <<socket, refs, destroyer, m_bRunning, at, outgoing, incoming>>

\* The second half, WaitForCompletion.  The game thread returns from the last
\* one to Shutdown.
Join(w, here, next) ==
  /\ dtor = here
  /\ at[w] = "exited"
  /\ dtor' = next
  /\ game' = IF next = "over" /\ destroyer = "game" THEN "closing" ELSE game
  /\ UNCHANGED <<socket, refs, destroyer, m_bRunning, at, outgoing, incoming>>

Destructor ==
  /\ game \notin {"ended", "crashed"}
  /\ \/ Stop("send", "stopSend", "joinSend")
     \/ Join("send", "joinSend", "stopRecv")
     \/ Stop("recv", "stopRecv", "joinRecv")
     \/ Join("recv", "joinRecv", "over")

-----------------------------------------------------------------------------
(* The workers *)

Goto(w, place) == at' = [at EXCEPT ![w] = place]

\* The condition of the loop of Run.
CheckRunning(w) ==
  /\ at[w] = "run"
  /\ Goto(w, IF m_bRunning[w] THEN "pin" ELSE "exited")
  /\ UNCHANGED <<game, socket, session, outgoing, incoming>>

\* Mutant: the weak pointer is taken for a shared one.
Pin_Unchecked(w) ==
  /\ at[w] = "pin"
  /\ Goto(w, "pinned")
  /\ refs' = refs \cup {w}
  /\ UNCHANGED <<game, socket, destroyer, dtor, m_bRunning, outgoing, incoming>>

\* The weak pointer gives none once the last shared one is gone.
Pin(w) ==
  /\ at[w] = "pin"
  /\ IF refs = {}
     THEN Goto(w, "run") /\ UNCHANGED refs
     ELSE Goto(w, "pinned") /\ refs' = refs \cup {w}
  /\ UNCHANGED <<game, socket, destroyer, dtor, m_bRunning, outgoing, incoming>>

\* The end of the turn, or a return.
Unpin(w) ==
  /\ at[w] = "unpin"
  /\ Release(w)
  /\ Goto(w, IF refs = {w} THEN "destroying" ELSE "run")
  /\ UNCHANGED <<game, socket, m_bRunning, outgoing, incoming>>

\* Where worker w is about to use m_pSocket.
UsesSocket(w) == at[w] = "busy" \/ (w = "recv" /\ at[w] = "pinned")

\* A socket that was destroyed may stop the program, or fail.
UseDestroyedSocket(w) ==
  /\ UsesSocket(w)
  /\ socket = "destroyed"
  /\ game' = "crashed"
  /\ UNCHANGED <<socket, session, at, outgoing, incoming>>

\* Mutant: the worker ends when it has nothing to send.
DequeueSendPacket_Exit ==
  /\ at["send"] = "pinned"
  /\ IF m_sendQueue = <<>>
     THEN /\ Goto("send", "exited")
          /\ refs' = refs \ {"send"}
          /\ UNCHANGED <<m_sendQueue, sending>>
     ELSE /\ Goto("send", "busy")
          /\ m_sendQueue' = Tail(m_sendQueue)
          /\ sending' = Part(Head(m_sendQueue), 1)
          /\ UNCHANGED refs
  /\ UNCHANGED <<game, socket, destroyer, dtor, m_bRunning, queued, despawn, wire, lost, incoming>>

DequeueSendPacket ==
  /\ at["send"] = "pinned"
  /\ IF m_sendQueue = <<>>
     THEN Goto("send", "unpin") /\ UNCHANGED <<m_sendQueue, sending>>
     ELSE /\ Goto("send", "busy")
          /\ m_sendQueue' = Tail(m_sendQueue)
          /\ sending' = Part(Head(m_sendQueue), 1)
  /\ UNCHANGED <<game, socket, session, queued, despawn, wire, lost, incoming>>

\* A turn of the loop of SendPacket.
SendPart ==
  /\ at["send"] = "busy"
  /\ socket = "connected"
  /\ wire' = Append(wire, sending)
  /\ IF sending.part = Parts
     THEN Goto("send", "unpin") /\ UNCHANGED sending
     ELSE sending' = [sending EXCEPT !.part = @ + 1] /\ UNCHANGED at
  /\ UNCHANGED <<game, socket, session, m_sendQueue, queued, despawn, lost, incoming>>

\* Mutant: the packet is tried again from its start.
SendFails_Retry ==
  /\ at["send"] = "busy"
  /\ sending' = Part(sending.packet, 1)
  /\ UNCHANGED <<game, socket, session, at, m_sendQueue, queued, despawn, wire, lost, incoming>>

\* Send fails when it would block, is not connected yet or no more, and the
\* rest of the packet is given up.
SendFails ==
  /\ at["send"] = "busy"
  /\ lost' = lost \cup {sending.packet}
  /\ Goto("send", "unpin")
  /\ UNCHANGED <<game, socket, session, m_sendQueue, queued, despawn, sending, wire, incoming>>

\* The receive worker looks for data before it reads.
HasPendingData ==
  /\ at["recv"] = "pinned"
  /\ IF read < arrived /\ socket # "destroyed"
     THEN Goto("recv", "busy") /\ buffer' = <<>>
     ELSE Goto("recv", "unpin") /\ UNCHANGED buffer
  /\ UNCHANGED <<game, socket, session, outgoing, arrived, read, m_recvQueue, processed>>

\* Mutant: what one call of Recv gave is taken for the packet.
RecvPart_Once ==
  /\ at["recv"] = "busy"
  /\ read < arrived
  /\ socket # "destroyed"
  /\ read' = read + 1
  /\ m_recvQueue' = Append(m_recvQueue, <<read + 1>>)
  /\ Goto("recv", "unpin")
  /\ UNCHANGED <<game, socket, session, outgoing, arrived, buffer, processed>>

\* A turn of the loops of RecvPacket.  Without data Recv gives nothing and the
\* loop goes on.
RecvPart ==
  /\ at["recv"] = "busy"
  /\ read < arrived
  /\ socket # "destroyed"
  /\ read' = read + 1
  /\ buffer' = Append(buffer, read + 1)
  /\ IF Len(buffer') = Parts
     THEN Goto("recv", "unpin") /\ m_recvQueue' = Append(m_recvQueue, buffer')
     ELSE UNCHANGED <<at, m_recvQueue>>
  /\ UNCHANGED <<game, socket, session, outgoing, arrived, processed>>

RecvFails ==
  /\ at["recv"] = "busy"
  /\ \/ socket = "closed" /\ read = arrived
     \/ socket = "destroyed"
  /\ Goto("recv", "unpin")
  /\ UNCHANGED <<game, socket, session, outgoing, incoming>>

Worker(w) == CheckRunning(w) \/ Pin(w) \/ Unpin(w) \/ UseDestroyedSocket(w)

SendWorker ==
  /\ game \notin {"ended", "crashed"}
  /\ Worker("send") \/ DequeueSendPacket \/ SendPart \/ SendFails

RecvWorker ==
  /\ game \notin {"ended", "crashed"}
  /\ Worker("recv") \/ HasPendingData \/ RecvPart \/ RecvFails

-----------------------------------------------------------------------------
(* The server's end of the connection *)

Connected ==
  /\ socket = "connecting"
  /\ socket' = "connected"
  /\ UNCHANGED <<game, session, at, outgoing, incoming>>

ServerSends ==
  /\ socket = "connected"
  /\ arrived < MaxArrived
  /\ arrived' = arrived + 1
  /\ UNCHANGED <<game, socket, session, at, outgoing, read, buffer, m_recvQueue, processed>>

ServerCloses ==
  /\ socket \in {"connecting", "connected"}
  /\ socket' = "closed"
  /\ UNCHANGED <<game, session, at, outgoing, incoming>>

Leave == Shutdown \/ DestroySocket \/ ExitProcess

Next ==
  \/ ConnectToServer
  \/ SendPacketOfGame
  \/ DequeueRecvPacket
  \/ DisconnectFromServer
  \/ CloseWindow
  \/ Leave
  \/ Destructor
  \/ SendWorker
  \/ RecvWorker
  \/ Connected
  \/ ServerSends
  \/ ServerCloses

Spec == Init /\ [][Next]_vars

\* The threads go on while the program runs, and the game thread shuts down
\* when it was told to quit.
FairSpec ==
  /\ Spec
  /\ WF_vars(Leave)
  /\ WF_vars(Destructor)
  /\ WF_vars(SendWorker)
  /\ WF_vars(RecvWorker)

-----------------------------------------------------------------------------
(* Properties *)

\* Pin protects a turn of the loop: while a worker uses the session no thread
\* is in its destructor (NetworkWorker.cpp:49 and :117).
PinnedSessionLives ==
  \A w \in Workers :
    at[w] \in {"pinned", "busy", "unpin"} => dtor = "idle" /\ destroyer = "nobody"

\* When the game thread runs the destructor both workers have ended before
\* Shutdown destroys their socket (ClientSession.cpp:114-115,
\* CastleDefenseGameInstance.cpp:22-26).
SocketOutlivesWorkers ==
  socket = "destroyed" /\ destroyer = "game" =>
    \A w \in Workers : at[w] = "exited"

\* What the socket took is whole packets in the order they were queued; only a
\* packet that Send failed for is cut short or missing.
SentWhole ==
  \A i \in DOMAIN wire :
    IF wire[i].part = 1
    THEN /\ \A j \in 1 .. i - 1 : wire[j].packet < wire[i].packet
         /\ \A k \in 1 .. wire[i].packet - 1 :
              k \in lost \/ \E j \in 1 .. i - 1 : wire[j] = Part(k, Parts)
    ELSE i > 1 /\ wire[i - 1] = Part(wire[i].packet, wire[i].part - 1)

ServerPacket(i) == [j \in 1 .. Parts |-> (i - 1) * Parts + j]

ReceivedWhole ==
  LET received == processed \o m_recvQueue
  IN \A i \in DOMAIN received : received[i] = ServerPacket(i)

\* However either stream is cut, packets come through whole, in order and each
\* once: to the socket, those aside that Send failed for
\* (NetworkWorker.cpp:165), and to the game thread (NetworkWorker.cpp:66-104).
PacketsWhole == SentWhole /\ ReceivedWhole

\* Shutdown ends whatever the workers are doing, unless one of them uses the
\* destroyed socket (CastleDefenseGameInstance.cpp:16).
ShutdownEnds == game = "quitting" ~> game \in {"ended", "crashed"}

\* A packet that was queued is sent or fails while the game goes on
\* (ClientSession.cpp:23 and :27).
PacketLeaves ==
  \A k \in 1 .. MaxPackets :
    queued >= k ~> \/ k \in lost
                   \/ \E i \in DOMAIN wire : wire[i] = Part(k, Parts)
                   \/ ~InGame

=============================================================================
