--------------------------- MODULE PlayerProtocol ---------------------------
(***************************************************************************)
(* Login, spawn, despawn, movement and chat between the clients and the    *)
(* server: PacketHandler.cpp with the player and session maps it changes,  *)
(* CPacketHandler.cpp and the game state of each client.  Client c is the  *)
(* c-th element of m_sessionVec and c is also its id, the port number it   *)
(* logs in with.  The packets of one session are handled one at a time;    *)
(* those of different sessions on different IO threads, so a handler is    *)
(* split wherever another one can run.                                     *)
(*                                                                         *)
(* Between client and server are two first-in first-out queues: what the   *)
(* game thread queued up to ProcessPacket, and what RequestSend queued up  *)
(* to the DequeuePacket of the level's tick.                               *)
(***************************************************************************)
EXTENDS Naturals, Sequences

CONSTANTS
  N,         \* sessions, at most MAX_CONNECTION
  MaxChats   \* bound: chat messages sent in a behaviour

ASSUME ProtocolAssumption ==
  /\ N \in Nat \ {0}
  /\ MaxChats \in Nat

VARIABLES
  phase,         \* how far each client program has come
  m_idToPlayer,  \* server: ids with a player
  m_bConnected,  \* server: sessions with the connected flag set
  io,            \* the handler running for each session
  serverUp,      \* the server has not dereferenced a null or freed player
  world,         \* the ids in each client's game state
  enemies,       \* clients that created their enemies
  up,            \* packets from each client to the server
  down,          \* packets from the server to each client
  chats,         \* chat messages sent so far
  despawned      \* history: ids whose C_Despawn was handled

server == <<m_idToPlayer, m_bConnected, io, serverUp, despawned>>
clients == <<phase, world, enemies, chats>>
vars == <<server, clients, up, down>>

Sessions == 1..N

Types == {"Login", "Spawn", "Despawn", "Movement", "Chat", "EnemySpawn"}
Packets == [id : Types, players : SUBSET Sessions]

\* A packet, with the players it names.
Packet(id, players) == [id |-> id, players |-> players]

\* Where a handler is, its turn in the loop of Brodcast and its packet.
Handlers ==
  [pc : {"recv", "brodcast", "list", "listing", "sendlist", "sendenemies"},
   i : Sessions,
   pkt : Packets]

Waiting == [pc |-> "recv", i |-> 1, pkt |-> Packet("Login", {})]

TypeOK ==
  /\ phase \in [Sessions -> {"menu", "online", "level", "quitting",
                             "exited", "crashed"}]
  /\ m_idToPlayer \subseteq Sessions
  /\ m_bConnected \subseteq Sessions
  /\ io \in [Sessions -> Handlers]
  /\ serverUp \in BOOLEAN
  /\ world \in [Sessions -> SUBSET Sessions]
  /\ enemies \subseteq Sessions
  /\ up \in [Sessions -> Seq(Packets)]
  /\ down \in [Sessions -> Seq(Packets)]
  /\ chats \in 0..MaxChats
  /\ despawned \subseteq Sessions

Init ==
  /\ phase = [c \in Sessions |-> "menu"]
  /\ m_idToPlayer = {}
  /\ m_bConnected = {}
  /\ io = [c \in Sessions |-> Waiting]
  /\ serverUp = TRUE
  /\ world = [c \in Sessions |-> {}]
  /\ enemies = {}
  /\ up = [c \in Sessions |-> <<>>]
  /\ down = [c \in Sessions |-> <<>>]
  /\ chats = 0
  /\ despawned = {}

-----------------------------------------------------------------------------
(* The client's game thread *)

InLevel(c) == phase[c] \in {"level", "quitting"}
Gone(c) == phase[c] \in {"exited", "crashed"}

\* EnqueueSendPacket.
Enqueue(c, id) == up' = [up EXCEPT ![c] = Append(@, Packet(id, {c}))]

\* ConnectToServer from the main menu.
ConnectToServer(c) ==
  /\ phase[c] = "menu"
  /\ phase' = [phase EXCEPT ![c] = "online"]
  /\ Enqueue(c, "Login")
  /\ UNCHANGED <<server, world, enemies, chats, down>>

\* Opening the level asks for the player.
SpawnPlayer(c) ==
  /\ phase[c] = "online"
  /\ phase' = [phase EXCEPT ![c] = "level"]
  /\ Enqueue(c, "Spawn")
  /\ UNCHANGED <<server, world, enemies, chats, down>>

\* The tick of the client's own wizard.  One C_Move at a time is under way,
\* which bounds the queue.
BrodcastPos(c) ==
  /\ InLevel(c)
  /\ c \in world[c]
  /\ \A k \in DOMAIN up[c] : up[c][k].id # "Movement"
  /\ Enqueue(c, "Movement")
  /\ UNCHANGED <<server, clients, down>>

\* The chat box belongs to the client's own wizard.
SendMessage(c) ==
  /\ phase[c] = "level"
  /\ c \in world[c]
  /\ chats < MaxChats
  /\ chats' = chats + 1
  /\ Enqueue(c, "Chat")
  /\ UNCHANGED <<server, phase, world, enemies, down>>

\* The quit button of the pause menu: C_Despawn is queued and the engine is
\* told to quit, which it does after the frame, in which wizards still tick.
DisconnectFromServer(c) ==
  /\ phase[c] = "level"
  /\ c \in world[c]
  /\ phase' = [phase EXCEPT ![c] = "quitting"]
  /\ Enqueue(c, "Despawn")
  /\ UNCHANGED <<server, world, enemies, chats, down>>

\* The program ends with its game state, and packets the send worker had not
\* taken yet are lost.
End(c, how) ==
  /\ phase' = [phase EXCEPT ![c] = how]
  /\ world' = [world EXCEPT ![c] = {}]
  /\ enemies' = enemies \ {c}
  /\ \E k \in 0..Len(up[c]) : up' = [up EXCEPT ![c] = SubSeq(@, 1, k)]
  /\ down' = [down EXCEPT ![c] = <<>>]
  /\ UNCHANGED <<server, chats>>

\* By the quit button, by closing the window or by the system.
Exit(c) ==
  /\ phase[c] \notin {"menu", "exited", "crashed"}
  /\ End(c, "exited")

\* The packet the level's tick takes from m_recvQueue.
Received(c, id) ==
  /\ InLevel(c)
  /\ down[c] # <<>>
  /\ Head(down[c]).id = id

Dequeue(c) == down' = [down EXCEPT ![c] = Tail(@)]

ProcessS_Login(c) ==
  /\ Received(c, "Login")
  /\ Dequeue(c)
  /\ UNCHANGED <<server, clients, up>>

\* Players the game state does not know yet are added.
ProcessS_Spawn(c) ==
  /\ Received(c, "Spawn")
  /\ Dequeue(c)
  /\ world' = [world EXCEPT ![c] = @ \cup Head(down[c]).players]
  /\ UNCHANGED <<server, phase, enemies, chats, up>>

\* RemovePlayerById indexes m_idToPlayer, whether the id is there or not:
\* on a key that is missing the engine stops the program.
ProcessS_Despawn(c) ==
  /\ Received(c, "Despawn")
  /\ IF Head(down[c]).players \subseteq world[c]
     THEN /\ Dequeue(c)
          /\ world' = [world EXCEPT ![c] = @ \ Head(down[c]).players]
          /\ UNCHANGED <<server, phase, enemies, chats, up>>
     ELSE End(c, "crashed")

\* The message goes to the chat box of the client's own wizard: without one
\* the engine stops the program, as it does above.
ProcessS_Chat(c) ==
  /\ Received(c, "Chat")
  /\ IF c \in world[c]
     THEN Dequeue(c) /\ UNCHANGED <<server, clients, up>>
     ELSE End(c, "crashed")

ProcessS_EnemySpawn(c) ==
  /\ Received(c, "EnemySpawn")
  /\ Dequeue(c)
  /\ enemies' = enemies \cup {c}
  /\ UNCHANGED <<server, phase, world, chats, up>>

DequeuePacket(c) ==
  \/ ProcessS_Login(c)
  \/ ProcessS_Spawn(c)
  \/ ProcessS_Despawn(c)
  \/ ProcessS_Chat(c)
  \/ ProcessS_EnemySpawn(c)

-----------------------------------------------------------------------------
(* The server *)

Goto(c, pc, pkt) == io' = [io EXCEPT ![c] = [pc |-> pc, i |-> 1, pkt |-> pkt]]

\* RequestSend on session s: what is sent to a program that ended is lost.
RequestSend(s, pkt) ==
  IF Gone(s) THEN UNCHANGED down
  ELSE down' = [down EXCEPT ![s] = Append(@, pkt)]

\* A completed receive on a connected session delivers the next packet.
Receive(c, id) ==
  /\ serverUp
  /\ c \in m_bConnected
  /\ io[c] = Waiting
  /\ up[c] # <<>>
  /\ Head(up[c]).id = id
  /\ up' = [up EXCEPT ![c] = Tail(@)]

\* A member of a null PlayerInfo is used.
Down ==
  /\ serverUp' = FALSE
  /\ UNCHANGED <<clients, m_idToPlayer, m_bConnected, io, down, despawned>>

\* AcceptEx completes.
ProcessAccept(c) ==
  /\ serverUp
  /\ phase[c] # "menu" /\ ~Gone(c)
  /\ c \notin m_bConnected
  /\ m_bConnected' = m_bConnected \cup {c}
  /\ UNCHANGED <<clients, m_idToPlayer, io, serverUp, despawned, up, down>>

\* A receive of no bytes or a failed send clears the flag.  Positions are sent
\* all the time, so a send may fail before everything that came was read; the
\* rest is then dropped.
ProcessDisconnect(c) ==
  /\ serverUp
  /\ c \in m_bConnected
  /\ Gone(c)
  /\ m_bConnected' = m_bConnected \ {c}
  /\ UNCHANGED <<clients, m_idToPlayer, io, serverUp, despawned, up, down>>

\* Only packets of this session read the entry MapIdToSession makes.
ProcessC_Login(c) ==
  /\ Receive(c, "Login")
  /\ RequestSend(c, Packet("Login", {}))
  /\ UNCHANGED <<clients, server>>

\* AddPlayerById, and the packet that tells the others.
ProcessC_Spawn(c) ==
  /\ Receive(c, "Spawn")
  /\ m_idToPlayer' = m_idToPlayer \cup {c}
  /\ Goto(c, "brodcast", Packet("Spawn", {c}))
  /\ UNCHANGED <<clients, m_bConnected, serverUp, down, despawned>>

\* Mutant: the map is cleared instead of erasing one element.
ProcessC_Despawn_Clear(c) ==
  /\ Receive(c, "Despawn")
  /\ m_idToPlayer' = {}
  /\ despawned' = despawned \cup {c}
  /\ Goto(c, "brodcast", Packet("Despawn", {c}))
  /\ UNCHANGED <<clients, m_bConnected, serverUp, down>>

\* RemovePlayerById, and the packet that tells the others.
ProcessC_Despawn(c) ==
  /\ Receive(c, "Despawn")
  /\ IF c \in m_idToPlayer
     THEN /\ m_idToPlayer' = m_idToPlayer \ {c}
          /\ despawned' = despawned \cup {c}
          /\ Goto(c, "brodcast", Packet("Despawn", {c}))
          /\ UNCHANGED <<clients, m_bConnected, serverUp, down>>
     ELSE Down

\* UpdatePlayer: m_idToPlayer[id] of an unknown id is a null pointer.
ProcessC_Move(c) ==
  /\ Receive(c, "Movement")
  /\ IF c \in m_idToPlayer
     THEN UNCHANGED <<clients, server, down>>
     ELSE Down

ProcessC_Chat(c) ==
  /\ Receive(c, "Chat")
  /\ Goto(c, "brodcast", Packet("Chat", {}))
  /\ UNCHANGED <<clients, m_idToPlayer, m_bConnected, serverUp, down, despawned>>

ProcessPacket(c) ==
  \/ ProcessC_Login(c)
  \/ ProcessC_Spawn(c)
  \/ ProcessC_Despawn(c)
  \/ ProcessC_Move(c)
  \/ ProcessC_Chat(c)

\* One turn of the loop of Brodcast: session i, unless it is the sender's own.
\* After the last one only ProcessC_Spawn has more to do.
Brodcast(c) ==
  /\ serverUp
  /\ io[c].pc = "brodcast"
  /\ IF io[c].i # c /\ io[c].i \in m_bConnected
     THEN RequestSend(io[c].i, io[c].pkt)
     ELSE UNCHANGED down
  /\ IF io[c].i < N THEN io' = [io EXCEPT ![c].i = @ + 1]
     ELSE IF io[c].pkt.id = "Spawn" THEN Goto(c, "list", Packet("Spawn", {}))
     ELSE io' = [io EXCEPT ![c] = Waiting]
  /\ UNCHANGED <<clients, m_idToPlayer, m_bConnected, serverUp, despawned, up>>

\* ProcessC_Spawn starts to walk through m_idToPlayer, without its lock.
BeginList(c) ==
  /\ serverUp
  /\ io[c].pc = "list"
  /\ Goto(c, "listing", Packet("Spawn", m_idToPlayer))
  /\ UNCHANGED <<clients, m_idToPlayer, m_bConnected, serverUp, down, despawned, up>>

\* Mutant: the list holds the new player alone.
EndList_OnlyNew(c) ==
  /\ serverUp
  /\ io[c].pc = "listing"
  /\ Goto(c, "sendlist", Packet("Spawn", {c}))
  /\ UNCHANGED <<clients, m_idToPlayer, m_bConnected, serverUp, down, despawned, up>>

\* The walk ends.  Players that came or went meanwhile may be in the list.
EndList(c) ==
  /\ serverUp
  /\ io[c].pc = "listing"
  /\ \E list \in SUBSET (io[c].pkt.players \cup m_idToPlayer) :
       /\ io[c].pkt.players \cap m_idToPlayer \subseteq list
       /\ Goto(c, "sendlist", Packet("Spawn", list))
  /\ UNCHANGED <<clients, m_idToPlayer, m_bConnected, serverUp, down, despawned, up>>

\* The walk stands on an element that another thread removed.
LostPlace(c) ==
  /\ serverUp
  /\ io[c].pc = "listing"
  /\ ~(io[c].pkt.players \subseteq m_idToPlayer)
  /\ Down
  /\ UNCHANGED up

\* Mutant: the list goes to all but the new player.
SendList_Brodcast(c) ==
  /\ serverUp
  /\ io[c].pc = "sendlist"
  /\ down' = [s \in Sessions |->
                IF s # c /\ s \in m_bConnected THEN Append(down[s], io[c].pkt)
                                              ELSE down[s]]
  /\ Goto(c, "sendenemies", Packet("EnemySpawn", {}))
  /\ UNCHANGED <<clients, m_idToPlayer, m_bConnected, serverUp, despawned, up>>

\* The players, the new one included, to the new one.
SendList(c) ==
  /\ serverUp
  /\ io[c].pc = "sendlist"
  /\ RequestSend(c, io[c].pkt)
  /\ Goto(c, "sendenemies", Packet("EnemySpawn", {}))
  /\ UNCHANGED <<clients, m_idToPlayer, m_bConnected, serverUp, despawned, up>>

SendEnemies(c) ==
  /\ serverUp
  /\ io[c].pc = "sendenemies"
  /\ RequestSend(c, io[c].pkt)
  /\ io' = [io EXCEPT ![c] = Waiting]
  /\ UNCHANGED <<clients, m_idToPlayer, m_bConnected, serverUp, despawned, up>>

\* What an IO thread does once the session of the packet is its own.
Handle(c) ==
  \/ ProcessPacket(c)
  \/ Brodcast(c)
  \/ BeginList(c)
  \/ EndList(c)
  \/ LostPlace(c)
  \/ SendList(c)
  \/ SendEnemies(c)

Next ==
  \E c \in Sessions :
    \/ ConnectToServer(c)
    \/ SpawnPlayer(c)
    \/ BrodcastPos(c)
    \/ SendMessage(c)
    \/ DisconnectFromServer(c)
    \/ Exit(c)
    \/ DequeuePacket(c)
    \/ ProcessAccept(c)
    \/ ProcessDisconnect(c)
    \/ Handle(c)

Spec == Init /\ [][Next]_vars

\* IO threads wait only for packets, the game thread ticks, connections that
\* are requested are accepted.
FairSpec ==
  /\ Spec
  /\ \A c \in Sessions :
       /\ WF_vars(Handle(c))
       /\ WF_vars(DequeuePacket(c))
       /\ WF_vars(ProcessAccept(c))

-----------------------------------------------------------------------------
(* Properties *)

\* Client c got its own player and has taken every packet it was sent.
UpToDate(c) == InLevel(c) /\ c \in world[c] /\ down[c] = <<>>

\* A newcomer is announced to those who are connected and is then sent the
\* list (PacketHandler.cpp:129 and :145): however joins and departures
\* overlap, a client that is up to date has every player of the server in its
\* game state, those excepted whose handler is still announcing them.
EveryPlayerSeen ==
  serverUp => \A c \in Sessions : UpToDate(c) =>
    {p \in m_idToPlayer : io[p] = Waiting} \subseteq world[c]

\* UpdatePlayer uses the player of a C_Move without looking whether there is
\* one (PlayerManager.cpp:122-124): the one whose move arrives is there,
\* unless its C_Despawn was handled before.
MoverKnownUntilDespawn ==
  \A c \in m_bConnected :
    /\ io[c] = Waiting
    /\ up[c] # <<>>
    /\ Head(up[c]).id = "Movement"
    => c \in m_idToPlayer \cup despawned

\* Who asked for a player gets it and its enemies, whatever the others do,
\* unless the client ends or the server stops.
JoinCompletes ==
  \A c \in Sessions :
    InLevel(c) ~> c \in world[c] \cap enemies \/ Gone(c) \/ ~serverUp

=============================================================================
