------------------------ MODULE PlayerProtocolProofs ------------------------
(***************************************************************************)
(* Proofs about PlayerProtocol for any number of clients: type             *)
(* correctness, that a C_Move arrives for a player that is there until it  *)
(* despawns, and that a client that is up to date has every player.        *)
(***************************************************************************)
EXTENDS PlayerProtocol, SequenceTheorems, TLAPS

Queues == [Sessions -> Seq(Packets)]

-----------------------------------------------------------------------------
(* Packets, handlers and queues keep their types *)

LEMMA PacketType ==
  ASSUME NEW id \in Types, NEW players \in SUBSET Sessions
  PROVE  Packet(id, players) \in Packets
BY DEF Packet, Packets

LEMMA HandlerType ==
  ASSUME NEW pc \in {"recv", "brodcast", "list", "listing", "sendlist",
                     "sendenemies"},
         NEW pkt \in Packets
  PROVE  [pc |-> pc, i |-> 1, pkt |-> pkt] \in Handlers
BY ProtocolAssumption DEF Handlers, Sessions

LEMMA WaitingType == Waiting \in Handlers
BY HandlerType, PacketType DEF Waiting, Types

LEMMA GotoType ==
  ASSUME TypeOK, NEW c \in Sessions, NEW pkt \in Packets,
         NEW pc \in {"recv", "brodcast", "list", "listing", "sendlist",
                     "sendenemies"},
         Goto(c, pc, pkt)
  PROVE  io' \in [Sessions -> Handlers]
BY HandlerType DEF Goto, TypeOK

LEMMA SendType ==
  ASSUME TypeOK, NEW s \in Sessions, NEW pkt \in Packets, RequestSend(s, pkt)
  PROVE  down' \in Queues
<1>1. Append(down[s], pkt) \in Seq(Packets)
  BY AppendProperties DEF TypeOK
<1> QED
  BY <1>1 DEF RequestSend, TypeOK, Queues

LEMMA EnqueueType ==
  ASSUME TypeOK, NEW c \in Sessions, NEW id \in Types, Enqueue(c, id)
  PROVE  up' \in Queues
<1>1. Append(up[c], Packet(id, {c})) \in Seq(Packets)
  BY PacketType, AppendProperties DEF TypeOK
<1> QED
  BY <1>1 DEF Enqueue, TypeOK, Queues

LEMMA DequeueType ==
  ASSUME TypeOK, NEW c \in Sessions, down[c] # <<>>, Dequeue(c)
  PROVE  down' \in Queues
<1>1. Tail(down[c]) \in Seq(Packets)
  BY HeadTailProperties DEF TypeOK
<1> QED
  BY <1>1 DEF Dequeue, TypeOK, Queues

LEMMA ReceiveType ==
  ASSUME TypeOK, NEW c \in Sessions, NEW id, Receive(c, id)
  PROVE  up' \in Queues
<1>1. Tail(up[c]) \in Seq(Packets)
  BY HeadTailProperties DEF TypeOK, Receive
<1> QED
  BY <1>1 DEF Receive, TypeOK, Queues

\* A queue of which only the first packets remain.
LEMMA PrefixType ==
  ASSUME NEW q \in Seq(Packets), NEW k \in 0 .. Len(q)
  PROVE  /\ SubSeq(q, 1, k) \in Seq(Packets)
         /\ Len(SubSeq(q, 1, k)) = k
         /\ \A j \in 1 .. k : SubSeq(q, 1, k)[j] = q[j]
<1>1. Len(q) \in Nat
  BY LenProperties
<1>2. \A j \in 1 .. k : q[j] \in Packets
  BY <1>1, ElementOfSeq
<1> QED
  BY <1>1, <1>2, SubSeqProperties

LEMMA EndType ==
  ASSUME TypeOK, NEW c \in Sessions, NEW how \in {"exited", "crashed"}, End(c, how)
  PROVE  TypeOK'
<1>1. PICK k \in 0 .. Len(up[c]) : up' = [up EXCEPT ![c] = SubSeq(@, 1, k)]
  BY DEF End
<1>2. SubSeq(up[c], 1, k) \in Seq(Packets)
  BY PrefixType DEF TypeOK
<1>3. up' \in Queues
  BY <1>1, <1>2 DEF TypeOK, Queues
<1>4. down' \in Queues
  BY EmptySeq DEF End, TypeOK, Queues
<1> QED
  BY <1>3, <1>4 DEF End, TypeOK, Queues, server, clients

-----------------------------------------------------------------------------
(* Type correctness *)

LEMMA TypeInit == Init => TypeOK
BY WaitingType, EmptySeq, ProtocolAssumption DEF Init, TypeOK, Sessions

\* The game thread of a client.
LEMMA TypeClient ==
  ASSUME TypeOK, NEW c \in Sessions,
         \/ ConnectToServer(c) \/ SpawnPlayer(c) \/ BrodcastPos(c)
         \/ SendMessage(c) \/ DisconnectFromServer(c) \/ Exit(c)
  PROVE  TypeOK'
<1> USE DEF server, clients, Queues
<1>1. CASE ConnectToServer(c)
  <2>1. up' \in Queues
    BY <1>1, EnqueueType DEF ConnectToServer, Types
  <2> QED
    BY <1>1, <2>1 DEF ConnectToServer, TypeOK
<1>2. CASE SpawnPlayer(c)
  <2>1. up' \in Queues
    BY <1>2, EnqueueType DEF SpawnPlayer, Types
  <2> QED
    BY <1>2, <2>1 DEF SpawnPlayer, TypeOK
<1>3. CASE BrodcastPos(c)
  <2>1. up' \in Queues
    BY <1>3, EnqueueType DEF BrodcastPos, Types
  <2> QED
    BY <1>3, <2>1 DEF BrodcastPos, TypeOK
<1>4. CASE SendMessage(c)
  <2>1. up' \in Queues
    BY <1>4, EnqueueType DEF SendMessage, Types
  <2>2. chats' \in 0 .. MaxChats
    BY <1>4, ProtocolAssumption DEF SendMessage, TypeOK
  <2> QED
    BY <1>4, <2>1, <2>2 DEF SendMessage, TypeOK
<1>5. CASE DisconnectFromServer(c)
  <2>1. up' \in Queues
    BY <1>5, EnqueueType DEF DisconnectFromServer, Types
  <2> QED
    BY <1>5, <2>1 DEF DisconnectFromServer, TypeOK
<1>6. CASE Exit(c)
  BY <1>6, EndType DEF Exit
<1> QED
  BY <1>1, <1>2, <1>3, <1>4, <1>5, <1>6

\* The packets a client takes.
LEMMA TypeDequeue ==
  ASSUME TypeOK, NEW c \in Sessions, DequeuePacket(c)
  PROVE  TypeOK'
<1> USE DEF server, clients, Queues
<1>1. /\ down[c] # <<>>
      /\ Head(down[c]) \in Packets
  <2>1. down[c] # <<>>
    BY DEF DequeuePacket, ProcessS_Login, ProcessS_Spawn, ProcessS_Despawn,
           ProcessS_Chat, ProcessS_EnemySpawn, Received
  <2> QED
    BY <2>1, HeadTailProperties DEF TypeOK
<1>2. Dequeue(c) => down' \in Queues
  BY <1>1, DequeueType
<1>3. Head(down[c]).players \subseteq Sessions
  BY <1>1 DEF Packets
<1>4. CASE ProcessS_Login(c)
  BY <1>2, <1>4 DEF ProcessS_Login, TypeOK
<1>5. CASE ProcessS_Spawn(c)
  BY <1>2, <1>3, <1>5 DEF ProcessS_Spawn, TypeOK
<1>6. CASE ProcessS_Despawn(c)
  <2>1. CASE End(c, "crashed")
    BY <2>1, EndType
  <2>2. CASE ~End(c, "crashed")
    BY <1>2, <1>6, <2>2 DEF ProcessS_Despawn, TypeOK
  <2> QED
    BY <2>1, <2>2
<1>7. CASE ProcessS_Chat(c)
  <2>1. CASE End(c, "crashed")
    BY <2>1, EndType
  <2>2. CASE ~End(c, "crashed")
    BY <1>2, <1>7, <2>2 DEF ProcessS_Chat, TypeOK
  <2> QED
    BY <2>1, <2>2
<1>8. CASE ProcessS_EnemySpawn(c)
  BY <1>2, <1>8 DEF ProcessS_EnemySpawn, TypeOK
<1> QED
  BY <1>4, <1>5, <1>6, <1>7, <1>8 DEF DequeuePacket

\* The first steps of the server's handlers.
LEMMA TypePacket ==
  ASSUME TypeOK, NEW c \in Sessions, ProcessPacket(c)
  PROVE  TypeOK'
<1> USE DEF server, clients, Queues
<1>1. CASE ProcessC_Login(c)
  <2>1. up' \in Queues
    BY <1>1, ReceiveType DEF ProcessC_Login
  <2>2. down' \in Queues
    BY <1>1, SendType, PacketType DEF ProcessC_Login, Types
  <2> QED
    BY <1>1, <2>1, <2>2 DEF ProcessC_Login, TypeOK
<1>2. CASE ProcessC_Spawn(c)
  <2>1. up' \in Queues
    BY <1>2, ReceiveType DEF ProcessC_Spawn
  <2>2. io' \in [Sessions -> Handlers]
    BY <1>2, GotoType, PacketType DEF ProcessC_Spawn, Types
  <2> QED
    BY <1>2, <2>1, <2>2 DEF ProcessC_Spawn, TypeOK
<1>3. CASE ProcessC_Despawn(c)
  <2>1. up' \in Queues
    BY <1>3, ReceiveType DEF ProcessC_Despawn
  <2>2. CASE c \in m_idToPlayer
    <3>1. io' \in [Sessions -> Handlers]
      BY <1>3, <2>2, GotoType, PacketType DEF ProcessC_Despawn, Types
    <3> QED
      BY <1>3, <2>1, <2>2, <3>1 DEF ProcessC_Despawn, TypeOK
  <2>3. CASE c \notin m_idToPlayer
    BY <1>3, <2>1, <2>3 DEF ProcessC_Despawn, Down, TypeOK
  <2> QED
    BY <2>2, <2>3
<1>4. CASE ProcessC_Move(c)
  <2>1. up' \in Queues
    BY <1>4, ReceiveType DEF ProcessC_Move
  <2> QED
    BY <1>4, <2>1 DEF ProcessC_Move, Down, TypeOK
<1>5. CASE ProcessC_Chat(c)
  <2>1. up' \in Queues
    BY <1>5, ReceiveType DEF ProcessC_Chat
  <2>2. io' \in [Sessions -> Handlers]
    BY <1>5, GotoType, PacketType DEF ProcessC_Chat, Types
  <2> QED
    BY <1>5, <2>1, <2>2 DEF ProcessC_Chat, TypeOK
<1> QED
  BY <1>1, <1>2, <1>3, <1>4, <1>5 DEF ProcessPacket

\* One turn of Brodcast.
LEMMA TypeBrodcast ==
  ASSUME TypeOK, NEW c \in Sessions, Brodcast(c)
  PROVE  TypeOK'
<1>1. io[c] \in Handlers /\ io[c].pkt \in Packets /\ io[c].i \in Sessions
  BY DEF TypeOK, Handlers
<1>2. down' \in Queues
  BY <1>1, SendType DEF Brodcast, TypeOK, Queues
<1>3. io' \in [Sessions -> Handlers]
  <2>1. CASE io[c].i < N
    <3>1. [io[c] EXCEPT !.i = @ + 1] \in Handlers
      BY <1>1, <2>1, ProtocolAssumption DEF Handlers, Sessions
    <3>2. io' = [io EXCEPT ![c] = [io[c] EXCEPT !.i = @ + 1]]
      BY <2>1 DEF Brodcast
    <3> QED
      BY <3>1, <3>2 DEF TypeOK
  <2>2. CASE Goto(c, "list", Packet("Spawn", {}))
    BY <2>2, GotoType, PacketType DEF Types
  <2>3. CASE io' = [io EXCEPT ![c] = Waiting]
    BY <2>3, WaitingType DEF TypeOK
  <2> QED
    BY <2>1, <2>2, <2>3 DEF Brodcast
<1> QED
  BY <1>2, <1>3 DEF Brodcast, TypeOK, clients, Queues

\* The rest of ProcessC_Spawn.
LEMMA TypeSpawn ==
  ASSUME TypeOK, NEW c \in Sessions,
         \/ BeginList(c) \/ EndList(c) \/ LostPlace(c)
         \/ SendList(c) \/ SendEnemies(c)
  PROVE  TypeOK'
<1> USE DEF clients, Queues
<1>1. io[c] \in Handlers /\ io[c].pkt \in Packets
  BY DEF TypeOK, Handlers
<1>2. CASE BeginList(c)
  <2>1. io' \in [Sessions -> Handlers]
    BY <1>2, GotoType, PacketType DEF BeginList, Types, TypeOK
  <2> QED
    BY <1>2, <2>1 DEF BeginList, TypeOK
<1>3. CASE EndList(c)
  <2>1. PICK list \in SUBSET (io[c].pkt.players \cup m_idToPlayer) :
               Goto(c, "sendlist", Packet("Spawn", list))
    BY <1>3 DEF EndList
  <2>2. list \subseteq Sessions
    BY <1>1, <2>1 DEF Packets, TypeOK
  <2>3. io' \in [Sessions -> Handlers]
    BY <2>1, <2>2, GotoType, PacketType DEF Types
  <2> QED
    BY <1>3, <2>3 DEF EndList, TypeOK
<1>4. CASE LostPlace(c)
  BY <1>4 DEF LostPlace, Down, TypeOK
<1>5. CASE SendList(c)
  <2>1. io' \in [Sessions -> Handlers]
    BY <1>5, GotoType, PacketType DEF SendList, Types
  <2>2. down' \in Queues
    BY <1>1, <1>5, SendType DEF SendList
  <2> QED
    BY <1>5, <2>1, <2>2 DEF SendList, TypeOK
<1>6. CASE SendEnemies(c)
  <2>1. down' \in Queues
    BY <1>1, <1>6, SendType DEF SendEnemies
  <2> QED
    BY <1>6, <2>1, WaitingType DEF SendEnemies, TypeOK
<1> QED
  BY <1>2, <1>3, <1>4, <1>5, <1>6

LEMMA TypeNext == TypeOK /\ [Next]_vars => TypeOK'
<1> SUFFICES ASSUME TypeOK, [Next]_vars PROVE TypeOK'
  OBVIOUS
<1>1. CASE UNCHANGED vars
  BY <1>1 DEF vars, server, clients, TypeOK
<1>2. CASE Next
  <2>1. PICK c \in Sessions :
          \/ ConnectToServer(c) \/ SpawnPlayer(c) \/ BrodcastPos(c)
          \/ SendMessage(c) \/ DisconnectFromServer(c) \/ Exit(c)
          \/ DequeuePacket(c)
          \/ ProcessAccept(c) \/ ProcessDisconnect(c)
          \/ Handle(c)
    BY <1>2 DEF Next
  <2>2. CASE ProcessAccept(c) \/ ProcessDisconnect(c)
    BY <2>2 DEF ProcessAccept, ProcessDisconnect, TypeOK, clients
  <2>3. CASE Handle(c)
    BY <2>3, TypePacket, TypeBrodcast, TypeSpawn DEF Handle
  <2> QED
    BY <2>1, <2>2, <2>3, TypeClient, TypeDequeue
<1> QED
  BY <1>1, <1>2

\* The variables keep their types, for any number of clients.
THEOREM TypeCorrect == Spec => []TypeOK
BY TypeInit, TypeNext, PTL DEF Spec

-----------------------------------------------------------------------------
(* A move arrives for a player that is there until it despawns *)

\* The server handled the client's C_Spawn.
Known(c) == c \in m_idToPlayer \cup despawned

\* One of the first k packets of the client's queue asks for its player.
SpawnWithin(c, k) == \E j \in 1 .. k : up[c][j].id = "Spawn"

\* MoverKnownUntilDespawn speaks of the packet at the head of the queue.  It
\* is inductive only together with those behind it: no move comes without a
\* C_Spawn before it, and a client that may move has sent one.
SpawnFirst(c) ==
  /\ InLevel(c) => Known(c) \/ SpawnWithin(c, Len(up[c]))
  /\ \A k \in 1 .. Len(up[c]) :
       up[c][k].id = "Movement" => Known(c) \/ SpawnWithin(c, k)

SpawnsFirst == \A c \in Sessions : SpawnFirst(c)

\* A client whose queue, phase and place in the maps stay has nothing new.
LEMMA SpawnFirstSame ==
  ASSUME NEW c \in Sessions, SpawnFirst(c), up'[c] = up[c],
         InLevel(c)' => InLevel(c), Known(c) => Known(c)'
  PROVE  SpawnFirst(c)'
BY DEF SpawnFirst, SpawnWithin

\* Queueing anything but a move that has no C_Spawn before it.
LEMMA SpawnFirstEnqueue ==
  ASSUME TypeOK, NEW c \in Sessions, NEW id \in Types,
         SpawnFirst(c), Enqueue(c, id), Known(c)' <=> Known(c),
         id = "Movement" => InLevel(c),
         InLevel(c)' => InLevel(c) \/ id = "Spawn"
  PROVE  SpawnFirst(c)'
<1>1. PICK n \in Nat : n = Len(up[c])
  BY LenProperties DEF TypeOK
<1>2. /\ Len(up'[c]) = n + 1
      /\ \A j \in 1 .. n : up'[c][j] = up[c][j]
      /\ up'[c][n + 1].id = id
  BY <1>1, PacketType, AppendProperties DEF Enqueue, TypeOK, Packet
<1>3. \A k \in 1 .. n : SpawnWithin(c, k) => SpawnWithin(c, k)'
  BY <1>1, <1>2 DEF SpawnWithin
<1>4. SpawnWithin(c, n) \/ id = "Spawn" => SpawnWithin(c, n + 1)'
  BY <1>1, <1>2 DEF SpawnWithin
<1>5. InLevel(c)' => Known(c)' \/ SpawnWithin(c, n + 1)'
  BY <1>1, <1>4 DEF SpawnFirst
<1>6. ASSUME NEW k \in 1 .. n + 1, up'[c][k].id = "Movement"
      PROVE  Known(c)' \/ SpawnWithin(c, k)'
  <2>1. CASE k \in 1 .. n
    BY <1>1, <1>2, <1>3, <1>6, <2>1 DEF SpawnFirst
  <2>2. CASE k = n + 1
    BY <1>1, <1>2, <1>4, <1>6, <2>2 DEF SpawnFirst
  <2> QED
    BY <1>1, <2>1, <2>2
<1> QED
  BY <1>2, <1>5, <1>6 DEF SpawnFirst

\* The server takes the first packet; a C_Spawn makes its sender known.
LEMMA SpawnFirstReceive ==
  ASSUME TypeOK, NEW c \in Sessions, NEW id, SpawnFirst(c), Receive(c, id),
         phase' = phase, Known(c) \/ id = "Spawn" => Known(c)'
  PROVE  SpawnFirst(c)'
<1>1. /\ up[c] \in Seq(Packets)
      /\ up[c] # <<>>
      /\ up[c][1].id = id
      /\ up'[c] = Tail(up[c])
  BY DEF Receive, TypeOK
<1>2. /\ Len(up[c]) \in Nat \ {0}
      /\ Len(up'[c]) = Len(up[c]) - 1
      /\ \A j \in 1 .. Len(up'[c]) : up'[c][j] = up[c][j + 1]
  BY <1>1, LenProperties, HeadTailProperties, EmptySeq
<1>3. ASSUME NEW k \in 1 .. Len(up[c]), SpawnWithin(c, k), ~Known(c)'
      PROVE  SpawnWithin(c, k - 1)'
  <2>1. PICK j \in 1 .. k : up[c][j].id = "Spawn"
    BY <1>3 DEF SpawnWithin
  <2>2. j # 1
    BY <1>1, <1>3, <2>1
  <2>3. /\ j - 1 \in 1 .. (k - 1)
        /\ up'[c][j - 1].id = "Spawn"
    BY <1>2, <2>1, <2>2
  <2> QED
    BY <2>3 DEF SpawnWithin
<1>4. InLevel(c)' => Known(c)' \/ SpawnWithin(c, Len(up[c]))'
  <2>1. PICK k \in 1 .. Len(up[c]) : k = Len(up[c])
    BY <1>2
  <2>2. k - 1 = Len(up'[c])
    BY <1>2, <2>1
  <2> QED
    BY <1>3, <2>1, <2>2 DEF SpawnFirst, InLevel
<1>5. ASSUME NEW k \in 1 .. Len(up'[c]), up'[c][k].id = "Movement"
      PROVE  Known(c)' \/ SpawnWithin(c, k)'
  <2>1. /\ k + 1 \in 1 .. Len(up[c])
        /\ up[c][k + 1].id = "Movement"
        /\ k \in Nat
    BY <1>2, <1>5
  <2> QED
    BY <1>3, <2>1 DEF SpawnFirst
<1> QED
  BY <1>2, <1>4, <1>5 DEF SpawnFirst

\* A program that ends leaves a prefix of its queue.
LEMMA SpawnFirstEnd ==
  ASSUME TypeOK, NEW c \in Sessions, NEW how \in {"exited", "crashed"},
         SpawnFirst(c), End(c, how)
  PROVE  SpawnFirst(c)'
<1>1. PICK k \in 0 .. Len(up[c]) : up' = [up EXCEPT ![c] = SubSeq(@, 1, k)]
  BY DEF End
<1>2. /\ Len(up[c]) \in Nat
      /\ Len(up'[c]) = k
      /\ \A j \in 1 .. k : up'[c][j] = up[c][j]
  BY <1>1, PrefixType, LenProperties DEF TypeOK
<1>3. ~InLevel(c)'
  BY DEF End, InLevel, TypeOK
<1>4. Known(c)' <=> Known(c)
  BY DEF End, Known, server
<1>5. ASSUME NEW j \in 1 .. k, up'[c][j].id = "Movement"
      PROVE  Known(c)' \/ SpawnWithin(c, j)'
  BY <1>2, <1>4, <1>5 DEF SpawnFirst, SpawnWithin
<1> QED
  BY <1>2, <1>3, <1>5 DEF SpawnFirst

IInv == TypeOK /\ SpawnsFirst

LEMMA SpawnsFirstInit == Init => SpawnsFirst
BY EmptySeq DEF Init, SpawnsFirst, SpawnFirst, InLevel

\* A step of one client's queue leaves those of the others alone.
LEMMA SpawnsFirstOthers ==
  ASSUME SpawnsFirst, NEW c \in Sessions, SpawnFirst(c)',
         \A d \in Sessions \ {c} : /\ up'[d] = up[d]
                                   /\ phase'[d] = phase[d]
                                   /\ Known(d) => Known(d)'
  PROVE  SpawnsFirst'
<1>1. ASSUME NEW d \in Sessions \ {c} PROVE SpawnFirst(d)'
  <2>1. InLevel(d)' => InLevel(d)
    BY DEF InLevel
  <2> QED
    BY <2>1, SpawnFirstSame DEF SpawnsFirst
<1> QED
  BY <1>1 DEF SpawnsFirst

LEMMA SpawnsFirstSame ==
  ASSUME SpawnsFirst, up' = up, phase' = phase,
         \A c \in Sessions : Known(c) => Known(c)'
  PROVE  SpawnsFirst'
<1>1. \A c \in Sessions : InLevel(c)' => InLevel(c)
  BY DEF InLevel
<1> QED
  BY <1>1, SpawnFirstSame DEF SpawnsFirst

LEMMA SpawnsFirstClient ==
  ASSUME TypeOK, SpawnsFirst, NEW c \in Sessions,
         \/ ConnectToServer(c) \/ SpawnPlayer(c) \/ BrodcastPos(c)
         \/ SendMessage(c) \/ DisconnectFromServer(c)
  PROVE  SpawnsFirst'
<1>1. PICK id \in Types : /\ Enqueue(c, id)
                          /\ id = "Movement" => InLevel(c)
                          /\ InLevel(c)' => InLevel(c) \/ id = "Spawn"
  BY DEF ConnectToServer, SpawnPlayer, BrodcastPos, SendMessage,
         DisconnectFromServer, Types, InLevel, clients, TypeOK
<1>2. \A d \in Sessions : Known(d)' <=> Known(d)
  BY DEF ConnectToServer, SpawnPlayer, BrodcastPos, SendMessage,
         DisconnectFromServer, server, Known
<1>3. SpawnFirst(c)'
  BY <1>1, <1>2, SpawnFirstEnqueue DEF SpawnsFirst
<1>4. \A d \in Sessions \ {c} : up'[d] = up[d] /\ phase'[d] = phase[d]
  BY <1>1 DEF Enqueue, TypeOK, ConnectToServer, SpawnPlayer, BrodcastPos,
              SendMessage, DisconnectFromServer, clients
<1> QED
  BY <1>2, <1>3, <1>4, SpawnsFirstOthers

LEMMA SpawnsFirstEnd ==
  ASSUME TypeOK, SpawnsFirst, NEW c \in Sessions,
         NEW how \in {"exited", "crashed"}, End(c, how)
  PROVE  SpawnsFirst'
<1>1. SpawnFirst(c)'
  BY SpawnFirstEnd DEF SpawnsFirst
<1>2. \A d \in Sessions \ {c} : /\ up'[d] = up[d]
                                /\ phase'[d] = phase[d]
                                /\ Known(d) => Known(d)'
  BY DEF End, TypeOK, Known, server
<1> QED
  BY <1>1, <1>2, SpawnsFirstOthers

LEMMA SpawnsFirstDequeue ==
  ASSUME TypeOK, SpawnsFirst, NEW c \in Sessions, DequeuePacket(c)
  PROVE  SpawnsFirst'
<1>1. CASE End(c, "crashed")
  BY <1>1, SpawnsFirstEnd
<1>2. CASE ~End(c, "crashed")
  <2>1. up' = up /\ phase' = phase /\ UNCHANGED server
    BY <1>2 DEF DequeuePacket, ProcessS_Login, ProcessS_Spawn,
                ProcessS_Despawn, ProcessS_Chat, ProcessS_EnemySpawn, clients
  <2> QED
    BY <2>1, SpawnsFirstSame DEF Known, server
<1> QED
  BY <1>1, <1>2

LEMMA SpawnsFirstPacket ==
  ASSUME TypeOK, SpawnsFirst, NEW c \in Sessions, ProcessPacket(c)
  PROVE  SpawnsFirst'
<1>1. PICK id \in Types : Receive(c, id) /\ (id = "Spawn" => Known(c)')
  BY DEF ProcessPacket, ProcessC_Login, ProcessC_Spawn, ProcessC_Despawn,
         ProcessC_Move, ProcessC_Chat, Types, Known
<1>2. phase' = phase
  BY DEF ProcessPacket, ProcessC_Login, ProcessC_Spawn, ProcessC_Despawn,
         ProcessC_Move, ProcessC_Chat, Down, clients
<1>3. \A d \in Sessions : Known(d) => Known(d)'
  BY DEF ProcessPacket, ProcessC_Login, ProcessC_Spawn, ProcessC_Despawn,
         ProcessC_Move, ProcessC_Chat, Down, server, Known
<1>4. SpawnFirst(c)'
  BY <1>1, <1>2, <1>3, SpawnFirstReceive DEF SpawnsFirst
<1>5. \A d \in Sessions \ {c} : up'[d] = up[d]
  BY <1>1 DEF Receive, TypeOK
<1> QED
  BY <1>2, <1>3, <1>4, <1>5, SpawnsFirstOthers

LEMMA SpawnsFirstNext == IInv /\ [Next]_vars => SpawnsFirst'
<1> SUFFICES ASSUME TypeOK, SpawnsFirst, [Next]_vars PROVE SpawnsFirst'
  BY DEF IInv
<1>1. CASE UNCHANGED vars
  BY <1>1, SpawnsFirstSame DEF vars, server, clients, Known
<1>2. CASE Next
  <2>1. PICK c \in Sessions :
          \/ ConnectToServer(c) \/ SpawnPlayer(c) \/ BrodcastPos(c)
          \/ SendMessage(c) \/ DisconnectFromServer(c)
          \/ Exit(c) \/ DequeuePacket(c)
          \/ ProcessAccept(c) \/ ProcessDisconnect(c)
          \/ Handle(c)
    BY <1>2 DEF Next
  <2>2. CASE Exit(c)
    BY <2>2, SpawnsFirstEnd DEF Exit
  <2>3. CASE ProcessAccept(c) \/ ProcessDisconnect(c)
    BY <2>3, SpawnsFirstSame DEF ProcessAccept, ProcessDisconnect, clients, Known
  <2>4. CASE Handle(c)
    <3>1. CASE ProcessPacket(c)
      BY <3>1, SpawnsFirstPacket
    <3>2. CASE ~ProcessPacket(c)
      <4>1. up' = up /\ phase' = phase /\ UNCHANGED <<m_idToPlayer, despawned>>
        BY <2>4, <3>2 DEF Handle, Brodcast, BeginList, EndList, LostPlace,
                          Down, SendList, SendEnemies, clients
      <4> QED
        BY <4>1, SpawnsFirstSame DEF Known
    <3> QED
      BY <3>1, <3>2
  <2> QED
    BY <2>1, <2>2, <2>3, <2>4, SpawnsFirstClient, SpawnsFirstDequeue
<1> QED
  BY <1>1, <1>2

LEMMA MoverFromSpawns == IInv => MoverKnownUntilDespawn
<1> SUFFICES ASSUME IInv, NEW c \in m_bConnected,
                    up[c] # <<>>, Head(up[c]).id = "Movement"
             PROVE  c \in m_idToPlayer \cup despawned
  BY DEF MoverKnownUntilDespawn
<1>1. c \in Sessions /\ up[c] \in Seq(Packets)
  BY DEF IInv, TypeOK
<1>2. 1 \in 1 .. Len(up[c]) /\ up[c][1] = Head(up[c])
  BY <1>1, LenProperties, EmptySeq
<1>3. Known(c) \/ SpawnWithin(c, 1)
  BY <1>1, <1>2 DEF IInv, SpawnsFirst, SpawnFirst
<1>4. ~SpawnWithin(c, 1)
  BY <1>2 DEF SpawnWithin
<1> QED
  BY <1>3, <1>4 DEF Known

\* UpdatePlayer finds the player of a C_Move, unless that client's C_Despawn
\* was handled before, for any number of clients.
THEOREM MoverKnown == Spec => []MoverKnownUntilDespawn
<1>1. Init => IInv
  BY TypeInit, SpawnsFirstInit DEF IInv
<1>2. IInv /\ [Next]_vars => IInv'
  BY TypeNext, SpawnsFirstNext DEF IInv
<1> QED
  BY <1>1, <1>2, MoverFromSpawns, PTL DEF Spec

-----------------------------------------------------------------------------
(* A client that is up to date has every player *)

Announcing(p) == io[p].pc = "brodcast" /\ io[p].pkt.id = "Spawn"
Spawning(p) == Announcing(p) \/ io[p].pc \in {"list", "listing", "sendlist"}

\* A client asks for its player once, so that nobody comes back who left.
SpawnOnce(c) ==
  /\ phase[c] \in {"menu", "online"} => ~Known(c)
  /\ \A k \in 1 .. Len(up[c]) : up[c][k].id = "Spawn" =>
       /\ ~Known(c) /\ phase[c] \notin {"menu", "online"}
       /\ \A j \in 1 .. Len(up[c]) : up[c][j].id = "Spawn" => j = k
  /\ ~(c \in m_idToPlayer /\ c \in despawned)

\* What a handler broadcasts is about its own client, and those clients whose
\* C_Spawn was handled are connected as long as they run.
HandlerInv(c) ==
  /\ Spawning(c) => Known(c)
  /\ Known(c) /\ ~Gone(c) => c \in m_bConnected
  /\ io[c].pc = "brodcast" =>
       \/ io[c].pkt = Packet("Spawn", {c})
       \/ io[c].pkt = Packet("Despawn", {c}) /\ c \in despawned
       \/ io[c].pkt = Packet("Chat", {})
  /\ io[c].pc \in {"listing", "sendlist"} => io[c].pkt.id = "Spawn"
  /\ io[c].pc = "sendenemies" => io[c].pkt.id = "EnemySpawn"

\* The list of players was sent to client c.
ListSent(c) == Known(c) /\ ~Spawning(c)

\* Packets that remove players name only those whose C_Despawn was handled, and
\* the list is the only one that brings a client its own player.
Sound(c, pkt) ==
  /\ pkt.id = "Despawn" => pkt.players \subseteq despawned
  /\ pkt.id = "Spawn" /\ c \in pkt.players => ListSent(c)

DownInv(c) ==
  /\ \A k \in 1 .. Len(down[c]) : Sound(c, down[c][k])
  /\ c \in world[c] => ListSent(c)

\* Player p is in the game state of c or on its way.
Coming(c, p) ==
  \/ p \in world[c]
  \/ \E k \in 1 .. Len(down[c]) : down[c][k].id = "Spawn" /\ p \in down[c][k].players

\* The list of c is still to be sent and will have p in it.
ListAhead(c, p) ==
  \/ ~Known(c)
  \/ Announcing(c) \/ io[c].pc = "list"
  \/ io[c].pc \in {"listing", "sendlist"} /\ p \in io[c].pkt.players

\* The handler of p has yet to announce it to c.
ToAnnounce(c, p) == Announcing(p) /\ io[p].i <= c

Seen(c, p) ==
  p \in m_idToPlayer /\ ~Gone(c) /\ ~ToAnnounce(c, p) =>
    Coming(c, p) \/ ListAhead(c, p)

SpawnsOnce == \A c \in Sessions : SpawnOnce(c)
HandlersInv == \A c \in Sessions : HandlerInv(c)
DownsInv == \A c \in Sessions : DownInv(c)
AllSeen == \A c \in Sessions : \A p \in Sessions \ {c} : Seen(c, p)

SeenInv == SpawnsOnce /\ HandlersInv /\ DownsInv /\ AllSeen

\* The steps of session c, by what they may change.
Enqueueing(c) ==
  \/ ConnectToServer(c) \/ SpawnPlayer(c) \/ BrodcastPos(c)
  \/ SendMessage(c) \/ DisconnectFromServer(c)
Ending(c) == End(c, "exited") \/ End(c, "crashed")
Taking(c) == DequeuePacket(c) /\ ~Ending(c)
Linking(c) == ProcessAccept(c) \/ ProcessDisconnect(c)
ListStep(c) ==
  BeginList(c) \/ EndList(c) \/ LostPlace(c) \/ SendList(c) \/ SendEnemies(c)

LEMMA StepCases ==
  ASSUME Next
  PROVE  \E c \in Sessions :
           \/ Enqueueing(c) \/ Ending(c) \/ Linking(c)
           \/ Taking(c)
           \/ ProcessPacket(c) \/ Brodcast(c) \/ ListStep(c)
BY DEF Next, Enqueueing, Ending, Taking, Linking, ListStep, Exit, Handle

\* A client's program neither restarts nor goes back to the menu.
LEMMA PhaseStep ==
  ASSUME TypeOK, [Next]_vars, NEW d \in Sessions
  PROVE  /\ Gone(d) => Gone(d)'
         /\ phase'[d] \in {"menu", "online"} => phase[d] \in {"menu", "online"}
<1>1. CASE UNCHANGED vars
  BY <1>1 DEF vars, clients, Gone
<1>2. CASE Next
  <2>1. PICK c \in Sessions :
           \/ Enqueueing(c) \/ Ending(c) \/ Linking(c)
           \/ Taking(c)
           \/ ProcessPacket(c) \/ Brodcast(c) \/ ListStep(c)
    BY <1>2, StepCases
  <2>2. CASE Enqueueing(c)
    BY <2>2 DEF Enqueueing, ConnectToServer, SpawnPlayer, BrodcastPos,
                SendMessage, DisconnectFromServer, clients, Gone, TypeOK
  <2>3. CASE Ending(c)
    BY <2>3 DEF Ending, End, Gone, TypeOK
  <2>4. CASE ~Enqueueing(c) /\ ~Ending(c)
    <3>1. phase' = phase
      BY <2>1, <2>4 DEF Linking, ProcessAccept, ProcessDisconnect, Taking, Ending,
           DequeuePacket, ProcessS_Login, ProcessS_Spawn, ProcessS_Despawn,
           ProcessS_Chat, ProcessS_EnemySpawn,
           ProcessPacket, ProcessC_Login, ProcessC_Spawn, ProcessC_Despawn,
           ProcessC_Move, ProcessC_Chat, Down, Brodcast, ListStep, BeginList,
           EndList, LostPlace, SendList, SendEnemies, clients
    <3> QED
      BY <3>1 DEF Gone
  <2> QED
    BY <2>2, <2>3, <2>4
<1> QED
  BY <1>1, <1>2

\* What changes the maps and the handlers: nothing but the server's steps, and
\* those of one session leave the handlers of the others alone.
LEMMA KnownStep ==
  ASSUME TypeOK, NEW c \in Sessions, ProcessPacket(c)
  PROVE  /\ \A d \in Sessions \ {c} : Known(d)' <=> Known(d)
         /\ Known(c)' <=> Known(c) \/ ProcessC_Spawn(c)
         /\ m_idToPlayer' \subseteq m_idToPlayer \cup {c}
         /\ despawned \subseteq despawned' /\ despawned' \subseteq despawned \cup {c}
         /\ m_bConnected' = m_bConnected /\ phase' = phase /\ world' = world
         /\ \A d \in Sessions \ {c} : io'[d] = io[d]
         /\ io[c] = Waiting
BY DEF ProcessPacket, ProcessC_Login, ProcessC_Spawn, ProcessC_Despawn,
       ProcessC_Move, ProcessC_Chat, Receive, Goto, Down, server, clients, Known, TypeOK

LEMMA QuietServer ==
  ASSUME TypeOK, NEW c \in Sessions,
         \/ Enqueueing(c) \/ Ending(c) \/ Linking(c)
         \/ Taking(c) \/ UNCHANGED vars
  PROVE  UNCHANGED <<m_idToPlayer, io, despawned>>
<1>1. CASE Enqueueing(c)
  BY <1>1 DEF Enqueueing, ConnectToServer, SpawnPlayer, BrodcastPos,
       SendMessage, DisconnectFromServer, server
<1>2. CASE Ending(c) \/ Linking(c) \/ UNCHANGED vars
  BY <1>2 DEF Ending, End, Linking, ProcessAccept, ProcessDisconnect, vars, server
<1>3. CASE Taking(c)
  BY <1>3 DEF Taking, Ending, DequeuePacket, ProcessS_Login, ProcessS_Spawn,
       ProcessS_Despawn, ProcessS_Chat, ProcessS_EnemySpawn, server
<1> QED
  BY <1>1, <1>2, <1>3

LEMMA LoopServer ==
  ASSUME TypeOK, NEW c \in Sessions, Brodcast(c) \/ ListStep(c)
  PROVE  /\ UNCHANGED <<m_idToPlayer, m_bConnected, despawned, phase, world, up>>
         /\ \A d \in Sessions \ {c} : io'[d] = io[d]
<1>1. CASE Brodcast(c)
  BY <1>1 DEF Brodcast, Goto, clients, TypeOK
<1>2. CASE ListStep(c)
  BY <1>2 DEF ListStep, BeginList, EndList, LostPlace, SendList, SendEnemies,
       Down, Goto, clients, TypeOK
<1> QED
  BY <1>1, <1>2

\* A turn of the loop of Brodcast, and where its handler goes after the last.
LEMMA Turn ==
  ASSUME TypeOK, NEW c \in Sessions, Brodcast(c)
  PROVE  /\ io[c].pc = "brodcast" /\ io[c].i \in Nat /\ io[c].i <= N
         /\ \/ /\ io[c].i < N /\ io'[c].pc = "brodcast"
               /\ io'[c].pkt = io[c].pkt /\ io'[c].i = io[c].i + 1
            \/ io[c].i = N /\ io[c].pkt.id = "Spawn" /\ io'[c].pc = "list"
            \/ io[c].i = N /\ io[c].pkt.id # "Spawn" /\ io'[c].pc = "recv"
<1>1. io[c] \in Handlers /\ io[c].i \in Sessions /\ N \in Nat
  BY ProtocolAssumption DEF TypeOK, Handlers
<1>2. CASE io[c].i < N
  <2>1. io' = [io EXCEPT ![c] = [io[c] EXCEPT !.i = @ + 1]]
    BY <1>2 DEF Brodcast
  <2> QED
    BY <1>1, <1>2, <2>1 DEF Brodcast, TypeOK, Handlers, Sessions
<1>3. CASE io[c].i = N
  BY <1>1, <1>3 DEF Brodcast, Goto, Waiting, TypeOK, Sessions
<1> QED
  BY <1>1, <1>2, <1>3 DEF Sessions

LEMMA SpawnOnceSame ==
  ASSUME NEW c \in Sessions, SpawnOnce(c), up'[c] = up[c], Known(c)' <=> Known(c),
         phase'[c] \in {"menu", "online"} => phase[c] \in {"menu", "online"},
         ~(c \in m_idToPlayer /\ c \in despawned)'
  PROVE  SpawnOnce(c)'
BY DEF SpawnOnce

\* Queueing: C_Spawn only on the way from the menu to the level.
LEMMA SpawnOnceEnqueue ==
  ASSUME TypeOK, NEW c \in Sessions, SpawnOnce(c), Enqueueing(c)
  PROVE  SpawnOnce(c)'
<1>1. PICK id \in Types :
        /\ Enqueue(c, id)
        /\ \/ /\ id # "Spawn"
              /\ phase'[c] \in {"menu", "online"} => phase[c] \in {"menu", "online"}
           \/ id = "Spawn" /\ phase[c] = "online" /\ phase'[c] = "level"
  <2>1. CASE ConnectToServer(c)
    BY <2>1 DEF ConnectToServer, Types, TypeOK
  <2>2. CASE SpawnPlayer(c)
    BY <2>2 DEF SpawnPlayer, Types, TypeOK
  <2>3. CASE BrodcastPos(c) \/ SendMessage(c)
    BY <2>3 DEF BrodcastPos, SendMessage, Types, TypeOK, clients
  <2>4. CASE DisconnectFromServer(c)
    BY <2>4 DEF DisconnectFromServer, Types, TypeOK
  <2> QED
    BY <2>1, <2>2, <2>3, <2>4 DEF Enqueueing
<1>2. UNCHANGED <<m_idToPlayer, despawned>> /\ (Known(c)' <=> Known(c))
  BY QuietServer DEF Known
<1>3. PICK n \in Nat : n = Len(up[c])
  BY LenProperties DEF TypeOK
<1>4. /\ Len(up'[c]) = n + 1
      /\ \A j \in 1 .. n : up'[c][j] = up[c][j]
      /\ up'[c][n + 1].id = id
      /\ \A k \in 1 .. n + 1 : k \in 1 .. n \/ k = n + 1
  BY <1>1, <1>3, PacketType, AppendProperties DEF Enqueue, TypeOK, Packet
<1>5. CASE id # "Spawn"
  BY <1>1, <1>2, <1>3, <1>4, <1>5 DEF SpawnOnce
<1>6. CASE id = "Spawn"
  <2>1. phase[c] = "online" /\ phase'[c] = "level" /\ ~Known(c)
    BY <1>1, <1>6 DEF SpawnOnce
  <2>2. \A k \in 1 .. n : up[c][k].id # "Spawn"
    BY <1>3, <2>1 DEF SpawnOnce
  <2> QED
    BY <1>2, <1>3, <1>4, <2>1, <2>2 DEF SpawnOnce
<1> QED
  BY <1>5, <1>6

\* The end of a program leaves the first packets of its queue.
LEMMA SpawnOnceEnd ==
  ASSUME TypeOK, NEW c \in Sessions, SpawnOnce(c), Ending(c)
  PROVE  SpawnOnce(c)'
<1>1. PICK k \in 0 .. Len(up[c]) : up' = [up EXCEPT ![c] = SubSeq(@, 1, k)]
  BY DEF Ending, End
<1>2. /\ Len(up[c]) \in Nat /\ Len(up'[c]) = k
      /\ \A j \in 1 .. k : up'[c][j] = up[c][j] /\ j \in 1 .. Len(up[c])
  BY <1>1, PrefixType, LenProperties DEF TypeOK
<1>3. phase'[c] \notin {"menu", "online"} /\ UNCHANGED <<m_idToPlayer, despawned>>
  BY DEF Ending, End, TypeOK, server
<1>4. \A j \in 1 .. k : up'[c][j].id = "Spawn" =>
        ~Known(c) /\ \A i \in 1 .. k : up'[c][i].id = "Spawn" => i = j
  BY <1>2 DEF SpawnOnce
<1> QED
  BY <1>2, <1>3, <1>4 DEF SpawnOnce, Known

\* The server takes the first packet.
LEMMA SpawnOnceReceive ==
  ASSUME TypeOK, NEW c \in Sessions, SpawnOnce(c), ProcessPacket(c)
  PROVE  SpawnOnce(c)'
<1>1. PICK id \in Types : Receive(c, id) /\ (ProcessC_Spawn(c) => id = "Spawn")
  <2>1. CASE ProcessC_Spawn(c)
    BY <2>1 DEF ProcessC_Spawn, Types
  <2>2. CASE ~ProcessC_Spawn(c)
    BY <2>2 DEF ProcessPacket, ProcessC_Login, ProcessC_Despawn,
           ProcessC_Move, ProcessC_Chat, Types
  <2> QED
    BY <2>1, <2>2
<1>2. /\ up[c] \in Seq(Packets) /\ up[c] # <<>> /\ up[c][1].id = id
      /\ up'[c] = Tail(up[c])
  BY <1>1 DEF Receive, TypeOK
<1>3. /\ Len(up[c]) \in Nat \ {0}
      /\ Len(up'[c]) = Len(up[c]) - 1
      /\ \A j \in 1 .. Len(up'[c]) : up'[c][j] = up[c][j + 1]
  BY <1>2, LenProperties, HeadTailProperties, EmptySeq
<1>4. ASSUME NEW j \in 1 .. Len(up'[c]), up'[c][j].id = "Spawn"
      PROVE  /\ ~Known(c) /\ phase[c] \notin {"menu", "online"}
             /\ id # "Spawn"
             /\ \A i \in 1 .. Len(up'[c]) : up'[c][i].id = "Spawn" => i = j
  <2>1. \A i \in 1 .. Len(up'[c]) : i + 1 \in 1 .. Len(up[c]) /\ i + 1 # 1 /\ i \in Nat
    BY <1>3
  <2>2. \A i \in 1 .. Len(up'[c]) : up'[c][i].id = "Spawn" => i + 1 = j + 1
    BY <1>3, <1>4, <2>1 DEF SpawnOnce
  <2>3. 1 \in 1 .. Len(up[c])
    BY <1>3
  <2> QED
    BY <1>2, <1>3, <1>4, <2>1, <2>2, <2>3 DEF SpawnOnce
<1>5. phase' = phase /\ (Known(c)' <=> Known(c) \/ ProcessC_Spawn(c))
  BY KnownStep
<1>6. ProcessC_Spawn(c) => ~Known(c) /\ phase[c] \notin {"menu", "online"}
  BY <1>1, <1>2, <1>3 DEF SpawnOnce
<1>7. ~(c \in m_idToPlayer /\ c \in despawned)'
  <2>1. CASE ProcessC_Spawn(c)
    BY <1>6, <2>1 DEF ProcessC_Spawn, Known
  <2>2. CASE ~ProcessC_Spawn(c)
    BY <2>2 DEF ProcessPacket, ProcessC_Login, ProcessC_Despawn, ProcessC_Move,
         ProcessC_Chat, Down, server, SpawnOnce
  <2> QED
    BY <2>1, <2>2
<1>8. phase'[c] \in {"menu", "online"} => ~Known(c)'
  BY <1>5, <1>6 DEF SpawnOnce
<1>9. ASSUME NEW j \in 1 .. Len(up'[c]), up'[c][j].id = "Spawn" PROVE ~Known(c)'
  BY <1>1, <1>4, <1>5, <1>9
<1> QED
  BY <1>4, <1>5, <1>7, <1>8, <1>9 DEF SpawnOnce

LEMMA SpawnsOnceNext ==
  ASSUME TypeOK, SpawnsOnce, [Next]_vars
  PROVE  SpawnsOnce'
<1> SUFFICES ASSUME NEW d \in Sessions PROVE SpawnOnce(d)'
  BY DEF SpawnsOnce
<1>1. SpawnOnce(d)
  BY DEF SpawnsOnce
<1>2. phase'[d] \in {"menu", "online"} => phase[d] \in {"menu", "online"}
  BY PhaseStep
<1>3. CASE UNCHANGED <<up, m_idToPlayer, despawned>>
  BY <1>1, <1>2, <1>3, SpawnOnceSame DEF Known, SpawnOnce
<1>4. CASE Next
  <2>1. PICK c \in Sessions :
           \/ Enqueueing(c) \/ Ending(c) \/ Linking(c)
           \/ Taking(c)
           \/ ProcessPacket(c) \/ Brodcast(c) \/ ListStep(c)
    BY <1>4, StepCases
  <2>2. CASE Enqueueing(c) \/ Ending(c)
    <3>1. CASE c = d
      BY <1>1, <2>2, <3>1, SpawnOnceEnqueue, SpawnOnceEnd
    <3>2. CASE c # d
      <4>1. up'[d] = up[d]
        BY <2>2, <3>2 DEF Enqueueing, ConnectToServer, SpawnPlayer, BrodcastPos,
             SendMessage, DisconnectFromServer, Enqueue, Ending, End, TypeOK
      <4>2. UNCHANGED <<m_idToPlayer, despawned>>
        BY <2>2, QuietServer
      <4> QED
        BY <1>1, <1>2, <4>1, <4>2, SpawnOnceSame DEF Known, SpawnOnce
    <3> QED
      BY <3>1, <3>2
  <2>3. CASE ProcessPacket(c)
    <3>1. CASE c = d
      BY <1>1, <2>3, <3>1, SpawnOnceReceive
    <3>2. CASE c # d
      <4>1. up'[d] = up[d]
        BY <2>3, <3>2 DEF ProcessPacket, ProcessC_Login, ProcessC_Spawn,
             ProcessC_Despawn, ProcessC_Move, ProcessC_Chat, Receive, TypeOK
      <4>2. /\ Known(d)' <=> Known(d)
            /\ m_idToPlayer' \subseteq m_idToPlayer \cup {c}
            /\ despawned' \subseteq despawned \cup {c}
        BY <2>3, <3>2, KnownStep
      <4>3. ~(d \in m_idToPlayer /\ d \in despawned)'
        BY <1>1, <3>2, <4>2 DEF SpawnOnce
      <4> QED
        BY <1>1, <1>2, <4>1, <4>2, <4>3, SpawnOnceSame
    <3> QED
      BY <3>1, <3>2
  <2>4. CASE Linking(c) \/ Taking(c)
    <3>1. up' = up
      BY <2>4 DEF Linking, ProcessAccept, ProcessDisconnect, Taking, Ending,
           DequeuePacket, ProcessS_Login, ProcessS_Spawn, ProcessS_Despawn,
           ProcessS_Chat, ProcessS_EnemySpawn
    <3> QED
      BY <1>3, <2>4, <3>1, QuietServer
  <2>5. CASE Brodcast(c) \/ ListStep(c)
    BY <1>3, <2>5, LoopServer
  <2> QED
    BY <2>1, <2>2, <2>3, <2>4, <2>5
<1> QED
  BY <1>3, <1>4 DEF vars, server

LEMMA HandlerSame ==
  ASSUME NEW d \in Sessions, HandlerInv(d), io'[d] = io[d],
         Known(d)' <=> Known(d), Gone(d) => Gone(d)', despawned \subseteq despawned',
         d \in m_bConnected => d \in m_bConnected' \/ Gone(d)'
  PROVE  HandlerInv(d)'
BY DEF HandlerInv, Spawning, Announcing

\* The steps of the session's own handler.
LEMMA HandlerOwn ==
  ASSUME TypeOK, NEW c \in Sessions, HandlerInv(c),
         ProcessPacket(c) \/ Brodcast(c) \/ ListStep(c)
  PROVE  HandlerInv(c)'
<1> USE DEF HandlerInv, Spawning, Announcing, Packet, Waiting, Goto
<1>1. CASE ProcessPacket(c)
  <2>1. c \in m_bConnected'
    BY <1>1, KnownStep DEF ProcessPacket, ProcessC_Login, ProcessC_Spawn,
         ProcessC_Despawn, ProcessC_Move, ProcessC_Chat, Receive
  <2>2. CASE ProcessC_Spawn(c)
    BY <2>1, <2>2 DEF ProcessC_Spawn, Known, TypeOK
  <2>3. CASE ProcessC_Despawn(c) /\ c \in m_idToPlayer
    BY <2>1, <2>3 DEF ProcessC_Despawn, Known, TypeOK
  <2>4. CASE ProcessC_Chat(c)
    BY <2>1, <2>4 DEF ProcessC_Chat, Known, TypeOK
  <2>5. CASE \/ ProcessC_Login(c) \/ ProcessC_Move(c)
             \/ ProcessC_Despawn(c) /\ c \notin m_idToPlayer
    <3>1. io' = io
      BY <2>5 DEF ProcessC_Login, ProcessC_Move, ProcessC_Despawn, Down, server
    <3> QED
      BY <1>1, <2>1, <3>1, KnownStep
  <2> QED
    BY <1>1, <2>2, <2>3, <2>4, <2>5 DEF ProcessPacket
<1>2. CASE Brodcast(c) \/ ListStep(c)
  <2>1. /\ Known(c)' <=> Known(c)
        /\ Gone(c)' <=> Gone(c)
        /\ UNCHANGED <<m_bConnected, despawned>>
    BY <1>2, LoopServer DEF Known, Gone
  <2>2. CASE Brodcast(c)
    BY <2>1, <2>2, Turn
  <2>3. CASE BeginList(c) \/ SendList(c) \/ SendEnemies(c) \/ LostPlace(c)
    BY <2>1, <2>3 DEF BeginList, SendList, SendEnemies, LostPlace, Down, TypeOK
  <2>4. CASE EndList(c)
    BY <2>1, <2>4 DEF EndList, TypeOK
  <2> QED
    BY <1>2, <2>2, <2>3, <2>4 DEF ListStep
<1> QED
  BY <1>1, <1>2

\* Connections come and go, and do not while the client of a player runs.
LEMMA ConnectedStep ==
  ASSUME TypeOK, NEW c \in Sessions, Enqueueing(c) \/ Ending(c) \/ Linking(c)
           \/ Taking(c),
         NEW d \in m_bConnected
  PROVE  d \in m_bConnected' \/ Gone(d)
BY DEF Enqueueing, ConnectToServer, SpawnPlayer, BrodcastPos, SendMessage,
       DisconnectFromServer, Ending, End, Linking, ProcessAccept, ProcessDisconnect,
       Taking, DequeuePacket, ProcessS_Login, ProcessS_Spawn, ProcessS_Despawn,
       ProcessS_Chat, ProcessS_EnemySpawn, server

LEMMA HandlersNext ==
  ASSUME TypeOK, HandlersInv, [Next]_vars
  PROVE  HandlersInv'
<1> SUFFICES ASSUME NEW d \in Sessions PROVE HandlerInv(d)'
  BY DEF HandlersInv
<1>1. HandlerInv(d) /\ (Gone(d) => Gone(d)')
  BY PhaseStep DEF HandlersInv
<1>2. CASE UNCHANGED vars
  <2>1. UNCHANGED <<io, m_idToPlayer, despawned, m_bConnected>>
    BY <1>2 DEF vars, server
  <2> QED
    BY <1>1, <2>1, HandlerSame DEF Known
<1>3. CASE Next
  <2>1. PICK c \in Sessions :
           \/ Enqueueing(c) \/ Ending(c) \/ Linking(c)
           \/ Taking(c)
           \/ ProcessPacket(c) \/ Brodcast(c) \/ ListStep(c)
    BY <1>3, StepCases
  <2>2. CASE Enqueueing(c) \/ Ending(c) \/ Linking(c) \/ Taking(c)
    <3>1. UNCHANGED <<io, m_idToPlayer, despawned>>
      BY <2>2, QuietServer
    <3>2. d \in m_bConnected => d \in m_bConnected' \/ Gone(d)'
      BY <1>1, <2>2, ConnectedStep
    <3> QED
      BY <1>1, <3>1, <3>2, HandlerSame DEF Known
  <2>3. CASE ProcessPacket(c) /\ c # d
    <3>1. /\ io'[d] = io[d] /\ (Known(d)' <=> Known(d)) /\ despawned \subseteq despawned'
          /\ m_bConnected' = m_bConnected
      BY <2>3, KnownStep
    <3> QED
      BY <1>1, <3>1, HandlerSame
  <2>4. CASE (Brodcast(c) \/ ListStep(c)) /\ c # d
    <3>1. /\ io'[d] = io[d] /\ UNCHANGED <<m_idToPlayer, despawned, m_bConnected>>
      BY <2>4, LoopServer
    <3> QED
      BY <1>1, <3>1, HandlerSame DEF Known
  <2> QED
    BY <1>1, <2>1, <2>2, <2>3, <2>4, HandlerOwn
<1> QED
  BY <1>2, <1>3

\* Once the list was sent no step takes that back: the client asks only once.
LEMMA ListSentStays ==
  ASSUME TypeOK, SpawnsOnce, [Next]_vars, NEW d \in Sessions, ListSent(d)
  PROVE  ListSent(d)'
<1> USE DEF ListSent, Spawning, Announcing
<1>1. CASE UNCHANGED vars
  BY <1>1 DEF vars, server, Known
<1>2. CASE Next
  <2>1. PICK c \in Sessions :
           \/ Enqueueing(c) \/ Ending(c) \/ Linking(c)
           \/ Taking(c)
           \/ ProcessPacket(c) \/ Brodcast(c) \/ ListStep(c)
    BY <1>2, StepCases
  <2>2. CASE Enqueueing(c) \/ Ending(c) \/ Linking(c) \/ Taking(c)
    BY <2>2, QuietServer DEF Known
  <2>3. CASE ProcessPacket(c) /\ c # d
    BY <2>3, KnownStep
  <2>4. CASE (Brodcast(c) \/ ListStep(c)) /\ c # d
    BY <2>4, LoopServer DEF Known
  <2>5. CASE ProcessPacket(c) /\ c = d
    <3>1. ~ProcessC_Spawn(d)
      <4>1. SUFFICES ASSUME Receive(d, "Spawn") PROVE FALSE
        BY DEF ProcessC_Spawn
      <4>2. up[d] \in Seq(Packets) /\ up[d] # <<>> /\ Head(up[d]).id = "Spawn"
        BY <4>1 DEF Receive, TypeOK
      <4>3. 1 \in 1 .. Len(up[d]) /\ up[d][1].id = "Spawn"
        BY <4>2, LenProperties, EmptySeq
      <4> QED
        BY <4>3 DEF SpawnsOnce, SpawnOnce
    <3>2. Known(d)'
      BY <2>5, KnownStep
    <3>3. \/ io'[d] = io[d]
          \/ io'[d].pc = "brodcast" /\ io'[d].pkt.id \in {"Despawn", "Chat"}
      BY <2>5, <3>1 DEF ProcessPacket, ProcessC_Login, ProcessC_Despawn,
           ProcessC_Move, ProcessC_Chat, Down, Goto, Packet, server, TypeOK
    <3> QED
      BY <3>2, <3>3
  <2>6. CASE (Brodcast(c) \/ ListStep(c)) /\ c = d
    <3>1. Known(d)'
      BY <2>6, LoopServer DEF Known
    <3>2. CASE Brodcast(d)
      BY <3>1, <3>2, Turn
    <3>3. CASE SendEnemies(d) \/ LostPlace(d)
      BY <3>1, <3>3 DEF SendEnemies, LostPlace, Down, Waiting, TypeOK
    <3>4. ~BeginList(d) /\ ~EndList(d) /\ ~SendList(d)
      BY DEF BeginList, EndList, SendList
    <3> QED
      BY <2>6, <3>2, <3>3, <3>4 DEF ListStep
  <2> QED
    BY <2>1, <2>2, <2>3, <2>4, <2>5, <2>6
<1> QED
  BY <1>1, <1>2

\* What a step may do to the packets on their way to client d and to its
\* game state.
Quiet(d) == down'[d] = down[d] /\ world'[d] = world[d]
Sent(d, pkt) == down'[d] = Append(down[d], pkt) /\ world'[d] = world[d]
Ended(d) == Gone(d)' /\ down'[d] = <<>> /\ world'[d] = {}
Took(d) ==
  /\ down[d] # <<>>
  /\ down'[d] = Tail(down[d])
  /\ world[d] \ world'[d] \subseteq
       (IF Head(down[d]).id = "Despawn" THEN Head(down[d]).players ELSE {})
  /\ Head(down[d]).id = "Spawn" => Head(down[d]).players \subseteq world'[d]
  /\ world'[d] \ world[d] \subseteq
       (IF Head(down[d]).id = "Spawn" THEN Head(down[d]).players ELSE {})

LEMMA RequestStep ==
  ASSUME TypeOK, NEW s \in Sessions, NEW pkt, RequestSend(s, pkt), world' = world,
         NEW d \in Sessions
  PROVE  Quiet(d) \/ (d = s /\ Sent(d, pkt))
BY DEF RequestSend, Quiet, Sent, TypeOK

\* The client's own steps.
LEMMA ClientDeliveries ==
  ASSUME TypeOK, NEW c \in Sessions,
         Enqueueing(c) \/ Ending(c) \/ Linking(c) \/ Taking(c) \/ UNCHANGED vars,
         NEW d \in Sessions
  PROVE  Quiet(d) \/ Ended(d) \/ Took(d)
<1>1. CASE Enqueueing(c) \/ Linking(c) \/ UNCHANGED vars
  BY <1>1 DEF Enqueueing, ConnectToServer, SpawnPlayer, BrodcastPos, SendMessage,
       DisconnectFromServer, Linking, ProcessAccept, ProcessDisconnect, clients,
       vars, Quiet
<1>2. CASE Ending(c)
  BY <1>2 DEF Ending, End, Gone, Quiet, Ended, TypeOK
<1>3. CASE Taking(c)
  <2>1. down[c] # <<>> /\ Dequeue(c)
    BY <1>3 DEF Taking, Ending, DequeuePacket, ProcessS_Login, ProcessS_Spawn,
         ProcessS_Despawn, ProcessS_Chat, ProcessS_EnemySpawn, Received
  <2>2. down' = [down EXCEPT ![c] = Tail(down[c])]
    BY <2>1 DEF Dequeue
  <2>3. CASE ProcessS_Spawn(c)
    BY <2>1, <2>2, <2>3 DEF ProcessS_Spawn, Received, Quiet, Took, TypeOK
  <2>4. CASE ProcessS_Despawn(c)
    BY <1>3, <2>1, <2>2, <2>4 DEF Taking, Ending, ProcessS_Despawn, Received, Quiet,
         Took, TypeOK
  <2>5. CASE ProcessS_Login(c) \/ ProcessS_Chat(c) \/ ProcessS_EnemySpawn(c)
    <3>1. world' = world /\ Head(down[c]).id \notin {"Spawn", "Despawn"}
      BY <1>3, <2>5 DEF Taking, Ending, ProcessS_Login, ProcessS_Chat,
           ProcessS_EnemySpawn, Received, clients
    <3> QED
      BY <2>1, <2>2, <3>1 DEF Quiet, Took, TypeOK
  <2> QED
    BY <1>3, <2>3, <2>4, <2>5 DEF Taking, DequeuePacket
<1> QED
  BY <1>1, <1>2, <1>3

\* What the server sends removes only players that despawned, and only
\* SendList tells a client of itself.
LEMMA ServerDeliveries ==
  ASSUME TypeOK, HandlersInv, NEW c \in Sessions,
         ProcessPacket(c) \/ Brodcast(c) \/ ListStep(c),
         NEW d \in Sessions
  PROVE  Quiet(d) \/ \E pkt \in Packets : Sent(d, pkt) /\ Sound(d, pkt)'
<1>0. HandlerInv(c)
  BY DEF HandlersInv
<1>1. CASE ProcessPacket(c)
  <2>1. world' = world
    BY <1>1, KnownStep
  <2>2. CASE ProcessC_Login(c)
    <3>1. Packet("Login", {}) \in Packets /\ Sound(d, Packet("Login", {}))'
      BY PacketType DEF Types, Sound, Packet
    <3> QED
      BY <2>1, <2>2, <3>1, RequestStep DEF ProcessC_Login
  <2>3. CASE ~ProcessC_Login(c)
    <3>1. down' = down
      BY <1>1, <2>3 DEF ProcessPacket, ProcessC_Spawn, ProcessC_Despawn,
           ProcessC_Move, ProcessC_Chat, Down
    <3> QED
      BY <2>1, <3>1 DEF Quiet
  <2> QED
    BY <2>2, <2>3
<1>2. CASE Brodcast(c)
  <2>1. world' = world /\ despawned' = despawned
    BY <1>2, LoopServer
  <2>2. io[c].pc = "brodcast" /\ io[c].pkt \in Packets /\ io[c].i \in Sessions
    BY <1>2 DEF Brodcast, TypeOK, Handlers
  <2>3. \/ Quiet(d)
        \/ io[c].i = d /\ d # c /\ Sent(d, io[c].pkt)
    <3>1. \/ down' = down
          \/ io[c].i # c /\ RequestSend(io[c].i, io[c].pkt)
      BY <1>2 DEF Brodcast
    <3>2. CASE down' = down
      BY <2>1, <3>2 DEF Quiet
    <3>3. CASE io[c].i # c /\ RequestSend(io[c].i, io[c].pkt)
      <4>1. Quiet(d) \/ (d = io[c].i /\ Sent(d, io[c].pkt))
        BY <2>1, <2>2, <3>3, RequestStep
      <4> QED
        BY <3>3, <4>1
    <3> QED
      BY <3>1, <3>2, <3>3
  <2>4. ASSUME NEW pkt \in Packets, pkt = io[c].pkt, d # c PROVE Sound(d, pkt)'
    BY <1>0, <2>1, <2>2, <2>4 DEF HandlerInv, Sound, Packet
  <2> QED
    BY <2>2, <2>3, <2>4
<1>3. CASE ListStep(c)
  <2>1. world' = world
    BY <1>3, LoopServer
  <2>2. io[c].pkt \in Packets
    BY DEF TypeOK, Handlers
  <2>3. CASE BeginList(c) \/ EndList(c) \/ LostPlace(c)
    BY <2>1, <2>3 DEF BeginList, EndList, LostPlace, Down, Quiet
  <2>4. CASE SendList(c)
    <3>1. ListSent(c)'
      <4>1. Known(c)'
        BY <1>0, <1>3, <2>4, LoopServer DEF SendList, HandlerInv, Spawning, Known
      <4> QED
        BY <2>4, <4>1 DEF SendList, Goto, ListSent, Spawning, Announcing, TypeOK
    <3>2. io[c].pkt.id = "Spawn" /\ RequestSend(c, io[c].pkt)
      BY <1>0, <2>4 DEF SendList, HandlerInv
    <3>3. ASSUME NEW pkt \in Packets, pkt = io[c].pkt PROVE Sound(c, pkt)'
      BY <3>1, <3>2, <3>3 DEF Sound
    <3> QED
      BY <2>1, <2>2, <3>2, <3>3, RequestStep
  <2>5. CASE SendEnemies(c)
    <3>1. io[c].pkt.id = "EnemySpawn" /\ RequestSend(c, io[c].pkt)
      BY <1>0, <2>5 DEF SendEnemies, HandlerInv
    <3>2. ASSUME NEW pkt \in Packets, pkt = io[c].pkt PROVE Sound(c, pkt)'
      BY <3>1, <3>2 DEF Sound
    <3> QED
      BY <2>1, <2>2, <3>1, <3>2, RequestStep
  <2> QED
    BY <1>3, <2>3, <2>4, <2>5 DEF ListStep
<1> QED
  BY <1>1, <1>2, <1>3

LEMMA Deliveries ==
  ASSUME TypeOK, HandlersInv, [Next]_vars, NEW d \in Sessions
  PROVE  \/ Quiet(d) \/ Ended(d) \/ Took(d)
         \/ \E pkt \in Packets : Sent(d, pkt) /\ Sound(d, pkt)'
<1>1. CASE UNCHANGED vars
  BY <1>1, ClientDeliveries
<1>2. CASE Next
  <2>1. PICK c \in Sessions :
           \/ Enqueueing(c) \/ Ending(c) \/ Linking(c)
           \/ Taking(c)
           \/ ProcessPacket(c) \/ Brodcast(c) \/ ListStep(c)
    BY <1>2, StepCases
  <2> QED
    BY <2>1, ClientDeliveries, ServerDeliveries
<1> QED
  BY <1>1, <1>2

\* despawned only grows.
LEMMA DespawnedGrows ==
  ASSUME TypeOK, [Next]_vars
  PROVE  despawned \subseteq despawned'
<1>1. CASE UNCHANGED vars
  BY <1>1 DEF vars, server
<1>2. CASE Next
  BY <1>2, StepCases, QuietServer, KnownStep, LoopServer
<1> QED
  BY <1>1, <1>2

LEMMA SoundStays ==
  ASSUME TypeOK, SpawnsOnce, [Next]_vars, NEW d \in Sessions, NEW pkt, Sound(d, pkt)
  PROVE  Sound(d, pkt)'
BY ListSentStays, DespawnedGrows DEF Sound

LEMMA DownsNext ==
  ASSUME TypeOK, SpawnsOnce, HandlersInv, DownsInv, [Next]_vars
  PROVE  DownsInv'
<1> SUFFICES ASSUME NEW d \in Sessions PROVE DownInv(d)'
  BY DEF DownsInv
<1>1. DownInv(d)
  BY DEF DownsInv
<1>2. \A pkt : Sound(d, pkt) => Sound(d, pkt)'
  BY SoundStays
<1>3. ListSent(d) => ListSent(d)'
  BY ListSentStays
<1>4. down[d] \in Seq(Packets) /\ Len(down[d]) \in Nat
  BY LenProperties DEF TypeOK
<1>5. CASE Quiet(d)
  BY <1>1, <1>2, <1>3, <1>5 DEF Quiet, DownInv
<1>6. CASE Ended(d)
  <2>1. Len(down'[d]) = 0
    BY <1>6, EmptySeq DEF Ended
  <2>2. \A k \in 1 .. Len(down'[d]) : FALSE
    BY <2>1
  <2> QED
    BY <1>6, <2>2 DEF Ended, DownInv
<1>7. CASE Took(d)
  <2>1. /\ Len(down[d]) >= 1 /\ Len(down'[d]) = Len(down[d]) - 1
        /\ \A j \in 1 .. Len(down'[d]) :
             j + 1 \in 1 .. Len(down[d]) /\ down'[d][j] = down[d][j + 1]
        /\ down[d][1] = Head(down[d])
    BY <1>4, <1>7, LenProperties, HeadTailProperties, EmptySeq DEF Took
  <2>2. ASSUME NEW j \in 1 .. Len(down'[d]), NEW pkt, pkt = down'[d][j]
        PROVE  Sound(d, pkt)'
    <3>1. Sound(d, pkt)
      BY <1>1, <2>1, <2>2 DEF DownInv
    <3> QED
      BY <1>2, <3>1
  <2>3. d \in world'[d] => ListSent(d)'
    <3>1. CASE d \in world[d]
      BY <1>1, <1>3, <3>1 DEF DownInv
    <3>2. CASE d \notin world[d] /\ d \in world'[d]
      <4>1. Head(down[d]).id = "Spawn" /\ d \in Head(down[d]).players
        BY <1>7, <3>2 DEF Took
      <4>2. Sound(d, Head(down[d]))
        BY <1>1, <1>4, <2>1 DEF DownInv
      <4> QED
        BY <1>3, <4>1, <4>2 DEF Sound
    <3> QED
      BY <3>1, <3>2
  <2> QED
    BY <2>2, <2>3 DEF DownInv, Sound
<1>8. ASSUME NEW pkt \in Packets, Sent(d, pkt), Sound(d, pkt)'
      PROVE  DownInv(d)'
  <2>1. PICK n \in Nat : n = Len(down[d])
    BY <1>4
  <2>2. /\ Len(down'[d]) = n + 1
        /\ \A j \in 1 .. n : down'[d][j] = down[d][j]
        /\ down'[d][n + 1] = pkt
        /\ \A k \in 1 .. n + 1 : k \in 1 .. n \/ k = n + 1
    BY <1>4, <1>8, <2>1, AppendProperties DEF Sent
  <2>3. ASSUME NEW j \in 1 .. n + 1, NEW q, q = down'[d][j]
        PROVE  Sound(d, q)'
    <3>1. CASE j = n + 1
      BY <1>8, <2>2, <2>3, <3>1
    <3>2. CASE j \in 1 .. n
      <4>1. Sound(d, q)
        BY <1>1, <2>1, <2>2, <2>3, <3>2 DEF DownInv
      <4> QED
        BY <1>2, <4>1
    <3> QED
      BY <2>2, <3>1, <3>2
  <2>4. d \in world'[d] => ListSent(d)'
    BY <1>1, <1>3, <1>8 DEF Sent, DownInv
  <2>5. \A j \in 1 .. Len(down'[d]) : \A q : q = down'[d][j] => Sound(d, q)'
    BY <2>2, <2>3
  <2> QED
    BY <2>4, <2>5 DEF DownInv, Sound
<1> QED
  BY <1>5, <1>6, <1>7, <1>8, Deliveries

\* A player that is in the game state of a client or on its way stays so while
\* the server has it: only its own departure takes it away.
LEMMA ComingStays ==
  ASSUME TypeOK, SpawnsOnce, HandlersInv, DownsInv, [Next]_vars,
         NEW d \in Sessions, NEW p \in Sessions,
         Coming(d, p), p \notin despawned, ~Gone(d)'
  PROVE  Coming(d, p)'
<1>1. DownInv(d)
  BY DEF DownsInv
<1>2. down[d] \in Seq(Packets) /\ Len(down[d]) \in Nat
  BY LenProperties DEF TypeOK
<1>3. CASE Quiet(d)
  BY <1>3 DEF Quiet, Coming
<1>4. CASE Took(d)
  <2>1. /\ Len(down[d]) >= 1 /\ Len(down'[d]) = Len(down[d]) - 1
        /\ \A j \in 1 .. Len(down'[d]) : down'[d][j] = down[d][j + 1]
        /\ down[d][1] = Head(down[d])
    BY <1>2, <1>4, LenProperties, HeadTailProperties, EmptySeq DEF Took
  <2>2. Head(down[d]).id = "Despawn" => p \notin Head(down[d]).players
    BY <1>1, <1>2, <2>1 DEF DownInv, Sound
  <2>3. CASE p \in world[d]
    BY <1>4, <2>2, <2>3 DEF Took, Coming
  <2>4. ASSUME NEW k \in 1 .. Len(down[d]), down[d][k].id = "Spawn",
               p \in down[d][k].players
        PROVE  Coming(d, p)'
    <3>1. CASE k = 1
      BY <1>4, <2>1, <2>4, <3>1 DEF Took, Coming
    <3>2. CASE k # 1
      <4>1. PICK j \in 1 .. Len(down'[d]) : k = j + 1
        <5>1. k - 1 \in 1 .. Len(down'[d]) /\ k = (k - 1) + 1
          BY <1>2, <2>1, <3>2
        <5> QED
          BY <5>1
      <4> QED
        BY <2>1, <2>4, <4>1 DEF Coming
    <3> QED
      BY <3>1, <3>2
  <2> QED
    BY <2>3, <2>4 DEF Coming
<1>5. ASSUME NEW pkt \in Packets, Sent(d, pkt)
      PROVE  Coming(d, p)'
  <2>1. /\ Len(down'[d]) = Len(down[d]) + 1
        /\ \A j \in 1 .. Len(down[d]) : down'[d][j] = down[d][j] /\ j \in 1 .. Len(down'[d])
    BY <1>2, <1>5, AppendProperties DEF Sent
  <2> QED
    BY <1>5, <2>1 DEF Sent, Coming
<1>6. ~Ended(d)
  BY DEF Ended
<1> QED
  BY <1>3, <1>4, <1>5, <1>6, Deliveries

\* What is sent to a client that runs is on its way.
LEMMA SentComing ==
  ASSUME TypeOK, NEW d \in Sessions, NEW p, NEW pkt \in Packets,
         RequestSend(d, pkt), ~Gone(d), pkt.id = "Spawn", p \in pkt.players
  PROVE  Coming(d, p)'
<1>1. down[d] \in Seq(Packets) /\ Len(down[d]) \in Nat
  BY LenProperties DEF TypeOK
<1>2. down'[d] = Append(down[d], pkt)
  BY DEF RequestSend, TypeOK
<1>3. Len(down[d]) + 1 \in 1 .. Len(down'[d]) /\ down'[d][Len(down[d]) + 1] = pkt
  BY <1>1, <1>2, AppendProperties
<1> QED
  BY <1>3 DEF Coming

\* A player appears in the map only by ProcessC_Spawn, which then announces it
\* to everybody.
LEMMA NewPlayer ==
  ASSUME TypeOK, [Next]_vars, NEW p \in Sessions, p \notin m_idToPlayer,
         p \in m_idToPlayer', NEW d \in Sessions
  PROVE  ToAnnounce(d, p)'
<1>1. PICK c \in Sessions : ProcessPacket(c)
  BY StepCases, QuietServer, LoopServer DEF vars, server
<1>2. c = p /\ ProcessC_Spawn(p)
  BY <1>1 DEF ProcessPacket, ProcessC_Login, ProcessC_Spawn, ProcessC_Despawn,
       ProcessC_Move, ProcessC_Chat, Down, server
<1> QED
  BY <1>2 DEF ProcessC_Spawn, Goto, Packet, ToAnnounce, Announcing, Sessions, TypeOK

\* p has just been announced to d: it is on its way, or d is to get the list.
LEMMA Announced ==
  ASSUME TypeOK, HandlersInv, [Next]_vars, NEW d \in Sessions, NEW p \in Sessions \ {d},
         ToAnnounce(d, p), ~ToAnnounce(d, p)', ~Gone(d)
  PROVE  Coming(d, p)' \/ ListAhead(d, p)'
<1>1. Brodcast(p)
  <2>1. CASE UNCHANGED io
    BY <2>1 DEF ToAnnounce, Announcing
  <2>2. CASE ~UNCHANGED io
    <3>1. PICK c \in Sessions : ProcessPacket(c) \/ Brodcast(c) \/ ListStep(c)
      BY <2>2, StepCases, QuietServer DEF vars, server
    <3>2. c = p
      BY <3>1, KnownStep, LoopServer DEF ToAnnounce, Announcing
    <3>3. ~ProcessPacket(p)
      BY KnownStep DEF ToAnnounce, Announcing, Waiting
    <3>4. ~ListStep(p) \/ UNCHANGED io
      BY DEF ListStep, BeginList, EndList, LostPlace, SendList, SendEnemies, Down,
             ToAnnounce, Announcing
    <3> QED
      BY <2>2, <3>1, <3>2, <3>3, <3>4
  <2> QED
    BY <2>1, <2>2
<1>2. io[p].i = d
  <2>1. d \in Nat /\ d <= N /\ N \in Nat
    BY ProtocolAssumption DEF Sessions
  <2>2. io[p].pkt.id = "Spawn" /\ io[p].i <= d
    BY DEF ToAnnounce, Announcing
  <2>3. io'[p].pc = "brodcast" /\ io'[p].pkt = io[p].pkt => ~(io'[p].i <= d)
    BY <2>2 DEF ToAnnounce, Announcing
  <2>4. PICK i \in Nat : i = io[p].i
    BY <1>1, Turn
  <2>5. \/ i = N
        \/ io'[p].pc = "brodcast" /\ io'[p].pkt = io[p].pkt /\ io'[p].i = i + 1
    BY <1>1, <2>4, Turn
  <2>6. i = N \/ ~(i + 1 <= d)
    BY <2>3, <2>5
  <2> QED
    BY <2>1, <2>2, <2>4, <2>6
<1>3. CASE d \in m_bConnected
  <2>1. RequestSend(d, io[p].pkt)
    BY <1>1, <1>2, <1>3 DEF Brodcast
  <2>2. io[p].pkt = Packet("Spawn", {p})
    <3>1. HandlerInv(p)
      BY DEF HandlersInv
    <3>2. io[p].pc = "brodcast" /\ io[p].pkt.id = "Spawn"
      BY DEF ToAnnounce, Announcing
    <3> QED
      BY <3>1, <3>2 DEF HandlerInv, Packet
  <2>3. io[p].pkt \in Packets /\ io[p].pkt.id = "Spawn" /\ p \in io[p].pkt.players
    BY <2>2 DEF TypeOK, Handlers, Packet
  <2> QED
    BY <2>1, <2>3, SentComing
<1>4. CASE d \notin m_bConnected
  <2>1. ~Known(d)
    BY <1>4 DEF HandlersInv, HandlerInv
  <2>2. ~Known(d)'
    BY <1>1, <2>1, LoopServer DEF Known
  <2> QED
    BY <2>2 DEF ListAhead
<1> QED
  BY <1>3, <1>4

\* The list that is still to be sent keeps every player that stays.
LEMMA ListStays ==
  ASSUME TypeOK, HandlersInv, [Next]_vars, NEW d \in Sessions, NEW p \in Sessions \ {d},
         ListAhead(d, p), ~Gone(d), p \in m_idToPlayer
  PROVE  Coming(d, p)' \/ ListAhead(d, p)'
<1> USE DEF ListAhead, Announcing
<1>1. CASE io'[d] = io[d] /\ (Known(d)' <=> Known(d))
  BY <1>1
<1>2. ASSUME NEW c \in Sessions, c # d, ProcessPacket(c) \/ Brodcast(c) \/ ListStep(c)
      PROVE  io'[d] = io[d] /\ (Known(d)' <=> Known(d))
  <2>1. CASE ProcessPacket(c)
    BY <1>2, <2>1, KnownStep
  <2>2. CASE Brodcast(c) \/ ListStep(c)
    BY <1>2, <2>2, LoopServer DEF Known
  <2> QED
    BY <1>2, <2>1, <2>2
<1>3. ASSUME NEW c \in Sessions,
             Enqueueing(c) \/ Ending(c) \/ Linking(c) \/ Taking(c) \/ UNCHANGED vars
      PROVE  io'[d] = io[d] /\ (Known(d)' <=> Known(d))
  BY <1>3, QuietServer DEF Known
<1>4. CASE ProcessPacket(d)
  <2>1. ~Known(d)
    BY <1>4, KnownStep DEF Waiting
  <2>2. CASE ProcessC_Spawn(d)
    BY <2>2 DEF ProcessC_Spawn, Goto, Packet, TypeOK
  <2>3. CASE ~ProcessC_Spawn(d)
    BY <1>4, <2>1, <2>3, KnownStep
  <2> QED
    BY <2>2, <2>3
<1>5. CASE Brodcast(d)
  <2>1. Known(d)' <=> Known(d)
    BY <1>5, LoopServer DEF Known
  <2> QED
    BY <1>5, <2>1, Turn
<1>6. CASE ListStep(d)
  <2>1. Known(d)' <=> Known(d)
    BY <1>6, LoopServer DEF Known
  <2>2. CASE BeginList(d)
    BY <2>2 DEF BeginList, Goto, Packet, TypeOK
  <2>3. CASE EndList(d)
    BY <2>1, <2>3 DEF EndList, Goto, Packet, TypeOK
  <2>4. CASE LostPlace(d)
    BY <2>1, <2>4 DEF LostPlace, Down
  <2>5. CASE SendList(d)
    <3>1. CASE ~Known(d)
      BY <2>1, <3>1
    <3>2. CASE Known(d)
      <4>1. io[d].pkt \in Packets /\ p \in io[d].pkt.players /\ RequestSend(d, io[d].pkt)
        BY <2>5, <3>2 DEF SendList, TypeOK, Handlers
      <4>2. io[d].pkt.id = "Spawn"
        BY <2>5 DEF SendList, HandlersInv, HandlerInv
      <4> QED
        BY <4>1, <4>2, SentComing
    <3> QED
      BY <3>1, <3>2
  <2>6. CASE SendEnemies(d)
    BY <2>1, <2>6 DEF SendEnemies
  <2> QED
    BY <1>6, <2>2, <2>3, <2>4, <2>5, <2>6 DEF ListStep
<1>7. CASE UNCHANGED vars
  BY <1>1, <1>3, <1>7
<1>8. CASE Next
  BY <1>1, <1>2, <1>3, <1>4, <1>5, <1>6, <1>8, StepCases
<1> QED
  BY <1>7, <1>8

LEMMA AllSeenNext ==
  ASSUME TypeOK, SeenInv, [Next]_vars
  PROVE  AllSeen'
<1> USE DEF SeenInv
<1>1. SUFFICES ASSUME NEW d \in Sessions, NEW p \in Sessions \ {d},
                      p \in m_idToPlayer', ~Gone(d)', ~ToAnnounce(d, p)'
               PROVE  Coming(d, p)' \/ ListAhead(d, p)'
  BY DEF AllSeen, Seen
<1>2. p \in m_idToPlayer
  BY <1>1, NewPlayer
<1>3. p \notin despawned
  BY <1>2 DEF SpawnsOnce, SpawnOnce
<1>4. ~Gone(d)
  BY <1>1, PhaseStep
<1>5. CASE ToAnnounce(d, p)
  BY <1>1, <1>4, <1>5, Announced
<1>6. CASE Coming(d, p)
  BY <1>1, <1>3, <1>6, ComingStays
<1>7. CASE ListAhead(d, p)
  BY <1>2, <1>4, <1>7, ListStays
<1>8. Seen(d, p)
  BY DEF AllSeen
<1> QED
  BY <1>2, <1>4, <1>5, <1>6, <1>7, <1>8 DEF Seen

LEMMA SeenInit == Init => SeenInv
<1> SUFFICES ASSUME Init PROVE SeenInv
  OBVIOUS
<1>1. \A c \in Sessions : ~Known(c) /\ up[c] = <<>> /\ down[c] = <<>> /\ world[c] = {}
  BY DEF Init, Known
<1>2. Len(<<>>) = 0 /\ 1 .. 0 = {}
  BY EmptySeq
<1>3. \A c \in Sessions : io[c].pc = "recv"
  BY DEF Init, Waiting
<1>4. SpawnsOnce
  BY <1>1, <1>2 DEF SpawnsOnce, SpawnOnce, Init
<1>5. HandlersInv
  BY <1>1, <1>3 DEF HandlersInv, HandlerInv, Spawning, Announcing
<1>6. DownsInv
  BY <1>1, <1>2 DEF DownsInv, DownInv
<1>7. AllSeen
  BY <1>1 DEF AllSeen, Seen, ListAhead
<1> QED
  BY <1>4, <1>5, <1>6, <1>7 DEF SeenInv

LEMMA SeenEnough == TypeOK /\ SeenInv => EveryPlayerSeen
<1> SUFFICES ASSUME TypeOK, SeenInv, NEW c \in Sessions, UpToDate(c),
                    NEW p \in m_idToPlayer, io[p] = Waiting, p # c
             PROVE  p \in world[c]
  BY DEF EveryPlayerSeen, UpToDate
<1>1. p \in Sessions /\ ~ToAnnounce(c, p)
  BY DEF TypeOK, ToAnnounce, Announcing, Waiting
<1>2. ~Gone(c)
  BY DEF UpToDate, InLevel, Gone
<1>3. ~ListAhead(c, p)
  <2>1. ListSent(c)
    BY DEF UpToDate, SeenInv, DownsInv, DownInv
  <2> QED
    BY <2>1 DEF ListAhead, ListSent, Spawning
<1>4. Coming(c, p)
  BY <1>1, <1>2, <1>3 DEF SeenInv, AllSeen, Seen
<1>5. Len(down[c]) = 0 /\ 1 .. 0 = {}
  BY EmptySeq DEF UpToDate
<1> QED
  BY <1>4, <1>5 DEF Coming

\* A client that is up to date has every player of the server whose handler is
\* done announcing it, however joins and departures overlap and for any number
\* of clients: Brodcast and the list of ProcessC_Spawn together miss nobody.
THEOREM PlayersSeen == Spec => []EveryPlayerSeen
<1> DEFINE Inv == TypeOK /\ SeenInv
<1>1. Init => Inv
  BY TypeInit, SeenInit
<1>2. Inv /\ [Next]_vars => Inv'
  BY TypeNext, SpawnsOnceNext, HandlersNext, DownsNext, AllSeenNext DEF SeenInv
<1>3. Inv => EveryPlayerSeen
  BY SeenEnough
<1> QED
  BY <1>1, <1>2, <1>3, PTL DEF Spec

=============================================================================
