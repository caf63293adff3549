---------------------------- MODULE PacketCodec ----------------------------
(***************************************************************************)
(* How a packet comes about and what its receiver makes of it.  A client   *)
(* writes a C_ message into a SendBuffer (SendC_Login, SendC_Spawn...), a  *)
(* thread of the server parses it and builds its answers                   *)
(* (ProcessC_Login...); the game loop builds the movement packets.         *)
(* An answer is sized by ByteSizeLong, gets a SendBuffer of that size from *)
(* the memory pools and is written into it; the client parses it, and the  *)
(* buffer goes back to its pool by whichever thread drops it last.         *)
(***************************************************************************)
EXTENDS Messages, MemoryPool

CONSTANTS
  Main,     \* the thread of the game loop; the others serve clients
  Ids,      \* ids of players and enemies
  Texts,    \* lengths of chat messages
  Moves,    \* the Player message a client may send
  Crowds,   \* lists of the Player messages the server may hold
  Hordes,   \* and of its Enemy messages
  Objects,  \* sizes of other things that xnew makes
  None

\* Bound: the code has none.  MAX_CONNECTION is 3, but a player whose C_Despawn
\* is lost stays.  A list of 40 could ask for a size that has no pool.
MaxPlayers == 39

\* _MAX_ENEMY.
MaxEnemies == 5

\* With header, tag and length a longer text does not fit the server's receive
\* buffer, BUF_SIZE, 256 bytes.
MaxText == 245

\* Whether Allocate can serve a size: from the last pool to 4096 the table has
\* a null pointer (Memory.cpp 52-59).
Allocable(size) ==
  LET all == size + HeaderSize
  IN size \in Nat \ {0} /\ (all > MAX_ALLOC_SIZE \/ m_memoryPoolTable(all) # 0)

ASSUME MainAssumption == Main \in Threads

ASSUME MessageAssumption ==
  /\ Ids \subseteq Int32
  /\ Texts \subseteq 0 .. MaxText
  /\ \A p \in Moves : Player(p)
  /\ \A players \in Crowds :
       /\ Len(players) \in 0 .. MaxPlayers /\ DOMAIN players = 1 .. Len(players)
       /\ \A i \in DOMAIN players : Player(players[i])
  /\ \A enemies \in Hordes :
       /\ Len(enemies) \in 0 .. MaxEnemies /\ DOMAIN enemies = 1 .. Len(enemies)
       /\ \A i \in DOMAIN enemies : Enemy(enemies[i])

\* No class has a size between the last pool and 4096, and no container grows
\* to one.
ASSUME ObjectAssumption == \A size \in Objects : Allocable(size)

VARIABLES
  request,  \* of each thread, the message it was sent and what it read
  todo,     \* of each thread, the answers it has yet to send, in order
  buffer,   \* what is written in each block, None for nothing
  unsent    \* the blocks that some session has yet to send

codecVars == <<request, todo, buffer, unsent>>
allVars == <<memoryVars, codecVars>>

-----------------------------------------------------------------------------
(* Writing a packet. *)

sizeofPacketHeader == 8

Packet(id, size, payload) ==
  [id |-> id, size |-> sizeofPacketHeader + size, payload |-> payload]

SerializeC_Login(m) == Packet(0, C_LoginByteSizeLong(m), C_LoginSerialize(m))
SerializeC_Spawn(m) == Packet(1, C_SpawnByteSizeLong(m), C_SpawnSerialize(m))
SerializeC_Despawn(m) == Packet(2, C_DespawnByteSizeLong(m), C_DespawnSerialize(m))
SerializeC_Move(m) == Packet(3, C_MoveByteSizeLong(m), C_MoveSerialize(m))
SerializeC_Chat(m) == Packet(4, C_ChatByteSizeLong(m), C_ChatSerialize(m))
SerializeC_Attack(m) == Packet(7, C_AttackByteSizeLong(m), C_AttackSerialize(m))
SerializeS_Login(m) == Packet(0, S_LoginByteSizeLong(m), S_LoginSerialize(m))
SerializeS_Spawn(m) == Packet(1, S_SpawnByteSizeLong(m), S_SpawnSerialize(m))
SerializeS_Despawn(m) == Packet(2, S_DespawnByteSizeLong(m), S_DespawnSerialize(m))
SerializeS_Move(m) == Packet(3, S_MoveByteSizeLong(m), S_MoveSerialize(m))
SerializeS_Chat(m) == Packet(4, S_ChatByteSizeLong(m), S_ChatSerialize(m))
SerializeS_Attack(m) == Packet(7, S_AttackByteSizeLong(m), S_AttackSerialize(m))
SerializeS_EnemySpawn(m) == Packet(5, S_EnemySpawnByteSizeLong(m), S_EnemySpawnSerialize(m))
SerializeS_EnemyMovement(m) == Packet(8, S_EnemyMoveByteSizeLong(m), S_EnemyMoveSerialize(m))

-----------------------------------------------------------------------------
(* Reading one: what the getters give, and what ParseFromArray returned. *)

Read(view, ok) == [msg |-> view, ok |-> ok]

ParseC_Login(b) == Read(C_LoginView(C_LoginParse(b)), C_LoginIsInitialized(C_LoginParse(b)))
ParseC_Spawn(b) == Read(C_SpawnView(C_SpawnParse(b)), C_SpawnIsInitialized(C_SpawnParse(b)))
ParseC_Despawn(b) == Read(C_DespawnView(C_DespawnParse(b)), C_DespawnIsInitialized(C_DespawnParse(b)))
ParseC_Move(b) == Read(C_MoveView(C_MoveParse(b)), C_MoveIsInitialized(C_MoveParse(b)))
ParseC_Chat(b) == Read(C_ChatView(C_ChatParse(b)), C_ChatIsInitialized(C_ChatParse(b)))
ParseC_Attack(b) == Read(C_AttackView(C_AttackParse(b)), C_AttackIsInitialized(C_AttackParse(b)))
ParseS_Login(b) == Read(S_LoginView(S_LoginParse(b)), S_LoginIsInitialized(S_LoginParse(b)))
ParseS_Spawn(b) == Read(S_SpawnView(S_SpawnParse(b)), S_SpawnIsInitialized(S_SpawnParse(b)))
ParseS_Despawn(b) == Read(S_DespawnView(S_DespawnParse(b)), S_DespawnIsInitialized(S_DespawnParse(b)))
ParseS_Move(b) == Read(S_MoveView(S_MoveParse(b)), S_MoveIsInitialized(S_MoveParse(b)))
ParseS_Chat(b) == Read(S_ChatView(S_ChatParse(b)), S_ChatIsInitialized(S_ChatParse(b)))
ParseS_EnemySpawn(b) == Read(S_EnemySpawnView(S_EnemySpawnParse(b)), S_EnemySpawnIsInitialized(S_EnemySpawnParse(b)))
ParseS_Attack(b) == Read(S_AttackView(S_AttackParse(b)), S_AttackIsInitialized(S_AttackParse(b)))
ParseS_EnemyMove(b) == Read(S_EnemyMoveView(S_EnemyMoveParse(b)), S_EnemyMoveIsInitialized(S_EnemyMoveParse(b)))

\* CPacketHandler::ProcessPacket: the handlers it runs and what each reads.
\* The case of an attack runs on into the one of an enemy movement.
ClientProcessPacket(packet) ==
  LET b == packet.payload
  IN CASE packet.id = 0 -> <<ParseS_Login(b)>>
       [] packet.id = 1 -> <<ParseS_Spawn(b)>>
       [] packet.id = 2 -> <<ParseS_Despawn(b)>>
       [] packet.id = 3 -> <<ParseS_Move(b)>>
       [] packet.id = 4 -> <<ParseS_Chat(b)>>
       [] packet.id = 5 -> <<ParseS_EnemySpawn(b)>>
       [] packet.id = 7 -> <<ParseS_Attack(b), ParseS_EnemyMove(b)>>
       [] packet.id = 8 -> <<ParseS_EnemyMove(b)>>

-----------------------------------------------------------------------------
(* The client's side: a message and the buffer it goes into. *)

Sent(m, ok, packet) == [msg |-> m, ok |-> ok, packet |-> packet, size |-> packet.size]

SendC_Login(id) ==
  LET m == [id |-> id] IN Sent(C_LoginView(m), C_LoginIsInitialized(m), SerializeC_Login(m))

SendC_Spawn(id) ==
  LET m == [id |-> id] IN Sent(C_SpawnView(m), C_SpawnIsInitialized(m), SerializeC_Spawn(m))

SendC_Despawn(id) ==
  LET m == [id |-> id] IN Sent(C_DespawnView(m), C_DespawnIsInitialized(m), SerializeC_Despawn(m))

SendC_Move(p) ==
  LET m == [player |-> p] IN Sent(C_MoveView(m), C_MoveIsInitialized(m), SerializeC_Move(m))

SendC_Chat(n) ==
  LET m == [msg |-> n] IN Sent(C_ChatView(m), C_ChatIsInitialized(m), SerializeC_Chat(m))

SendC_Attack(id, target) ==
  LET m == [attacker |-> id, target |-> target]
  IN Sent(C_AttackView(m), C_AttackIsInitialized(m), SerializeC_Attack(m))

-----------------------------------------------------------------------------
(* The server's handlers: what a thread read, and the answers it builds.    *)

\* An answer, and the size of the buffer it is to be written into.
Answer(view, ok, packet, size) ==
  [msg |-> view, ok |-> ok, packet |-> packet, size |-> size]

CodecInit ==
  /\ MemoryInit
  /\ request = [t \in Threads |-> None]
  /\ todo = [t \in Threads |-> <<>>]
  /\ buffer = [b \in Blocks |-> None]
  /\ unsent = {}

Idle(t) == at[t] = "idle" /\ todo[t] = <<>>

\* The thread takes packet s, reads q and has these answers.
Process(t, s, q, answers) ==
  /\ request' = [request EXCEPT ![t] = [sent |-> s, parsed |-> q]]
  /\ todo' = [todo EXCEPT ![t] = answers]
  /\ UNCHANGED <<memoryVars, buffer, unsent>>

AnswerS_Spawn(players) ==
  LET m == [player |-> Each(players, LAMBDA p : PlayerCopyFrom(PlayerDefault, p))]
      packet == SerializeS_Spawn(m)
  IN Answer(S_SpawnView(m), S_SpawnIsInitialized(m), packet, packet.size)

AnswerS_EnemySpawn(enemies) ==
  LET m == [enemy |-> Each(enemies, LAMBDA e : EnemyCopyFrom(EnemyDefault, e))]
      packet == SerializeS_EnemySpawn(m)
  IN Answer(S_EnemySpawnView(m), S_EnemySpawnIsInitialized(m), packet, packet.size)

ProcessC_Login(t) ==
  /\ Idle(t)
  /\ \E id \in Ids :
       LET s == SendC_Login(id)
           m == [bsucceded |-> TRUE]
           packet == SerializeS_Login(m)
       IN Process(t, s, ParseC_Login(s.packet.payload),
                  <<Answer(S_LoginView(m), S_LoginIsInitialized(m), packet, packet.size)>>)

\* The list has at least the player that was just added.
ProcessC_Spawn(t) ==
  /\ Idle(t)
  /\ \E id \in Ids, players \in Crowds \ {<<>>}, enemies \in Hordes :
       LET s == SendC_Spawn(id)
       IN Process(t, s, ParseC_Spawn(s.packet.payload),
                  <<AnswerS_Spawn(<<Last(players)>>), AnswerS_Spawn(players),
                    AnswerS_EnemySpawn(enemies)>>)

ProcessC_Despawn(t) ==
  /\ Idle(t)
  /\ \E id \in Ids :
       LET s == SendC_Despawn(id)
           q == ParseC_Despawn(s.packet.payload)
           m == [id |-> q.msg.id]
           packet == SerializeS_Despawn(m)
       IN Process(t, s, q,
                  <<Answer(S_DespawnView(m), S_DespawnIsInitialized(m), packet, packet.size)>>)

ProcessC_Move(t) ==
  /\ Idle(t)
  /\ \E p \in Moves :
       LET s == SendC_Move(p)
       IN Process(t, s, ParseC_Move(s.packet.payload), <<>>)

\* A mutant: room for the message alone.
ProcessC_Chat_NoHeader(t) ==
  /\ Idle(t)
  /\ \E n \in Texts :
       LET s == SendC_Chat(n)
           q == ParseC_Chat(s.packet.payload)
           m == [msg |-> q.msg.msg]
       IN Process(t, s, q,
                  <<Answer(S_ChatView(m), S_ChatIsInitialized(m), SerializeS_Chat(m),
                           s.size - sizeofPacketHeader)>>)

\* The buffer is as large as the client's packet, header and all.
ProcessC_Chat(t) ==
  /\ Idle(t)
  /\ \E n \in Texts :
       LET s == SendC_Chat(n)
           q == ParseC_Chat(s.packet.payload)
           m == [msg |-> q.msg.msg]
       IN Process(t, s, q,
                  <<Answer(S_ChatView(m), S_ChatIsInitialized(m), SerializeS_Chat(m), s.size)>>)

\* Only an attack in range is answered.
ProcessC_Attack(t) ==
  /\ Idle(t)
  /\ \E attacker \in Ids, target \in Ids, bInRange \in BOOLEAN :
       LET s == SendC_Attack(attacker, target)
           q == ParseC_Attack(s.packet.payload)
           m == [target |-> q.msg.target]
           packet == SerializeS_Attack(m)
       IN Process(t, s, q,
                  IF bInRange
                  THEN <<Answer(S_AttackView(m), S_AttackIsInitialized(m), packet, packet.size)>>
                  ELSE <<>>)

\* A turn of the game loop: the packets that PlayerManager::SetNextLocation
\* and EnemyManager::SetNextLocation broadcast.
Broadcast(answer) ==
  /\ todo' = [todo EXCEPT ![Main] = <<answer>>]
  /\ UNCHANGED <<memoryVars, request, buffer, unsent>>

BrodcastS_Move ==
  /\ Idle(Main)
  /\ \E players \in Crowds :
       LET m == [player |-> Each(players, LAMBDA p : PlayerCopyFrom(PlayerDefault, p))]
           packet == SerializeS_Move(m)
       IN Broadcast(Answer(S_MoveView(m), S_MoveIsInitialized(m), packet, packet.size))

BrodcastS_EnemyMove ==
  /\ Idle(Main)
  /\ \E enemies \in Hordes :
       LET m == [enemy |-> Each(enemies, LAMBDA e : EnemyCopyFrom(EnemyDefault, e))]
           packet == SerializeS_EnemyMovement(m)
       IN Broadcast(Answer(S_EnemyMoveView(m), S_EnemyMoveIsInitialized(m), packet, packet.size))

-----------------------------------------------------------------------------
(* Buffers and other blocks. *)

\* make_shared<SendBuffer>: m_buffer.resize asks the pools for its bytes.
NewSendBuffer(t) ==
  /\ todo[t] # <<>>
  /\ Allocate(t, Head(todo[t]).size)
  /\ UNCHANGED codecVars

\* SerializeS_* into the new buffer, then RequestSend or Brodcast.
WriteAnswer(t) ==
  /\ todo[t] # <<>>
  /\ Step(t, "own", "idle")
  /\ buffer' = [buffer EXCEPT ![held[t]] = Head(todo[t])]
  /\ unsent' = unsent \cup {held[t]}
  /\ todo' = [todo EXCEPT ![t] = Tail(@)]
  /\ request' = [request EXCEPT ![t] = IF Len(todo[t]) = 1 THEN None ELSE @]
  /\ held' = [held EXCEPT ![t] = NoBlock]
  /\ real' = [real EXCEPT ![t] = 0]
  /\ UNCHANGED <<capacity, m_allocSize, m_pHeader>>

\* The packet has left: the clients have it.
Deliver ==
  \E b \in unsent :
    /\ unsent' = unsent \ {b}
    /\ UNCHANGED <<memoryVars, request, todo, buffer>>

\* xnew, MakeShared and the containers of the game: other blocks.
xnew(t) ==
  /\ todo[t] = <<>>
  /\ \E size \in Objects : Allocate(t, size)
  /\ UNCHANGED codecVars

Construct(t) ==
  /\ todo[t] = <<>>
  /\ Step(t, "own", "idle")
  /\ buffer' = [buffer EXCEPT ![held[t]] = Answer(None, TRUE, None, real[t] - HeaderSize)]
  /\ held' = [held EXCEPT ![t] = NoBlock]
  /\ real' = [real EXCEPT ![t] = 0]
  /\ UNCHANGED <<capacity, m_allocSize, m_pHeader, request, todo, unsent>>

\* The last reference to a buffer or an object is dropped, by any thread.
Release(t) ==
  /\ at[t] = "idle"
  /\ \E b \in Blocks \ unsent :
       /\ buffer[b] # None
       /\ Deallocate(t, b)
       /\ buffer' = [buffer EXCEPT ![b] = None]
  /\ UNCHANGED <<request, todo, unsent>>

Attach(t) == AttachMemoryHeader(t) /\ UNCHANGED codecVars
Push(t) == PushEntry(t) /\ UNCHANGED codecVars

Next ==
  \/ BrodcastS_Move \/ BrodcastS_EnemyMove \/ Deliver
  \/ \E t \in Threads \ {Main} :
       \/ ProcessC_Login(t) \/ ProcessC_Spawn(t) \/ ProcessC_Despawn(t)
       \/ ProcessC_Move(t) \/ ProcessC_Chat(t) \/ ProcessC_Attack(t)
  \/ \E t \in Threads :
       \/ NewSendBuffer(t) \/ Attach(t) \/ WriteAnswer(t)
       \/ xnew(t) \/ Construct(t) \/ Release(t) \/ Push(t)

Spec == CodecInit /\ [][Next]_allVars

-----------------------------------------------------------------------------
(* Properties. *)

Owned(b) == buffer[b] # None

\* A block is in one place at a time: in the list of the pool whose size it
\* has, with a header of 0, or with one thread, or with one owner, whose
\* header is then no larger than the block (Memory.cpp 22, 69).
BlocksSound ==
  /\ \A p \in PoolSizes : \A i \in DOMAIN m_pHeader[p] :
       LET b == m_pHeader[p][i]
       IN /\ capacity[b] = p /\ m_allocSize[b] = 0 /\ ~Owned(b)
          /\ b \notin {held[t] : t \in Threads}
          /\ \A q \in PoolSizes : \A j \in DOMAIN m_pHeader[q] :
               m_pHeader[q][j] = b => p = q /\ i = j
  /\ \A t \in Threads : held[t] # NoBlock =>
       /\ ~Owned(held[t])
       /\ \A u \in Threads \ {t} : held[u] # held[t]
       /\ at[t] \in {"attach", "push"} <=> m_allocSize[held[t]] = 0
  /\ \A b \in Blocks : Owned(b) => m_allocSize[b] \in HeaderSize + 1 .. capacity[b]

SizesAllocable ==
  \A t \in Threads : todo[t] # <<>> => Allocable(Head(todo[t]).size)

\* What is written into a buffer is as long as its header says and as the
\* buffer is, and no packet asks for a size between the last pool and 4096.
PacketFits ==
  /\ \A b \in Blocks : Owned(b) =>
       LET a == buffer[b]
       IN /\ a.size + HeaderSize <= capacity[b]
          /\ a.packet # None =>
               a.packet.size = a.size /\ sizeofPacketHeader + Bytes(a.packet.payload) = a.size
  /\ SizesAllocable

\* The class of the message in a packet from a client, and from the server.
ClientMessage(id, m) ==
  CASE id = 0 -> C_Login(m) [] id = 1 -> C_Spawn(m) [] id = 2 -> C_Despawn(m)
    [] id = 3 -> C_Move(m) [] id = 4 -> C_Chat(m) [] id = 7 -> C_Attack(m)

ServerMessage(id, m) ==
  CASE id = 0 -> S_Login(m) [] id = 1 -> S_Spawn(m) [] id = 2 -> S_Despawn(m)
    [] id = 3 -> S_Move(m) [] id = 4 -> S_Chat(m) [] id = 5 -> S_EnemySpawn(m)
    [] id = 7 -> S_Attack(m) [] id = 8 -> S_EnemyMove(m)

\* The server reads what a client sent, and a client what the server built,
\* a field that is not set as its default and the message as incomplete; the
\* handler that an attack runs on into finds no enemy to move
\* (CPacketHandler.cpp 193-196).
PacketWhole ==
  /\ \A t \in Threads : request[t] # None =>
       LET r == request[t]
       IN /\ r.parsed = Read(r.sent.msg, r.sent.ok)
          /\ ClientMessage(r.sent.packet.id, r.parsed.msg)
  /\ \A b \in unsent :
       LET a == buffer[b]
           read == ClientProcessPacket(a.packet)
       IN /\ read[1] = Read(a.msg, a.ok)
          /\ ServerMessage(a.packet.id, read[1].msg)
          /\ Len(read) > 1 => read[2] = Read([enemy |-> <<>>], TRUE)
=============================================================================
