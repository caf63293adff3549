---------------------------- MODULE EnemyProofs ----------------------------
(***************************************************************************)
(* Proofs about enemies.                                                   *)
(*   EnemyProtocol, for any number of clients and attacks and any enemies: *)
(* what an unlocked counter of hit points may become, and that no client   *)
(* loses a hit or counts one twice.                                        *)
(*   World, for any enemies, players, mesh and length of paths: an enemy   *)
(* on its patrol never takes a node of an older path, and its box is found *)
(* in the tree where it was placed.                                        *)
(***************************************************************************)
EXTENDS EnemyProtocol, World, SequenceTheorems, FunctionTheorems, FiniteSetTheorems, TLAPS

\* Hit points that were read but not written back yet are no stranger than
\* those in memory.
HpInv ==
  /\ \A e \in Enemies : hp[e] <= MaxHp
  /\ HpWithin
  /\ \A c \in Sessions : io[c].pc = "set" =>
       MaxHp - Damage * hits[io[c].target] <= io[c].curHp /\ io[c].curHp <= MaxHp

-----------------------------------------------------------------------------
(* Typing *)

LEMMA PacketTyped ==
  /\ \A id \in {"Spawn", "EnemySpawn", "EnemyMove"} : Packet(id, NoEnemy) \in Packets
  /\ \A e \in Enemies : Packet("Attack", e) \in Packets
  /\ \A p \in Packets : p.id = "Attack" => p.target \in Enemies
  BY DEF Packets, Packet

LEMMA HandlerTyped ==
  /\ \A pc \in {"recv", "enemies"} : Handler(pc, NoEnemy, 0) \in Handlers
  /\ \A pc \in {"set", "brodcast"}, e \in Enemies, x \in Int : Handler(pc, e, x) \in Handlers
  /\ Waiting \in Handlers
  /\ \A h \in Handlers : h.pc \in {"set", "brodcast"} => h.target \in Enemies /\ h.curHp \in Int
  /\ \A h \in Handlers : h.i \in Sessions
  BY EnemyAssumption DEF Handlers, Handler, Waiting, Sessions

\* What RequestSend does to each queue.
LEMMA RequestSendQueues ==
  ASSUME EnemyTypeOK, NEW s \in Sessions, NEW p \in Packets, RequestSend(s, p)
  PROVE  /\ down' \in [Sessions -> Seq(Packets)]
         /\ \A c \in Sessions :
              down'[c] = IF c = s /\ Connected(c) THEN Append(down[c], p) ELSE down[c]
<1>1. down[s] \in Seq(Packets)
  BY DEF EnemyTypeOK
<1>2. Append(down[s], p) \in Seq(Packets)
  BY <1>1, AppendProperties
<1> QED
  BY <1>2 DEF RequestSend, EnemyTypeOK

LEMMA EndTyped ==
  ASSUME EnemyTypeOK, NEW c \in Sessions, End(c)
  PROVE  EnemyTypeOK'
<1>1. PICK k \in 0 .. Len(up[c]) : up' = [up EXCEPT ![c] = SubSeq(@, 1, k)]
  BY DEF End
<1>2. up[c] \in Seq(Packets)
  BY DEF EnemyTypeOK
<1>3. \A j \in 1 .. k : up[c][j] \in Packets
  BY <1>2, ElementOfSeq, LenProperties
<1>4. SubSeq(up[c], 1, k) \in Seq(Packets)
  BY <1>2, <1>3, SubSeqProperties, LenProperties
<1>5. up' \in [Sessions -> Seq(Packets)] /\ down' \in [Sessions -> Seq(Packets)]
  BY <1>1, <1>4, EmptySeq DEF End, EnemyTypeOK
<1> QED
  BY <1>5 DEF End, EnemyTypeOK, server

LEMMA EnemyTypeInit == EnemyInit => EnemyTypeOK /\ HpInv
<1>1. Sessions # {} /\ 0 \in 0 .. N
  BY EnemyAssumption DEF Sessions
<1> QED
  BY <1>1, HandlerTyped, EmptySeq
  DEF EnemyInit, EnemyTypeOK, HpInv, HpWithin, MaxHp, Damage, Waiting, Handler

\* The first packet of a queue, and the queue without it.
LEMMA QueueTyped ==
  ASSUME NEW s \in Seq(Packets), s # <<>>
  PROVE  Head(s) \in Packets /\ Tail(s) \in Seq(Packets)
  BY HeadTailProperties

LEMMA ClientTypeNext ==
  ASSUME EnemyTypeOK, NEW c \in Sessions,
         Connect(c) \/ SpawnPlayer(c) \/ CheckPlayerAttack(c) \/ Exit(c)
           \/ DequeuePacket(c) \/ DestroyEnemy(c)
  PROVE  EnemyTypeOK'
<1> USE DEF EnemyTypeOK
<1>0. up[c] \in Seq(Packets) /\ down[c] \in Seq(Packets)
  OBVIOUS
<1>1. CASE Connect(c)
  <2>1. \A e \in Enemies : Coming(c, e) \in Int
    <3>1. IsFiniteSet(Sessions)
      BY EnemyAssumption, FS_Interval DEF Sessions
    <3> TAKE e \in Enemies
    <3>2. {d \in Sessions : io[d].pc = "brodcast" /\ io[d].target = e /\ io[d].i <= c}
            \in SUBSET Sessions
      OBVIOUS
    <3> QED
      BY <3>1, <3>2, FS_Subset, FS_CardinalityType DEF Coming
  <2>2. base' \in [Sessions -> [Enemies -> Int]]
    BY <1>1, <2>1 DEF Connect
  <2>3. phase' \in [Sessions -> {"menu", "online", "level", "gone"}]
    BY <1>1 DEF Connect
  <2> QED
    BY <1>1, <2>2, <2>3 DEF Connect, server
<1>2. CASE SpawnPlayer(c)
  <2>1. Append(up[c], Packet("Spawn", NoEnemy)) \in Seq(Packets)
    BY <1>0, PacketTyped, AppendProperties
  <2>2. up' \in [Sessions -> Seq(Packets)]
    BY <1>2, <2>1 DEF SpawnPlayer
  <2>3. phase' \in [Sessions -> {"menu", "online", "level", "gone"}]
    BY <1>2 DEF SpawnPlayer
  <2> QED
    BY <1>2, <2>2, <2>3 DEF SpawnPlayer, server
<1>3. CASE CheckPlayerAttack(c)
  <2>1. PICK e \in Enemies : up' = [up EXCEPT ![c] = Append(@, Packet("Attack", e))]
    BY <1>3 DEF CheckPlayerAttack
  <2>2. Append(up[c], Packet("Attack", e)) \in Seq(Packets)
    BY <1>0, PacketTyped, AppendProperties
  <2>3. up' \in [Sessions -> Seq(Packets)]
    BY <2>1, <2>2
  <2> QED
    BY <1>3, <2>3 DEF CheckPlayerAttack, server
<1>4. CASE End(c)
  BY <1>4, EndTyped
<1>5. ASSUME down[c] # <<>>, Dequeue(c)
      PROVE  down' \in [Sessions -> Seq(Packets)]
  BY <1>0, <1>5, QueueTyped DEF Dequeue
<1>6. CASE ProcessS_EnemySpawn(c)
  <2>1. down' \in [Sessions -> Seq(Packets)]
    BY <1>5, <1>6 DEF ProcessS_EnemySpawn, Received
  <2>2. /\ actor' \in [Sessions -> [Enemies -> {"none", "alive", "dying", "destroyed"}]]
        /\ shown' \in [Sessions -> [Enemies -> Int]]
    BY <1>6 DEF ProcessS_EnemySpawn, MaxHp
  <2> QED
    BY <1>6, <2>1, <2>2 DEF ProcessS_EnemySpawn, server
<1>7. CASE ProcessS_Attack(c)
  <2>1. CASE End(c)
    BY <2>1, EndTyped
  <2> DEFINE e == Head(down[c]).target
  <2>2. CASE Dequeue(c) /\ UNCHANGED <<server, client, up, base>>
    BY <1>5, <1>7, <2>2 DEF ProcessS_Attack, Received, server, client
  <2>3. CASE /\ Dequeue(c)
             /\ shown' = [shown EXCEPT ![c][e] = @ - Damage]
             /\ actor' = [actor EXCEPT ![c][e] = IF shown'[c][e] <= 0 THEN "dying" ELSE @]
             /\ UNCHANGED <<server, phase, up, attacks, base>>
    <3>1. down' \in [Sessions -> Seq(Packets)]
      BY <1>5, <1>7, <2>3 DEF ProcessS_Attack, Received
    <3>2. e \in Enemies
      BY <1>0, <1>7, QueueTyped, PacketTyped DEF ProcessS_Attack, Received
    <3>3. shown' \in [Sessions -> [Enemies -> Int]]
      BY <2>3, <3>2 DEF Damage
    <3>4. actor' \in [Sessions -> [Enemies -> {"none", "alive", "dying", "destroyed"}]]
      BY <2>3, <3>2
    <3> QED
      BY <2>3, <3>1, <3>3, <3>4 DEF server
  <2> QED
    BY <1>7, <2>1, <2>2, <2>3 DEF ProcessS_Attack
<1>8. CASE ProcessS_EnemyMove(c)
  <2>1. CASE End(c)
    BY <2>1, EndTyped
  <2>2. CASE Dequeue(c) /\ UNCHANGED <<server, client, up, base>>
    BY <1>5, <1>8, <2>2 DEF ProcessS_EnemyMove, Received, server, client
  <2> QED
    BY <1>8, <2>1, <2>2 DEF ProcessS_EnemyMove
<1>9. CASE DestroyEnemy(c)
  <2>1. PICK e \in Enemies : actor' = [actor EXCEPT ![c][e] = "destroyed"]
    BY <1>9 DEF DestroyEnemy
  <2>2. actor' \in [Sessions -> [Enemies -> {"none", "alive", "dying", "destroyed"}]]
    BY <2>1
  <2> QED
    BY <1>9, <2>2 DEF DestroyEnemy, server
<1> QED
  BY <1>1, <1>2, <1>3, <1>4, <1>6, <1>7, <1>8, <1>9 DEF DequeuePacket, Exit

LEMMA ServerTypeNext ==
  ASSUME EnemyTypeOK, NEW c \in Sessions, Handle(c)
  PROVE  EnemyTypeOK'
<1> USE DEF EnemyTypeOK
<1>0. up[c] \in Seq(Packets) /\ io[c] \in Handlers /\ io[c].i \in Sessions
  BY HandlerTyped
<1>1. ASSUME NEW id, Receive(c, id)
      PROVE  /\ up' \in [Sessions -> Seq(Packets)]
             /\ id = "Attack" => Head(up[c]).target \in Enemies
  BY <1>0, <1>1, QueueTyped, PacketTyped DEF Receive
<1>2. CASE ProcessC_Spawn(c)
  <2>1. up' \in [Sessions -> Seq(Packets)]
    BY <1>1, <1>2 DEF ProcessC_Spawn
  <2>2. io' \in [Sessions -> Handlers]
    BY <1>2, HandlerTyped DEF ProcessC_Spawn
  <2> QED
    BY <1>2, <2>1, <2>2 DEF ProcessC_Spawn, client
<1>3. CASE SendEnemies(c)
  <2>1. down' \in [Sessions -> Seq(Packets)]
    BY <1>3, PacketTyped, RequestSendQueues DEF SendEnemies
  <2>2. io' \in [Sessions -> Handlers]
    BY <1>3, HandlerTyped DEF SendEnemies
  <2> QED
    BY <1>3, <2>1, <2>2 DEF SendEnemies, client
<1>4. CASE ProcessC_Attack(c)
  <2>1. up' \in [Sessions -> Seq(Packets)] /\ Head(up[c]).target \in Enemies
    BY <1>1, <1>4 DEF ProcessC_Attack
  <2>2. hp[Head(up[c]).target] \in Int
    BY <2>1
  <2>3. Handler("set", Head(up[c]).target, hp[Head(up[c]).target]) \in Handlers
    BY <2>1, <2>2, HandlerTyped
  <2>4. \/ io' = [io EXCEPT ![c] = Handler("set", Head(up[c]).target, hp[Head(up[c]).target])]
        \/ io' = io
    BY <1>4 DEF ProcessC_Attack
  <2>5. io' \in [Sessions -> Handlers]
    BY <2>3, <2>4
  <2> QED
    BY <1>4, <2>1, <2>5 DEF ProcessC_Attack, client
<1>5. CASE SetHp(c)
  <2>1. io[c].target \in Enemies /\ io[c].curHp \in Int
    BY <1>0, <1>5, HandlerTyped DEF SetHp
  <2>2. io' \in [Sessions -> Handlers]
    BY <1>5, <2>1, HandlerTyped DEF SetHp
  <2>3. hp' \in [Enemies -> Int] /\ hits' \in [Enemies -> Nat]
    BY <1>5, <2>1 DEF SetHp, Damage
  <2> QED
    BY <1>5, <2>2, <2>3 DEF SetHp, client
<1>6. CASE Brodcast(c)
  <2>1. io[c].target \in Enemies
    BY <1>0, <1>6, HandlerTyped DEF Brodcast
  <2>2. down' \in [Sessions -> Seq(Packets)]
    BY <1>0, <1>6, <2>1, PacketTyped, RequestSendQueues DEF Brodcast
  <2>3. io[c].i < N => [io[c] EXCEPT !.i = @ + 1] \in Handlers
    <3>1. io[c].i < N => io[c].i + 1 \in Sessions
      BY <1>0, EnemyAssumption DEF Sessions
    <3>2. io[c].pc = "brodcast"
      BY <1>6 DEF Brodcast
    <3> QED
      BY <1>0, <3>1, <3>2 DEF Handlers
  <2>4. io' \in [Sessions -> Handlers]
    <3> DEFINE h == IF io[c].i < N THEN [io[c] EXCEPT !.i = @ + 1] ELSE Waiting
    <3>1. h \in Handlers
      BY <2>3, HandlerTyped
    <3>2. io' = [io EXCEPT ![c] = h]
      BY <1>6 DEF Brodcast
    <3> HIDE DEF h
    <3> QED
      BY <3>1, <3>2
  <2> QED
    BY <1>6, <2>2, <2>4 DEF Brodcast, client
<1> QED
  BY <1>2, <1>3, <1>4, <1>5, <1>6 DEF Handle

LEMMA MoveTypeNext ==
  ASSUME EnemyTypeOK, BrodcastS_EnemyMove
  PROVE  EnemyTypeOK'
<1> DEFINE s == IF tick = 0 THEN 1 ELSE tick
<1>1. s \in Sessions /\ (s < N => s + 1 \in 0 .. N) /\ 0 \in 0 .. N
  BY EnemyAssumption DEF EnemyTypeOK, Sessions
<1>2. RequestSend(s, Packet("EnemyMove", NoEnemy)) /\ tick' = IF s < N THEN s + 1 ELSE 0
  BY DEF BrodcastS_EnemyMove
<1>3. down' \in [Sessions -> Seq(Packets)]
  BY <1>1, <1>2, PacketTyped, RequestSendQueues
<1>4. tick' \in 0 .. N
  BY <1>1, <1>2
<1> QED
  BY <1>3, <1>4 DEF BrodcastS_EnemyMove, EnemyTypeOK, client

LEMMA EnemyTypeNext ==
  ASSUME EnemyTypeOK, [EnemyNext]_enemyVars
  PROVE  EnemyTypeOK'
<1>1. CASE UNCHANGED enemyVars
  BY <1>1 DEF EnemyTypeOK, enemyVars, client, server
<1> QED
  BY <1>1, ClientTypeNext, ServerTypeNext, MoveTypeNext DEF EnemyNext

\* The variables of EnemyProtocol keep their types, an attack in a queue or in
\* a handler names an enemy (PacketHandler.cpp:207-233).
THEOREM EnemyTypeCorrect == EnemySpec => []EnemyTypeOK
<1>1. EnemyInit => EnemyTypeOK
  BY EnemyTypeInit
<1>2. EnemyTypeOK /\ [EnemyNext]_enemyVars => EnemyTypeOK'
  BY EnemyTypeNext
<1> QED
  BY <1>1, <1>2, PTL DEF EnemySpec

-----------------------------------------------------------------------------
(* The server's hit points. *)

LEMMA OneHitMore ==
  ASSUME NEW x \in Int, NEW n \in Nat, 100 - 50 * n <= x, x <= 100
  PROVE  x - 50 <= 50 /\ x - 50 >= 100 - 50 * (n + 1)
  OBVIOUS

LEMMA MoreHits ==
  ASSUME NEW x \in Int, NEW n \in Nat, NEW m \in Nat, n <= m, 100 - 50 * n <= x
  PROVE  100 - 50 * m <= x
  OBVIOUS

LEMMA HpNext ==
  ASSUME EnemyTypeOK, HpInv, [EnemyNext]_enemyVars
  PROVE  HpInv'
<1> USE DEF EnemyTypeOK, HpInv, HpWithin, MaxHp, Damage
<1>1. CASE UNCHANGED <<hp, hits, io>>
  BY <1>1
<1>2. ASSUME NEW c \in Sessions, UNCHANGED <<hp, hits>>, NEW h \in Handlers,
             io' = [io EXCEPT ![c] = h], h.pc # "set"
      PROVE  HpInv'
  <2>1. \A d \in Sessions : io'[d].pc = "set" => io'[d] = io[d]
    BY <1>2
  <2> QED
    BY <1>2, <2>1
<1>3. ASSUME NEW c \in Sessions, ProcessC_Attack(c) PROVE HpInv'
  <2> DEFINE e == Head(up[c]).target
  <2>1. e \in Enemies
    BY <1>3, QueueTyped, PacketTyped DEF ProcessC_Attack, Receive
  <2>2. CASE io' = [io EXCEPT ![c] = Handler("set", e, hp[e])]
    <3>1. \A d \in Sessions :
            io'[d].pc = "set" =>
              \/ io'[d] = io[d]
              \/ io'[d].target = e /\ io'[d].curHp = hp[e]
      BY <2>2 DEF Handler
    <3> QED
      BY <1>3, <2>1, <3>1 DEF ProcessC_Attack
  <2> QED
    BY <1>1, <1>3, <2>2 DEF ProcessC_Attack
<1>4. ASSUME NEW c \in Sessions, SetHp(c) PROVE HpInv'
  <2> DEFINE e == io[c].target
  <2>1. e \in Enemies /\ io[c].curHp \in Int
    BY <1>4, HandlerTyped DEF SetHp
  <2>2. /\ hp' = [hp EXCEPT ![e] = io[c].curHp - 50]
        /\ hits' = [hits EXCEPT ![e] = @ + 1]
        /\ 100 - 50 * hits[e] <= io[c].curHp /\ io[c].curHp <= 100
    BY <1>4 DEF SetHp
  <2>3. \A f \in Enemies : hits[f] <= hits'[f] /\ hits'[f] \in Nat /\ hits[f] \in Nat
    <3> TAKE f \in Enemies
    <3>1. hits[f] \in Nat
      OBVIOUS
    <3>2. hits'[f] = IF f = e THEN hits[f] + 1 ELSE hits[f]
      BY <2>1, <2>2
    <3> HIDE DEF HpInv, HpWithin, EnemyTypeOK
    <3> QED
      BY <3>1, <3>2
  <2>4. \A f \in Enemies :
          /\ hp'[f] <= 100
          /\ hp'[f] >= 100 - 50 * hits'[f]
          /\ hits'[f] > 0 => hp'[f] <= 100 - 50
    <3> TAKE f \in Enemies
    <3>1. CASE f = e
      <4>1. hp'[f] = io[c].curHp - 50 /\ hits'[f] = hits[f] + 1 /\ hits[f] \in Nat
        BY <2>1, <2>2, <3>1
      <4>2. 100 - 50 * hits[f] <= io[c].curHp /\ io[c].curHp <= 100
        BY <2>2, <3>1
      <4>3. hp'[f] <= 50 /\ hp'[f] >= 100 - 50 * hits'[f]
        BY <2>1, <4>1, <4>2, OneHitMore, SMTT(40)
      <4>4. hp'[f] \in Int
        BY <2>1, <4>1
      <4> HIDE DEF HpInv, HpWithin, EnemyTypeOK
      <4> QED
        BY <4>3, <4>4
    <3>2. CASE f # e
      <4>1. hp'[f] = hp[f] /\ hits'[f] = hits[f]
        BY <2>1, <2>2, <3>2
      <4> QED
        BY <4>1
    <3> QED
      BY <3>1, <3>2
  <2>5. \A d \in Sessions :
          io'[d].pc = "set" => io'[d] = io[d] /\ io[d].target \in Enemies /\ io[d].curHp \in Int
    BY <1>4, HandlerTyped DEF SetHp, Handler
  <2>6. ASSUME NEW d \in Sessions, io'[d].pc = "set"
        PROVE  100 - 50 * hits'[io'[d].target] <= io'[d].curHp /\ io'[d].curHp <= 100
    <3>1. io'[d] = io[d] /\ io[d].target \in Enemies /\ io[d].curHp \in Int
      BY <2>5, <2>6
    <3>2. 100 - 50 * hits[io[d].target] <= io[d].curHp /\ io[d].curHp <= 100
      BY <2>6, <3>1
    <3>3. /\ hits[io[d].target] \in Nat /\ hits'[io[d].target] \in Nat
          /\ hits[io[d].target] <= hits'[io[d].target]
      BY <2>3, <3>1
    <3>4. 100 - 50 * hits'[io[d].target] <= io[d].curHp
      BY <3>1, <3>2, <3>3, MoreHits
    <3> QED
      BY <3>1, <3>2, <3>4
  <2> QED
    BY <2>4, <2>6
<1>5. ASSUME NEW c \in Sessions, Brodcast(c) PROVE HpInv'
  <2>1. \A d \in Sessions : io'[d].pc = "set" => io'[d] = io[d]
    BY <1>5 DEF Brodcast, Waiting, Handler
  <2> QED
    BY <1>5, <2>1 DEF Brodcast
<1>6. ASSUME NEW c \in Sessions, ProcessC_Spawn(c) \/ SendEnemies(c) PROVE HpInv'
  <2>1. \A d \in Sessions : io'[d].pc = "set" => io'[d] = io[d]
    BY <1>6 DEF ProcessC_Spawn, SendEnemies, Waiting, Handler
  <2> QED
    BY <1>6, <2>1 DEF ProcessC_Spawn, SendEnemies
<1>7. ASSUME NEW c \in Sessions,
             Connect(c) \/ SpawnPlayer(c) \/ CheckPlayerAttack(c) \/ Exit(c) \/ DestroyEnemy(c)
      PROVE  UNCHANGED server
  BY <1>7 DEF Connect, SpawnPlayer, CheckPlayerAttack, Exit, End, DestroyEnemy
<1>8. ASSUME NEW c \in Sessions, DequeuePacket(c)
      PROVE  UNCHANGED server
  BY <1>8 DEF DequeuePacket, ProcessS_EnemySpawn, ProcessS_Attack, ProcessS_EnemyMove, End
<1>9. CASE BrodcastS_EnemyMove
  BY <1>1, <1>9 DEF BrodcastS_EnemyMove
<1> QED
  BY <1>1, <1>3, <1>4, <1>5, <1>6, <1>7, <1>8, <1>9 DEF EnemyNext, Handle, enemyVars, server

\* Whatever updates of an enemy's hit points overlap and get lost
\* (EnemyManager.cpp:298-300), no more are taken than hits were booked and the
\* first hit's never come back.
THEOREM HpWithinHolds == EnemySpec => []HpWithin
<1>1. EnemyInit => EnemyTypeOK /\ HpInv
  BY EnemyTypeInit
<1>2. EnemyTypeOK /\ HpInv /\ [EnemyNext]_enemyVars => EnemyTypeOK' /\ HpInv'
  BY EnemyTypeNext, HpNext
<1>3. HpInv => HpWithin
  BY DEF HpInv
<1> QED
  BY <1>1, <1>2, <1>3, PTL DEF EnemySpec

-----------------------------------------------------------------------------
(* Queues: what is in them, and what appending and taking changes. *)

Has(s, id) == \E k \in DOMAIN s : s[k].id = id
Once(s, id) == \A j, k \in DOMAIN s : s[j].id = id /\ s[k].id = id => j = k
Attacks(s, e) == {k \in DOMAIN s : s[k] = Packet("Attack", e)}

LEMMA HasAppend ==
  ASSUME NEW s \in Seq(Packets), NEW p \in Packets, NEW id
  PROVE  /\ Has(Append(s, p), id) <=> Has(s, id) \/ p.id = id
         /\ Once(s, id) /\ (p.id = id => ~Has(s, id)) => Once(Append(s, p), id)
<1>1. /\ DOMAIN s = 1 .. Len(s) /\ Len(s) \in Nat
      /\ DOMAIN Append(s, p) = 1 .. Len(s) + 1
      /\ \A k \in 1 .. Len(s) : Append(s, p)[k] = s[k]
      /\ Append(s, p)[Len(s) + 1] = p
  BY AppendProperties, LenProperties
<1> QED
  BY <1>1 DEF Has, Once

LEMMA TailAt ==
  ASSUME NEW s \in Seq(Packets), s # <<>>
  PROVE  /\ DOMAIN s = 1 .. Len(s) /\ Len(s) \in Nat \ {0}
         /\ DOMAIN Tail(s) = 1 .. Len(s) - 1
         /\ \A k \in 1 .. Len(s) - 1 : Tail(s)[k] = s[k + 1]
         /\ Head(s) = s[1]
  BY HeadTailProperties, LenProperties, EmptySeq

LEMMA HasTail ==
  ASSUME NEW s \in Seq(Packets), s # <<>>, NEW id
  PROVE  /\ Has(Tail(s), id) => Has(s, id)
         /\ Head(s).id = id => Has(s, id)
         /\ Once(s, id) => Once(Tail(s), id)
         /\ Once(s, id) /\ Head(s).id = id => ~Has(Tail(s), id)
<1>1. \A k \in DOMAIN Tail(s) : k + 1 \in DOMAIN s /\ Tail(s)[k] = s[k + 1] /\ k + 1 # 1
  BY TailAt
<1>2. 1 \in DOMAIN s /\ Head(s) = s[1]
  BY TailAt
<1>3. \A j, k \in DOMAIN Tail(s) : j + 1 = k + 1 => j = k
  BY TailAt
<1> QED
  BY <1>1, <1>2, <1>3 DEF Has, Once

LEMMA CountFinite ==
  ASSUME NEW s \in Seq(Packets), NEW e
  PROVE  IsFiniteSet(Attacks(s, e)) /\ Cardinality(Attacks(s, e)) \in Nat
<1>1. DOMAIN s = 1 .. Len(s) /\ Len(s) \in Nat
  BY LenProperties
<1>2. IsFiniteSet(1 .. Len(s)) /\ Attacks(s, e) \in SUBSET (1 .. Len(s))
  BY <1>1, FS_Interval DEF Attacks
<1> QED
  BY <1>2, FS_Subset, FS_CardinalityType

LEMMA CountAppend ==
  ASSUME NEW s \in Seq(Packets), NEW p \in Packets, NEW e
  PROVE  Cardinality(Attacks(Append(s, p), e)) =
           Cardinality(Attacks(s, e)) + (IF p = Packet("Attack", e) THEN 1 ELSE 0)
<1>1. /\ DOMAIN s = 1 .. Len(s) /\ Len(s) \in Nat
      /\ DOMAIN Append(s, p) = 1 .. Len(s) + 1
      /\ \A k \in 1 .. Len(s) : Append(s, p)[k] = s[k]
      /\ Append(s, p)[Len(s) + 1] = p
  BY AppendProperties, LenProperties
<1>2. Len(s) + 1 \notin Attacks(s, e)
  BY <1>1 DEF Attacks
<1>3. Attacks(Append(s, p), e) =
        IF p = Packet("Attack", e) THEN Attacks(s, e) \cup {Len(s) + 1} ELSE Attacks(s, e)
  BY <1>1 DEF Attacks
<1>4. Cardinality(Attacks(s, e) \cup {Len(s) + 1}) = Cardinality(Attacks(s, e)) + 1
  BY <1>2, CountFinite, FS_AddElement
<1>5. Cardinality(Attacks(s, e)) \in Nat
  BY CountFinite
<1> QED
  BY <1>3, <1>4, <1>5

LEMMA CountTail ==
  ASSUME NEW s \in Seq(Packets), s # <<>>, NEW e
  PROVE  Cardinality(Attacks(s, e)) =
           Cardinality(Attacks(Tail(s), e)) + (IF Head(s) = Packet("Attack", e) THEN 1 ELSE 0)
<1> DEFINE later == Attacks(s, e) \ {1}
           f == [k \in Attacks(Tail(s), e) |-> k + 1]
<1>1. /\ DOMAIN s = 1 .. Len(s) /\ Len(s) \in Nat \ {0}
      /\ DOMAIN Tail(s) = 1 .. Len(s) - 1
      /\ \A k \in 1 .. Len(s) - 1 : Tail(s)[k] = s[k + 1]
      /\ Head(s) = s[1]
  BY TailAt
<1>2. \A k \in Attacks(Tail(s), e) : k \in Nat /\ k + 1 \in later
  BY <1>1 DEF Attacks
<1>3. \A j \in later : j - 1 \in Attacks(Tail(s), e) /\ j = (j - 1) + 1
  <2> TAKE j \in later
  <2>1. j \in 2 .. Len(s) /\ s[j] = Packet("Attack", e)
    BY <1>1 DEF Attacks
  <2>2. j - 1 \in 1 .. Len(s) - 1 /\ j = (j - 1) + 1
    BY <1>1, <2>1
  <2> QED
    BY <1>1, <2>1, <2>2 DEF Attacks
<1>4. f \in Bijection(Attacks(Tail(s), e), later)
  <2>1. f \in [Attacks(Tail(s), e) -> later]
    BY <1>2
  <2>2. \A j, k \in Attacks(Tail(s), e) : f[j] = f[k] => j = k
    BY <1>2
  <2>3. \A j \in later : \E k \in Attacks(Tail(s), e) : f[k] = j
    BY <1>3
  <2> HIDE DEF f, later
  <2> QED
    BY <2>1, <2>2, <2>3, Fun_IsBij
<1>5. Tail(s) \in Seq(Packets)
  BY HeadTailProperties
<1>6. Cardinality(later) = Cardinality(Attacks(Tail(s), e))
  <2>1. IsFiniteSet(Attacks(Tail(s), e))
    BY <1>5, CountFinite
  <2>2. ExistsBijection(Attacks(Tail(s), e), later)
    BY <1>4, Fun_ExistsBij
  <2> HIDE DEF later
  <2> QED
    BY <2>1, <2>2, FS_Bijection
<1>7. 1 \in Attacks(s, e) <=> Head(s) = Packet("Attack", e)
  BY <1>1 DEF Attacks
<1>8. Cardinality(later) = IF 1 \in Attacks(s, e) THEN Cardinality(Attacks(s, e)) - 1
                          ELSE Cardinality(Attacks(s, e))
  BY CountFinite, FS_RemoveElement
<1>9. Cardinality(Attacks(s, e)) \in Nat
  BY CountFinite
<1> HIDE DEF later
<1> QED
  BY <1>6, <1>7, <1>8, <1>9

-----------------------------------------------------------------------------
(* A client is sent the enemies once, and has none before. *)

Blank(c) == \A e \in Enemies : actor[c][e] = "none" /\ shown[c][e] = MaxHp

NotAsked(c) ==
  ~Has(up[c], "Spawn") /\ io[c].pc # "enemies" /\ ~Has(down[c], "EnemySpawn")

Joining(c) ==
  /\ phase[c] = "menu" => down[c] = <<>>
  /\ phase[c] \in {"menu", "online"} => NotAsked(c) /\ Blank(c)
  /\ phase[c] = "level" =>
       /\ Once(up[c], "Spawn") /\ Once(down[c], "EnemySpawn")
       /\ Has(up[c], "Spawn") => io[c].pc # "enemies" /\ ~Has(down[c], "EnemySpawn") /\ Blank(c)
       /\ io[c].pc = "enemies" => ~Has(down[c], "EnemySpawn") /\ Blank(c)
       /\ Has(down[c], "EnemySpawn") => Blank(c)

JoinInv == \A c \in Sessions : Joining(c)

\* A client whose join goes no further: queues grow by other packets, or
\* shrink, and its actors stay.
LEMMA JoiningStays ==
  ASSUME NEW c \in Sessions, Joining(c),
         phase'[c] = phase[c] \/ (phase'[c] = "online" /\ phase[c] = "menu"),
         Has(up'[c], "Spawn") => Has(up[c], "Spawn"),
         Once(up[c], "Spawn") => Once(up'[c], "Spawn"),
         io'[c].pc = "enemies" => io[c].pc = "enemies",
         Has(down'[c], "EnemySpawn") => Has(down[c], "EnemySpawn"),
         Once(down[c], "EnemySpawn") => Once(down'[c], "EnemySpawn"),
         phase'[c] = "menu" => down'[c] = down[c],
         Has(up[c], "Spawn") \/ io[c].pc = "enemies" \/ Has(down[c], "EnemySpawn")
           \/ phase[c] # "level" =>
             actor'[c] = actor[c] /\ shown'[c] = shown[c]
  PROVE  Joining(c)'
  BY DEF Joining, NotAsked, Blank

LEMMA JoiningGone == ASSUME NEW c \in Sessions, phase'[c] = "gone" PROVE Joining(c)'
  BY DEF Joining

\* What RequestSend of other packets than S_EnemySpawn leaves of a join.
LEMMA SendStays ==
  ASSUME EnemyTypeOK, NEW s \in Sessions, NEW p \in Packets, RequestSend(s, p),
         p.id # "EnemySpawn", NEW c \in Sessions
  PROVE  /\ Has(down'[c], "EnemySpawn") => Has(down[c], "EnemySpawn")
         /\ Once(down[c], "EnemySpawn") => Once(down'[c], "EnemySpawn")
         /\ phase[c] = "menu" => down'[c] = down[c]
<1>1. down[c] \in Seq(Packets)
  BY DEF EnemyTypeOK
<1>2. down'[c] = IF c = s /\ Connected(c) THEN Append(down[c], p) ELSE down[c]
  BY RequestSendQueues
<1> QED
  BY <1>1, <1>2, HasAppend DEF Connected

LEMMA JoinInit == EnemyInit => JoinInv
  BY DEF EnemyInit, JoinInv, Joining, NotAsked, Blank, Has, Waiting, Handler

LEMMA ClientJoinNext ==
  ASSUME EnemyTypeOK, JoinInv, NEW d \in Sessions, NEW c \in Sessions,
         Connect(d) \/ SpawnPlayer(d) \/ CheckPlayerAttack(d) \/ Exit(d)
           \/ DequeuePacket(d) \/ DestroyEnemy(d)
  PROVE  Joining(c)'
<1>0. /\ up[d] \in Seq(Packets) /\ down[d] \in Seq(Packets)
      /\ up[c] \in Seq(Packets) /\ down[c] \in Seq(Packets)
      /\ Joining(c) /\ phase \in [Sessions -> {"menu", "online", "level", "gone"}]
      /\ actor[c] \in [Enemies -> {"none", "alive", "dying", "destroyed"}]
      /\ shown[c] \in [Enemies -> Int]
  BY DEF EnemyTypeOK, JoinInv
<1>1. ASSUME End(d) PROVE Joining(c)'
  <2>1. CASE c = d
    BY <1>0, <1>1, <2>1, JoiningGone DEF End
  <2>2. CASE c # d
    <3>1. /\ phase'[c] = phase[c] /\ up'[c] = up[c] /\ down'[c] = down[c] /\ io' = io
          /\ actor'[c] = actor[c] /\ shown'[c] = shown[c]
      BY <1>1, <2>2 DEF End, EnemyTypeOK, server
    <3> QED
      BY <1>0, <3>1, JoiningStays
  <2> QED
    BY <2>1, <2>2
<1>2. CASE Connect(d)
  <2>1. /\ up' = up /\ down' = down /\ io' = io /\ actor' = actor /\ shown' = shown
        /\ phase'[c] = phase[c] \/ (phase'[c] = "online" /\ phase[c] = "menu")
    BY <1>0, <1>2 DEF Connect, server
  <2> QED
    BY <1>0, <2>1, JoiningStays
<1>3. CASE SpawnPlayer(d)
  <2>1. /\ down' = down /\ io' = io /\ actor' = actor /\ shown' = shown
        /\ phase' = [phase EXCEPT ![d] = "level"] /\ phase[d] = "online"
        /\ up' = [up EXCEPT ![d] = Append(@, Packet("Spawn", NoEnemy))]
    BY <1>3 DEF SpawnPlayer, server
  <2>2. CASE c # d
    <3>1. phase'[c] = phase[c] /\ up'[c] = up[c]
      BY <2>1, <2>2
    <3> QED
      BY <1>0, <2>1, <3>1, JoiningStays
  <2>3. CASE c = d
    <3>1. NotAsked(c) /\ Blank(c)
      BY <1>0, <2>1, <2>3 DEF Joining
    <3>2. Once(up[c], "Spawn") /\ Once(down[c], "EnemySpawn")
      BY <3>1 DEF NotAsked, Has, Once
    <3>3. up'[c] = Append(up[c], Packet("Spawn", NoEnemy)) /\ phase'[c] = "level"
      BY <1>0, <2>1, <2>3 DEF EnemyTypeOK
    <3>4. Once(up'[c], "Spawn")
      BY <1>0, <3>1, <3>2, <3>3, HasAppend, PacketTyped DEF NotAsked
    <3>5. Blank(c)'
      BY <2>1, <3>1 DEF Blank
    <3> QED
      BY <2>1, <3>1, <3>2, <3>3, <3>4, <3>5 DEF Joining, NotAsked
  <2> QED
    BY <2>2, <2>3
<1>4. CASE CheckPlayerAttack(d)
  <2>1. PICK e \in Enemies : up' = [up EXCEPT ![d] = Append(@, Packet("Attack", e))]
    BY <1>4 DEF CheckPlayerAttack
  <2>2. /\ down' = down /\ io' = io /\ actor' = actor /\ shown' = shown /\ phase' = phase
    BY <1>4 DEF CheckPlayerAttack, server
  <2>3. up'[c] = up[c] \/ up'[c] = Append(up[c], Packet("Attack", e))
    BY <1>0, <2>1 DEF EnemyTypeOK
  <2>4. Packet("Attack", e) \in Packets /\ Packet("Attack", e).id # "Spawn"
    BY PacketTyped DEF Packet
  <2>5. /\ Has(up'[c], "Spawn") => Has(up[c], "Spawn")
        /\ Once(up[c], "Spawn") => Once(up'[c], "Spawn")
    <3>1. CASE up'[c] = up[c]
      BY <3>1
    <3>2. CASE up'[c] = Append(up[c], Packet("Attack", e))
      <4>1. /\ Has(Append(up[c], Packet("Attack", e)), "Spawn") => Has(up[c], "Spawn")
            /\ Once(up[c], "Spawn") => Once(Append(up[c], Packet("Attack", e)), "Spawn")
        BY <1>0, <2>4, HasAppend
      <4> QED
        BY <3>2, <4>1
    <3> QED
      BY <2>3, <3>1, <3>2
  <2>6. /\ down'[c] = down[c] /\ io'[c] = io[c] /\ actor'[c] = actor[c] /\ shown'[c] = shown[c]
        /\ phase'[c] = phase[c] /\ Joining(c)
    BY <1>0, <2>2
  <2> QED
    BY <2>5, <2>6, JoiningStays
<1>5. ASSUME Dequeue(d), down[d] # <<>>
      PROVE  /\ Has(down'[c], "EnemySpawn") => Has(down[c], "EnemySpawn")
             /\ Once(down[c], "EnemySpawn") => Once(down'[c], "EnemySpawn")
  <2>1. down'[c] = IF c = d THEN Tail(down[c]) ELSE down[c]
    BY <1>0, <1>5 DEF Dequeue, EnemyTypeOK
  <2> QED
    BY <1>0, <1>5, <2>1, HasTail
<1>6. CASE ProcessS_EnemySpawn(d)
  <2>1. /\ phase' = phase /\ phase[d] = "level" /\ up' = up /\ io' = io
        /\ down[d] # <<>> /\ Head(down[d]).id = "EnemySpawn" /\ Dequeue(d)
        /\ actor' = [actor EXCEPT ![d] = [e \in Enemies |-> "alive"]]
        /\ shown' = [shown EXCEPT ![d] = [e \in Enemies |-> MaxHp]]
    BY <1>6 DEF ProcessS_EnemySpawn, Received, server
  <2>2. CASE c # d
    <3>1. actor'[c] = actor[c] /\ shown'[c] = shown[c]
      BY <2>1, <2>2 DEF EnemyTypeOK
    <3>2. down'[c] = down[c]
      BY <2>1, <2>2 DEF Dequeue, EnemyTypeOK
    <3> QED
      BY <1>0, <2>1, <3>1, <3>2, JoiningStays
  <2>3. CASE c = d
    <3>1. Has(down[c], "EnemySpawn")
      BY <1>0, <2>1, <2>3, HasTail
    <3>2. down'[c] = Tail(down[c])
      BY <1>0, <2>1, <2>3 DEF Dequeue, EnemyTypeOK
    <3>3. /\ ~Has(up[c], "Spawn") /\ io[c].pc # "enemies"
          /\ Once(up[c], "Spawn") /\ Once(down[c], "EnemySpawn")
      BY <1>0, <2>1, <2>3, <3>1 DEF Joining
    <3>4. ~Has(down'[c], "EnemySpawn") /\ Once(down'[c], "EnemySpawn")
      BY <1>0, <2>1, <2>3, <3>2, <3>3, HasTail
    <3> QED
      BY <2>1, <2>3, <3>3, <3>4 DEF Joining
  <2> QED
    BY <2>2, <2>3
<1>7. CASE ProcessS_Attack(d)
  <2> DEFINE e == Head(down[d]).target
  <2>1. CASE End(d)
    BY <1>1, <2>1
  <2>2. CASE Dequeue(d) /\ UNCHANGED <<server, client, up, base>>
    <3>1. phase' = phase /\ up' = up /\ io' = io /\ actor' = actor /\ shown' = shown
      BY <2>2 DEF server, client
    <3>2. phase[d] = "level" /\ down[d] # <<>>
      BY <1>7 DEF ProcessS_Attack, Received
    <3>3. phase[c] = "menu" => down'[c] = down[c]
      BY <2>2, <3>2 DEF Dequeue, EnemyTypeOK
    <3> QED
      BY <1>0, <1>5, <2>2, <3>1, <3>2, <3>3, JoiningStays
  <2>3. CASE /\ Dequeue(d)
             /\ actor[d][e] \notin {"none", "destroyed"}
             /\ shown' = [shown EXCEPT ![d][e] = @ - Damage]
             /\ actor' = [actor EXCEPT ![d][e] = IF shown'[d][e] <= 0 THEN "dying" ELSE @]
             /\ UNCHANGED <<server, phase, up, attacks, base>>
    <3>1. phase' = phase /\ up' = up /\ io' = io
      BY <2>3 DEF server
    <3>2. phase[d] = "level" /\ down[d] # <<>> /\ e \in Enemies
      BY <1>0, <1>7, QueueTyped, PacketTyped DEF ProcessS_Attack, Received
    <3>3. phase[c] = "menu" => down'[c] = down[c]
      BY <2>3, <3>2 DEF Dequeue, EnemyTypeOK
    <3>4. c # d => actor'[c] = actor[c] /\ shown'[c] = shown[c]
      BY <2>3 DEF EnemyTypeOK
    <3>5. ~Blank(d)
      BY <2>3, <3>2 DEF Blank
    <3>6. c = d => /\ ~Has(up[c], "Spawn") /\ io[c].pc # "enemies" /\ ~Has(down[c], "EnemySpawn")
                   /\ phase[c] = "level"
      BY <1>0, <3>2, <3>5 DEF Joining
    <3> QED
      BY <1>0, <1>5, <2>3, <3>1, <3>2, <3>3, <3>4, <3>6, JoiningStays
  <2>4. \/ End(d)
        \/ Dequeue(d) /\ UNCHANGED <<server, client, up, base>>
        \/ /\ Dequeue(d)
           /\ actor[d][e] \notin {"none", "destroyed"}
           /\ shown' = [shown EXCEPT ![d][e] = @ - Damage]
           /\ actor' = [actor EXCEPT ![d][e] = IF shown'[d][e] <= 0 THEN "dying" ELSE @]
           /\ UNCHANGED <<server, phase, up, attacks, base>>
    BY <1>7 DEF ProcessS_Attack
  <2> QED
    BY <2>1, <2>2, <2>3, <2>4
<1>8. CASE ProcessS_EnemyMove(d)
  <2>1. CASE End(d)
    BY <1>1, <2>1
  <2>2. CASE Dequeue(d) /\ UNCHANGED <<server, client, up, base>>
    <3>1. phase' = phase /\ up' = up /\ io' = io /\ actor' = actor /\ shown' = shown
      BY <2>2 DEF server, client
    <3>2. phase[d] = "level" /\ down[d] # <<>>
      BY <1>8 DEF ProcessS_EnemyMove, Received
    <3>3. phase[c] = "menu" => down'[c] = down[c]
      BY <2>2, <3>2 DEF Dequeue, EnemyTypeOK
    <3> QED
      BY <1>0, <1>5, <2>2, <3>1, <3>2, <3>3, JoiningStays
  <2> QED
    BY <1>8, <2>1, <2>2 DEF ProcessS_EnemyMove
<1>9. CASE DestroyEnemy(d)
  <2>1. PICK e \in Enemies : actor[d][e] = "dying" /\ actor' = [actor EXCEPT ![d][e] = "destroyed"]
    BY <1>9 DEF DestroyEnemy
  <2>2. /\ phase' = phase /\ up' = up /\ io' = io /\ down' = down /\ shown' = shown
        /\ phase[d] = "level"
    BY <1>9 DEF DestroyEnemy, server
  <2>3. ~Blank(d) /\ (c # d => actor'[c] = actor[c])
    BY <2>1 DEF Blank, EnemyTypeOK
  <2>4. c = d => /\ ~Has(up[c], "Spawn") /\ io[c].pc # "enemies" /\ ~Has(down[c], "EnemySpawn")
    BY <1>0, <2>2, <2>3 DEF Joining
  <2> QED
    BY <1>0, <2>2, <2>3, <2>4, JoiningStays
<1> QED
  BY <1>1, <1>2, <1>3, <1>4, <1>6, <1>7, <1>8, <1>9 DEF DequeuePacket, Exit

LEMMA ServerJoinNext ==
  ASSUME EnemyTypeOK, JoinInv, NEW d \in Sessions, NEW c \in Sessions, Handle(d)
  PROVE  Joining(c)'
<1>0. /\ up[d] \in Seq(Packets) /\ up[c] \in Seq(Packets) /\ down[c] \in Seq(Packets)
      /\ Joining(c) /\ phase[c] \in {"menu", "online", "level", "gone"}
      /\ io \in [Sessions -> Handlers]
  BY DEF EnemyTypeOK, JoinInv
<1>a. phase'[c] = phase[c] /\ actor'[c] = actor[c] /\ shown'[c] = shown[c]
  BY DEF Handle, ProcessC_Spawn, SendEnemies, ProcessC_Attack, SetHp, Brodcast, client
<1>1. ASSUME NEW id, Receive(d, id)
      PROVE  /\ up[d] # <<>> /\ Head(up[d]).id = id /\ io[d] = Waiting
             /\ up'[c] = IF c = d THEN Tail(up[c]) ELSE up[c]
             /\ Has(up'[c], "Spawn") => Has(up[c], "Spawn")
             /\ Once(up[c], "Spawn") => Once(up'[c], "Spawn")
  <2>1. up[d] # <<>> /\ Head(up[d]).id = id /\ io[d] = Waiting
    BY <1>1 DEF Receive
  <2>2. up'[c] = IF c = d THEN Tail(up[c]) ELSE up[c]
    BY <1>1 DEF Receive, EnemyTypeOK
  <2>3. CASE c = d
    BY <1>0, <2>1, <2>2, <2>3, HasTail
  <2>4. CASE c # d
    BY <2>1, <2>2, <2>4
  <2> QED
    BY <2>3, <2>4
<1>2. CASE ProcessC_Spawn(d)
  <2>1. /\ down' = down /\ io' = [io EXCEPT ![d] = Handler("enemies", NoEnemy, 0)]
        /\ Receive(d, "Spawn")
    BY <1>2 DEF ProcessC_Spawn
  <2>2. /\ Has(up'[c], "Spawn") => Has(up[c], "Spawn")
        /\ Once(up[c], "Spawn") => Once(up'[c], "Spawn")
    BY <1>1, <2>1
  <2>3. CASE c # d
    <3>1. io'[c] = io[c] /\ down'[c] = down[c]
      BY <1>0, <2>1, <2>3
    <3> QED
      BY <1>0, <1>a, <2>2, <3>1, JoiningStays
  <2>4. CASE c = d
    <3>1. Has(up[c], "Spawn")
      BY <1>0, <1>1, <2>1, <2>4, HasTail
    <3>2. phase[c] \notin {"menu", "online"}
      BY <1>0, <3>1 DEF Joining, NotAsked
    <3>3. CASE phase[c] = "gone"
      BY <1>a, <3>3, JoiningGone
    <3>4. CASE phase[c] = "level"
      <4>1. /\ Once(up[c], "Spawn") /\ Once(down[c], "EnemySpawn")
            /\ ~Has(down[c], "EnemySpawn") /\ Blank(c)
        BY <1>0, <3>1, <3>4 DEF Joining
      <4>2. up'[c] = Tail(up[c]) /\ Head(up[c]).id = "Spawn" /\ up[c] # <<>>
        BY <1>1, <2>1, <2>4
      <4>3. ~Has(up'[c], "Spawn") /\ Once(up'[c], "Spawn")
        BY <1>0, <4>1, <4>2, HasTail
      <4>4. Blank(c)'
        BY <1>a, <4>1 DEF Blank
      <4> QED
        BY <1>a, <2>1, <3>4, <4>1, <4>3, <4>4 DEF Joining
    <3> QED
      BY <1>0, <3>2, <3>3, <3>4
  <2> QED
    BY <2>3, <2>4
<1>3. CASE SendEnemies(d)
  <2>1. /\ io[d].pc = "enemies" /\ up' = up /\ io' = [io EXCEPT ![d] = Waiting]
        /\ RequestSend(d, Packet("EnemySpawn", NoEnemy))
    BY <1>3 DEF SendEnemies
  <2>2. down'[c] = IF c = d /\ Connected(c) THEN Append(down[c], Packet("EnemySpawn", NoEnemy))
                   ELSE down[c]
    BY <2>1, PacketTyped, RequestSendQueues
  <2>3. io'[c].pc = "enemies" => io[c].pc = "enemies"
    BY <1>0, <2>1 DEF Waiting, Handler
  <2>4. CASE c # d \/ ~Connected(c)
    <3>1. down'[c] = down[c]
      BY <2>2, <2>4
    <3> QED
      BY <1>0, <1>a, <2>1, <2>3, <3>1, JoiningStays
  <2>5. CASE c = d /\ Connected(c)
    <3>1. phase[c] = "level"
      BY <1>0, <2>1, <2>5 DEF Joining, NotAsked, Connected
    <3>2. /\ Once(up[c], "Spawn") /\ ~Has(up[c], "Spawn") /\ Blank(c)
          /\ Once(down[c], "EnemySpawn") /\ ~Has(down[c], "EnemySpawn")
      BY <1>0, <2>1, <2>5, <3>1 DEF Joining
    <3>3. Packet("EnemySpawn", NoEnemy) \in Packets
      BY PacketTyped
    <3>4. Once(Append(down[c], Packet("EnemySpawn", NoEnemy)), "EnemySpawn")
      BY <1>0, <3>2, <3>3, HasAppend
    <3>5. Once(down'[c], "EnemySpawn")
      BY <2>2, <2>5, <3>4
    <3>6. io'[c].pc # "enemies"
      BY <1>0, <2>1, <2>5 DEF Waiting, Handler
    <3>7. Blank(c)'
      BY <1>a, <3>2 DEF Blank
    <3> QED
      BY <1>a, <2>1, <3>1, <3>2, <3>5, <3>6, <3>7 DEF Joining
  <2> QED
    BY <2>4, <2>5
<1>4. CASE ProcessC_Attack(d)
  <2>1. /\ down' = down /\ Receive(d, "Attack")
        /\ io' = io \/ io' = [io EXCEPT ![d] = Handler("set", Head(up[d]).target, hp[Head(up[d]).target])]
    BY <1>4 DEF ProcessC_Attack
  <2>2. io'[c].pc = "enemies" => io[c].pc = "enemies"
    BY <1>0, <2>1 DEF Handler
  <2>3. /\ Has(up'[c], "Spawn") => Has(up[c], "Spawn")
        /\ Once(up[c], "Spawn") => Once(up'[c], "Spawn")
    BY <1>1, <2>1
  <2>4. down'[c] = down[c]
    BY <2>1
  <2> QED
    BY <1>0, <1>a, <2>2, <2>3, <2>4, JoiningStays
<1>5. CASE SetHp(d)
  <2>1. up' = up /\ down' = down /\ io' = [io EXCEPT ![d] = Handler("brodcast", io[d].target, 0)]
    BY <1>5 DEF SetHp
  <2>2. io'[c].pc = "enemies" => io[c].pc = "enemies"
    BY <1>0, <2>1 DEF Handler
  <2> QED
    BY <1>0, <1>a, <2>1, <2>2, JoiningStays
<1>6. CASE Brodcast(d)
  <2>1. /\ up' = up /\ RequestSend(io[d].i, Packet("Attack", io[d].target))
        /\ io' = [io EXCEPT ![d] = IF io[d].i < N THEN [io[d] EXCEPT !.i = @ + 1] ELSE Waiting]
        /\ io[d].pc = "brodcast"
    BY <1>6 DEF Brodcast
  <2>2. io'[c].pc = "enemies" => io[c].pc = "enemies"
    <3>1. CASE c # d
      BY <1>0, <2>1, <3>1
    <3>2. CASE c = d /\ io[d].i < N
      <4>1. io'[c] = [io[d] EXCEPT !.i = @ + 1]
        BY <1>0, <2>1, <3>2
      <4>2. io'[c].pc = io[d].pc
        BY <1>0, <4>1 DEF Handlers
      <4> QED
        BY <2>1, <4>2
    <3>3. CASE c = d /\ ~(io[d].i < N)
      BY <1>0, <2>1, <3>3 DEF Waiting, Handler
    <3> QED
      BY <3>1, <3>2, <3>3
  <2>3. /\ io[d].i \in Sessions /\ Packet("Attack", io[d].target) \in Packets
        /\ Packet("Attack", io[d].target).id # "EnemySpawn"
    BY <1>0, <2>1, HandlerTyped, PacketTyped DEF Packet
  <2>4. /\ Has(down'[c], "EnemySpawn") => Has(down[c], "EnemySpawn")
        /\ Once(down[c], "EnemySpawn") => Once(down'[c], "EnemySpawn")
        /\ phase[c] = "menu" => down'[c] = down[c]
    BY <2>1, <2>3, SendStays
  <2> QED
    BY <1>0, <1>a, <2>1, <2>2, <2>4, JoiningStays
<1> QED
  BY <1>2, <1>3, <1>4, <1>5, <1>6 DEF Handle

LEMMA JoinNext ==
  ASSUME EnemyTypeOK, JoinInv, [EnemyNext]_enemyVars
  PROVE  JoinInv'
<1>1. SUFFICES ASSUME NEW c \in Sessions PROVE Joining(c)'
  BY DEF JoinInv
<1>2. Joining(c)
  BY DEF JoinInv
<1>3. CASE UNCHANGED enemyVars
  BY <1>2, <1>3, JoiningStays DEF enemyVars, client, server
<1>4. CASE BrodcastS_EnemyMove
  <2> DEFINE s == IF tick = 0 THEN 1 ELSE tick
  <2>1. s \in Sessions
    BY EnemyAssumption DEF EnemyTypeOK, Sessions
  <2>2. /\ RequestSend(s, Packet("EnemyMove", NoEnemy))
        /\ up' = up /\ io' = io /\ phase' = phase /\ actor' = actor /\ shown' = shown
    BY <1>4 DEF BrodcastS_EnemyMove, client
  <2>3. Packet("EnemyMove", NoEnemy) \in Packets /\ Packet("EnemyMove", NoEnemy).id # "EnemySpawn"
    BY PacketTyped DEF Packet
  <2>4. /\ Has(down'[c], "EnemySpawn") => Has(down[c], "EnemySpawn")
        /\ Once(down[c], "EnemySpawn") => Once(down'[c], "EnemySpawn")
        /\ phase[c] = "menu" => down'[c] = down[c]
    BY <2>1, <2>2, <2>3, SendStays
  <2> QED
    BY <1>2, <2>2, <2>4, JoiningStays
<1> QED
  BY <1>3, <1>4, ClientJoinNext, ServerJoinNext DEF EnemyNext

-----------------------------------------------------------------------------
(* Hits are neither lost nor counted twice. *)

OnWay(c, e) == {d \in Sessions : io[d].pc = "brodcast" /\ io[d].target = e /\ io[d].i <= c}

\* The hits client c has been given since it came.
Given(c, e) == hits[e] - base[c][e] - Pending(c, e) - Coming(c, e)

Even(c) ==
  Connected(c) => \A e \in Enemies :
    actor[c][e] # "destroyed" => shown[c][e] = MaxHp - Damage * Given(c, e)

HitsInv == \A c \in Sessions : Even(c)

LEMMA Counts ==
  ASSUME EnemyTypeOK, NEW c \in Sessions, NEW e \in Enemies
  PROVE  /\ Pending(c, e) = Cardinality(Attacks(down[c], e)) /\ Pending(c, e) \in Nat
         /\ Coming(c, e) = Cardinality(OnWay(c, e)) /\ Coming(c, e) \in Nat
         /\ IsFiniteSet(OnWay(c, e))
         /\ hits[e] \in Nat /\ base[c][e] \in Int /\ Given(c, e) \in Int
<1>1. Pending(c, e) = Cardinality(Attacks(down[c], e)) /\ Coming(c, e) = Cardinality(OnWay(c, e))
  BY DEF Pending, Attacks, Coming, OnWay
<1>2. Pending(c, e) \in Nat
  BY <1>1, CountFinite DEF EnemyTypeOK
<1>3. IsFiniteSet(Sessions) /\ OnWay(c, e) \in SUBSET Sessions
  BY EnemyAssumption, FS_Interval DEF Sessions, OnWay
<1>4. IsFiniteSet(OnWay(c, e)) /\ Coming(c, e) \in Nat
  BY <1>1, <1>3, FS_Subset, FS_CardinalityType
<1>5. hits[e] \in Nat /\ base[c][e] \in Int
  BY DEF EnemyTypeOK
<1> QED
  BY <1>1, <1>2, <1>3, <1>4, <1>5 DEF Given

\* The same, of the next state.
LEMMA CountsAfter ==
  ASSUME EnemyTypeOK', NEW c \in Sessions, NEW e \in Enemies
  PROVE  /\ Pending(c, e)' = Cardinality(Attacks(down'[c], e)) /\ Pending(c, e)' \in Nat
         /\ Coming(c, e)' = Cardinality(OnWay(c, e)') /\ Coming(c, e)' \in Nat
<1>1. Pending(c, e)' = Cardinality(Attacks(down'[c], e)) /\ Coming(c, e)' = Cardinality(OnWay(c, e)')
  BY DEF Pending, Attacks, Coming, OnWay
<1>2. Pending(c, e)' \in Nat
  BY <1>1, CountFinite DEF EnemyTypeOK
<1>3. IsFiniteSet(Sessions) /\ OnWay(c, e)' \in SUBSET Sessions
  BY EnemyAssumption, FS_Interval DEF Sessions, OnWay
<1> QED
  BY <1>1, <1>2, <1>3, FS_Subset, FS_CardinalityType

LEMMA EvenStays ==
  ASSUME NEW c \in Sessions, Even(c), Connected(c)' => Connected(c),
         ASSUME NEW e \in Enemies, actor'[c][e] # "destroyed", Connected(c)
         PROVE  /\ actor[c][e] # "destroyed"
                /\ shown'[c][e] = shown[c][e]
                /\ Given(c, e)' = Given(c, e)
  PROVE  Even(c)'
  BY DEF Even

LEMMA EvenGone == ASSUME NEW c \in Sessions, ~Connected(c)' PROVE Even(c)'
  BY DEF Even

LEMMA EvenInit == EnemyInit => HitsInv
  BY DEF EnemyInit, HitsInv, Even, Connected

\* As long as no handler begins or goes on with a broadcast, none comes closer.
LEMMA ComingStays ==
  ASSUME NEW c \in Sessions, NEW e \in Enemies,
         \A d \in Sessions : \/ io'[d] = io[d]
                            \/ (io[d].pc # "brodcast" /\ io'[d].pc # "brodcast")
  PROVE  Coming(c, e)' = Coming(c, e)
<1>1. OnWay(c, e)' = OnWay(c, e)
  BY DEF OnWay
<1> QED
  BY <1>1 DEF Coming, OnWay

LEMMA ServerEvenNext ==
  ASSUME EnemyTypeOK, EnemyTypeOK', HitsInv, NEW d \in Sessions, NEW c \in Sessions, Handle(d)
  PROVE  Even(c)'
<1>0. /\ io \in [Sessions -> Handlers] /\ Even(c)
      /\ down[c] \in Seq(Packets) /\ hits \in [Enemies -> Nat]
  BY DEF EnemyTypeOK, HitsInv
<1>a. phase' = phase /\ actor' = actor /\ shown' = shown /\ base' = base
  BY DEF Handle, ProcessC_Spawn, SendEnemies, ProcessC_Attack, SetHp, Brodcast, client
<1>b. Connected(c)' = Connected(c)
  BY <1>a DEF Connected
<1>1. SUFFICES ASSUME NEW e \in Enemies, Connected(c)
               PROVE  Given(c, e)' = Given(c, e)
  BY <1>0, <1>a, <1>b, EvenStays
<1>c. /\ Pending(c, e) = Cardinality(Attacks(down[c], e)) /\ Pending(c, e) \in Nat
      /\ Coming(c, e) = Cardinality(OnWay(c, e)) /\ Coming(c, e) \in Nat
      /\ IsFiniteSet(OnWay(c, e))
      /\ hits[e] \in Nat /\ base[c][e] \in Int
  BY Counts
<1>d. /\ Pending(c, e)' = Cardinality(Attacks(down'[c], e)) /\ Pending(c, e)' \in Nat
      /\ Coming(c, e)' = Cardinality(OnWay(c, e)') /\ Coming(c, e)' \in Nat
  BY CountsAfter
<1>2. CASE ProcessC_Spawn(d) \/ ProcessC_Attack(d)
  <2>1. hits' = hits /\ down' = down
    BY <1>2 DEF ProcessC_Spawn, ProcessC_Attack
  <2>2. io[d].pc # "brodcast"
    BY <1>2 DEF ProcessC_Spawn, ProcessC_Attack, Receive, Waiting, Handler
  <2>3. \A x \in Sessions : io'[x] = io[x] \/ (io[x].pc # "brodcast" /\ io'[x].pc # "brodcast")
    BY <1>0, <1>2, <2>2 DEF ProcessC_Spawn, ProcessC_Attack, Handler
  <2> QED
    BY <1>a, <1>c, <1>d, <2>1, <2>3, ComingStays DEF Given
<1>3. CASE SendEnemies(d)
  <2>1. hits' = hits /\ RequestSend(d, Packet("EnemySpawn", NoEnemy))
    BY <1>3 DEF SendEnemies
  <2>2. \A x \in Sessions : io'[x] = io[x] \/ (io[x].pc # "brodcast" /\ io'[x].pc # "brodcast")
    BY <1>0, <1>3 DEF SendEnemies, Waiting, Handler
  <2>3. /\ Packet("EnemySpawn", NoEnemy) \in Packets
        /\ Packet("EnemySpawn", NoEnemy) # Packet("Attack", e)
    BY PacketTyped DEF Packet
  <2>4. down'[c] = down[c] \/ down'[c] = Append(down[c], Packet("EnemySpawn", NoEnemy))
    BY <2>1, <2>3, RequestSendQueues
  <2>5. Pending(c, e)' = Pending(c, e)
    <3>1. Cardinality(Attacks(Append(down[c], Packet("EnemySpawn", NoEnemy)), e))
            = Cardinality(Attacks(down[c], e)) + 0
      BY <1>0, <2>3, CountAppend
    <3>2. CASE down'[c] = down[c]
      BY <1>c, <1>d, <3>2
    <3>3. CASE down'[c] = Append(down[c], Packet("EnemySpawn", NoEnemy))
      BY <1>c, <1>d, <3>1, <3>3
    <3> QED
      BY <2>4, <3>2, <3>3
  <2> QED
    BY <1>a, <2>1, <2>2, <2>5, ComingStays DEF Given
<1>4. CASE SetHp(d)
  <2>1. /\ down' = down /\ io[d].pc = "set" /\ io[d].target \in Enemies
        /\ hits' = [hits EXCEPT ![io[d].target] = @ + 1]
        /\ io' = [io EXCEPT ![d] = Handler("brodcast", io[d].target, 0)]
    BY <1>0, <1>4, HandlerTyped DEF SetHp
  <2>2. Pending(c, e)' = Pending(c, e)
    BY <1>c, <1>d, <2>1
  <2>3. CASE e = io[d].target
    <3>1. hits'[e] = hits[e] + 1
      BY <1>0, <2>1, <2>3
    <3>2. io'[d].pc = "brodcast" /\ io'[d].target = e /\ io'[d].i = 1 /\ 1 <= c
      BY <1>0, <2>1, <2>3 DEF Handler, Sessions
    <3>3. \A x \in Sessions \ {d} : io'[x] = io[x]
      BY <1>0, <2>1
    <3>4. OnWay(c, e)' = OnWay(c, e) \cup {d} /\ d \notin OnWay(c, e)
      BY <2>1, <3>2, <3>3 DEF OnWay
    <3>5. Coming(c, e)' = Coming(c, e) + 1
      BY <1>c, <1>d, <3>4, FS_AddElement
    <3> QED
      BY <1>a, <1>c, <2>2, <3>1, <3>5 DEF Given
  <2>4. CASE e # io[d].target
    <3>1. hits'[e] = hits[e]
      BY <1>0, <2>1, <2>4
    <3>2. io'[d].target # e
      BY <1>0, <2>1, <2>4 DEF Handler
    <3>3. \A x \in Sessions \ {d} : io'[x] = io[x]
      BY <1>0, <2>1
    <3>4. OnWay(c, e)' = OnWay(c, e)
      BY <2>4, <3>2, <3>3 DEF OnWay
    <3> QED
      BY <1>a, <1>c, <1>d, <2>2, <3>1, <3>4 DEF Given
  <2> QED
    BY <2>3, <2>4
<1>5. CASE Brodcast(d)
  <2> DEFINE s == io[d].i
             p == Packet("Attack", io[d].target)
  <2>1. /\ hits' = hits /\ io[d].pc = "brodcast" /\ io[d].target \in Enemies /\ s \in Sessions
        /\ RequestSend(s, p) /\ p \in Packets
        /\ io' = [io EXCEPT ![d] = IF s < N THEN [io[d] EXCEPT !.i = @ + 1] ELSE Waiting]
    BY <1>0, <1>5, HandlerTyped, PacketTyped DEF Brodcast
  <2>2. \A x \in Sessions \ {d} : io'[x] = io[x]
    BY <1>0, <2>1
  <2>3. down'[c] = IF c = s THEN Append(down[c], p) ELSE down[c]
    BY <1>1, <2>1, RequestSendQueues
  <2>4. p = Packet("Attack", e) <=> e = io[d].target
    BY DEF Packet
  <2>5. /\ s < N => io'[d].pc = "brodcast" /\ io'[d].target = io[d].target /\ io'[d].i = s + 1
        /\ ~(s < N) => s = N /\ io'[d].pc # "brodcast"
    <3>1. CASE s < N
      <4>1. io'[d] = [io[d] EXCEPT !.i = @ + 1]
        BY <1>0, <2>1, <3>1
      <4> QED
        BY <1>0, <2>1, <3>1, <4>1 DEF Handlers
    <3>2. CASE ~(s < N)
      BY <1>0, <2>1, <3>2, EnemyAssumption DEF Waiting, Handler, Sessions
    <3> QED
      BY <3>1, <3>2
  <2>6. CASE c = s /\ e = io[d].target
    <3>1. ~(io'[d].pc = "brodcast" /\ io'[d].i <= c)
      BY <2>1, <2>5, <2>6 DEF Sessions
    <3>2. OnWay(c, e)' = OnWay(c, e) \ {d} /\ d \in OnWay(c, e)
      <4>1. d \in OnWay(c, e)
        BY <2>1, <2>6 DEF OnWay, Sessions
      <4> QED
        BY <2>2, <3>1, <4>1 DEF OnWay
    <3>3. Coming(c, e)' = Coming(c, e) - 1
      BY <1>c, <1>d, <3>2, FS_RemoveElement
    <3>4. Cardinality(Attacks(Append(down[c], p), e)) = Cardinality(Attacks(down[c], e)) + 1
      BY <1>0, <2>1, <2>4, <2>6, CountAppend
    <3>5. Pending(c, e)' = Pending(c, e) + 1
      BY <1>c, <1>d, <2>3, <2>6, <3>4
    <3> QED
      BY <1>a, <1>c, <2>1, <3>3, <3>5 DEF Given
  <2>7. CASE ~(c = s /\ e = io[d].target)
    <3>1. OnWay(c, e)' = OnWay(c, e)
      <4>1. io'[d].pc = "brodcast" /\ io'[d].target = e /\ io'[d].i <= c
              <=> io[d].pc = "brodcast" /\ io[d].target = e /\ io[d].i <= c
        BY <2>1, <2>5, <2>7 DEF Sessions
      <4> QED
        BY <2>2, <4>1 DEF OnWay
    <3>2. Pending(c, e)' = Pending(c, e)
      <4>1. CASE c # s
        BY <1>c, <1>d, <2>3, <4>1
      <4>2. CASE c = s
        <5>1. p # Packet("Attack", e)
          BY <2>4, <2>7, <4>2
        <5>2. Cardinality(Attacks(Append(down[c], p), e)) = Cardinality(Attacks(down[c], e)) + 0
          BY <1>0, <2>1, <5>1, CountAppend
        <5> QED
          BY <1>c, <1>d, <2>3, <4>2, <5>2
      <4> QED
        BY <4>1, <4>2
    <3> QED
      BY <1>a, <1>c, <1>d, <2>1, <3>1, <3>2 DEF Given
  <2> QED
    BY <2>6, <2>7
<1> QED
  BY <1>2, <1>3, <1>4, <1>5 DEF Handle

\* A client's own steps: broadcasts and booked hits stay as they are.
LEMMA ClientEvenNext ==
  ASSUME EnemyTypeOK, EnemyTypeOK', JoinInv, HitsInv, NEW d \in Sessions, NEW c \in Sessions,
         Connect(d) \/ SpawnPlayer(d) \/ CheckPlayerAttack(d) \/ Exit(d)
           \/ DequeuePacket(d) \/ DestroyEnemy(d)
  PROVE  Even(c)'
<1>0. /\ Even(c) /\ Joining(c) /\ down[c] \in Seq(Packets) /\ down[d] \in Seq(Packets)
      /\ phase \in [Sessions -> {"menu", "online", "level", "gone"}]
  BY DEF EnemyTypeOK, HitsInv, JoinInv
<1>a. hits' = hits /\ io' = io
  BY DEF Connect, SpawnPlayer, CheckPlayerAttack, Exit, End, DequeuePacket, ProcessS_EnemySpawn,
         ProcessS_Attack, ProcessS_EnemyMove, DestroyEnemy, server
<1>b. ASSUME NEW e \in Enemies
      PROVE  /\ Pending(c, e) = Cardinality(Attacks(down[c], e)) /\ Pending(c, e) \in Nat
             /\ Pending(c, e)' = Cardinality(Attacks(down'[c], e)) /\ Pending(c, e)' \in Nat
             /\ Coming(c, e)' = Coming(c, e) /\ Coming(c, e) \in Nat
             /\ hits[e] \in Nat /\ base[c][e] \in Int /\ Given(c, e) \in Int
  BY <1>a, Counts, CountsAfter, ComingStays
<1>c. ASSUME phase'[c] = phase[c], actor'[c] = actor[c], shown'[c] = shown[c],
             down'[c] = down[c], base'[c] = base[c]
      PROVE  Even(c)'
  <2>1. ASSUME NEW e \in Enemies PROVE Given(c, e)' = Given(c, e)
    BY <1>a, <1>b, <1>c DEF Given
  <2> QED
    BY <1>0, <1>c, <2>1, EvenStays DEF Connected
<1>1. ASSUME End(d) PROVE Even(c)'
  <2>1. CASE c = d
    BY <1>0, <1>1, <2>1, EvenGone DEF End, Connected
  <2>2. CASE c # d
    BY <1>1, <1>c, <2>2 DEF End, EnemyTypeOK
  <2> QED
    BY <2>1, <2>2
<1>2. CASE Connect(d)
  <2>1. /\ phase[d] = "menu" /\ down' = down /\ actor' = actor /\ shown' = shown
        /\ phase' = [phase EXCEPT ![d] = "online"]
        /\ base' = [base EXCEPT ![d] = [e \in Enemies |-> hits[e] - Coming(d, e)]]
    BY <1>2 DEF Connect
  <2>2. CASE c # d
    BY <1>c, <2>1, <2>2 DEF EnemyTypeOK
  <2>3. CASE c = d
    <3>1. down[c] = <<>> /\ Blank(c)
      BY <1>0, <2>1, <2>3 DEF Joining
    <3>2. ASSUME NEW e \in Enemies
          PROVE  shown'[c][e] = MaxHp - Damage * Given(c, e)'
      <4>1. base'[c][e] = hits[e] - Coming(c, e)
        BY <2>1, <2>3 DEF EnemyTypeOK
      <4>2. Pending(c, e)' = 0
        <5>1. Attacks(down'[c], e) = {}
          BY <2>1, <3>1 DEF Attacks
        <5> QED
          BY <1>b, <5>1, FS_EmptySet
      <4>3. Given(c, e)' = 0
        BY <1>a, <1>b, <4>1, <4>2 DEF Given
      <4> QED
        BY <2>1, <3>1, <4>3 DEF Blank, MaxHp, Damage
    <3> QED
      BY <3>2 DEF Even
  <2> QED
    BY <2>2, <2>3
<1>3. CASE SpawnPlayer(d)
  <2>1. /\ down' = down /\ actor' = actor /\ shown' = shown /\ base' = base
        /\ phase[d] = "online" /\ phase' = [phase EXCEPT ![d] = "level"]
    BY <1>3 DEF SpawnPlayer
  <2>2. Connected(c)' => Connected(c)
    BY <1>0, <2>1 DEF Connected
  <2>3. ASSUME NEW e \in Enemies PROVE Given(c, e)' = Given(c, e)
    BY <1>a, <1>b, <2>1 DEF Given
  <2> QED
    BY <1>0, <2>1, <2>2, <2>3, EvenStays
<1>4. CASE CheckPlayerAttack(d)
  BY <1>4, <1>c DEF CheckPlayerAttack
<1>5. ASSUME Dequeue(d), down[d] # <<>>, phase' = phase, base' = base
      PROVE  /\ Connected(c)' = Connected(c) /\ base'[c] = base[c]
             /\ c # d => down'[c] = down[c]
             /\ c = d => \A e \in Enemies :
                  Given(c, e)' = Given(c, e) + (IF Head(down[c]) = Packet("Attack", e) THEN 1 ELSE 0)
  <2>1. down'[c] = IF c = d THEN Tail(down[c]) ELSE down[c]
    BY <1>5 DEF Dequeue, EnemyTypeOK
  <2>2. ASSUME NEW e \in Enemies, c = d
        PROVE  Given(c, e)' = Given(c, e) + (IF Head(down[c]) = Packet("Attack", e) THEN 1 ELSE 0)
    <3>1. Cardinality(Attacks(down[c], e)) =
            Cardinality(Attacks(Tail(down[c]), e)) + (IF Head(down[c]) = Packet("Attack", e) THEN 1 ELSE 0)
      BY <1>0, <1>5, <2>2, CountTail
    <3>2. Pending(c, e) = Pending(c, e)' + (IF Head(down[c]) = Packet("Attack", e) THEN 1 ELSE 0)
      BY <1>b, <2>1, <2>2, <3>1
    <3>3. /\ Given(c, e) = hits[e] - base[c][e] - Pending(c, e) - Coming(c, e)
          /\ Given(c, e)' = hits[e] - base[c][e] - Pending(c, e)' - Coming(c, e)
      BY <1>5, <1>a, <1>b DEF Given
    <3>4. /\ Pending(c, e) \in Nat /\ Pending(c, e)' \in Nat /\ Coming(c, e) \in Nat
          /\ hits[e] \in Nat /\ base[c][e] \in Int
      BY <1>b
    <3> HIDE DEF Given, Pending, Coming
    <3>5. CASE Head(down[c]) = Packet("Attack", e)
      BY <3>2, <3>3, <3>4, <3>5
    <3>6. CASE Head(down[c]) # Packet("Attack", e)
      BY <3>2, <3>3, <3>4, <3>6
    <3> QED
      BY <3>5, <3>6
  <2> QED
    BY <1>5, <2>1, <2>2 DEF Connected
<1>6. CASE ProcessS_EnemySpawn(d)
  <2>1. /\ phase' = phase /\ phase[d] = "level" /\ base' = base
        /\ down[d] # <<>> /\ Head(down[d]).id = "EnemySpawn" /\ Dequeue(d)
        /\ actor' = [actor EXCEPT ![d] = [e \in Enemies |-> "alive"]]
        /\ shown' = [shown EXCEPT ![d] = [e \in Enemies |-> MaxHp]]
    BY <1>6 DEF ProcessS_EnemySpawn, Received
  <2>2. CASE c # d
    BY <1>5, <1>c, <2>1, <2>2 DEF EnemyTypeOK
  <2>3. CASE c = d
    <3>1. Blank(c)
      BY <1>0, <2>1, <2>3, HasTail DEF Joining
    <3>2. ASSUME NEW e \in Enemies
          PROVE  actor[c][e] # "destroyed" /\ shown'[c][e] = shown[c][e] /\ Given(c, e)' = Given(c, e)
      <4>1. actor[c][e] # "destroyed" /\ shown'[c][e] = shown[c][e]
        BY <2>1, <2>3, <3>1 DEF Blank, EnemyTypeOK
      <4>2. Head(down[c]) # Packet("Attack", e)
        BY <2>1, <2>3 DEF Packet
      <4> QED
        BY <1>5, <1>b, <2>1, <2>3, <4>1, <4>2
    <3> QED
      BY <1>0, <1>5, <2>1, <3>2, EvenStays
  <2> QED
    BY <2>2, <2>3
<1>7. CASE ProcessS_Attack(d)
  <2> DEFINE t == Head(down[d]).target
  <2>1. phase[d] = "level" /\ down[d] # <<>> /\ t \in Enemies /\ Head(down[d]) = Packet("Attack", t)
    <3>1. phase[d] = "level" /\ down[d] # <<>> /\ Head(down[d]).id = "Attack"
      BY <1>7 DEF ProcessS_Attack, Received
    <3>2. Head(down[d]) \in Packets
      BY <1>0, <3>1, QueueTyped
    <3> QED
      BY <3>1, <3>2 DEF Packets, Packet
  <2>2. ASSUME NEW e \in Enemies PROVE Head(down[d]) = Packet("Attack", e) <=> e = t
    BY <2>1 DEF Packet
  <2>3. CASE End(d)
    BY <1>1, <2>3
  <2>4. CASE actor[d][t] = "destroyed" /\ Dequeue(d) /\ UNCHANGED <<server, client, up, base>>
    <3>1. phase' = phase /\ actor' = actor /\ shown' = shown /\ base' = base
      BY <2>4 DEF client
    <3>2. CASE c # d
      BY <1>5, <1>c, <2>1, <2>4, <3>1, <3>2
    <3>3. CASE c = d
      <4>1. ASSUME NEW e \in Enemies, actor'[c][e] # "destroyed"
            PROVE  actor[c][e] # "destroyed" /\ shown'[c][e] = shown[c][e] /\ Given(c, e)' = Given(c, e)
        <5>1. Head(down[c]) # Packet("Attack", e)
          BY <2>2, <2>4, <3>1, <3>3, <4>1
        <5> QED
          BY <1>5, <1>b, <2>1, <2>4, <3>1, <3>3, <4>1, <5>1
      <4> QED
        BY <1>0, <1>5, <2>1, <2>4, <3>1, <4>1, EvenStays
    <3> QED
      BY <3>2, <3>3
  <2>5. CASE /\ Dequeue(d)
             /\ actor[d][t] \notin {"none", "destroyed"}
             /\ shown' = [shown EXCEPT ![d][t] = @ - Damage]
             /\ actor' = [actor EXCEPT ![d][t] = IF shown'[d][t] <= 0 THEN "dying" ELSE @]
             /\ UNCHANGED <<server, phase, up, attacks, base>>
    <3>1. phase' = phase /\ base' = base
      BY <2>5
    <3>2. CASE c # d
      BY <1>5, <1>c, <2>1, <2>5, <3>1, <3>2 DEF EnemyTypeOK
    <3>3. CASE c = d
      <4>0. /\ actor[d] \in [Enemies -> {"none", "alive", "dying", "destroyed"}]
            /\ shown[d] \in [Enemies -> Int]
            /\ \A e \in Enemies : shown[d][e] \in Int
        BY DEF EnemyTypeOK
      <4>1. ASSUME NEW e \in Enemies, actor'[c][e] # "destroyed", Connected(c)'
            PROVE  shown'[c][e] = MaxHp - Damage * Given(c, e)'
        <5>1. CASE e # t
          <6>1. actor'[c][e] = actor[c][e] /\ shown'[c][e] = shown[c][e]
            BY <2>5, <3>3, <5>1 DEF EnemyTypeOK
          <6>2. Given(c, e)' = Given(c, e)
            BY <1>5, <1>b, <2>1, <2>2, <2>5, <3>1, <3>3, <5>1
          <6> QED
            BY <1>0, <1>5, <2>1, <2>5, <3>1, <4>1, <6>1, <6>2 DEF Even
        <5>2. CASE e = t
          <6>1. shown'[c][e] = shown[c][e] - Damage
            BY <2>5, <3>3, <5>2 DEF EnemyTypeOK
          <6>2. Given(c, e)' = Given(c, e) + 1
            BY <1>5, <1>b, <2>1, <2>2, <2>5, <3>1, <3>3, <5>2
          <6>3. shown[c][e] = MaxHp - Damage * Given(c, e)
            BY <1>0, <1>5, <2>1, <2>5, <3>1, <3>3, <4>1, <5>2 DEF Even
          <6>4. Given(c, e) \in Int
            BY <1>b
          <6> QED
            BY <6>1, <6>2, <6>3, <6>4 DEF MaxHp, Damage
        <5> QED
          BY <5>1, <5>2
      <4> QED
        BY <4>1 DEF Even
    <3> QED
      BY <3>2, <3>3
  <2>6. \/ End(d)
        \/ actor[d][t] = "destroyed" /\ Dequeue(d) /\ UNCHANGED <<server, client, up, base>>
        \/ /\ Dequeue(d)
           /\ actor[d][t] \notin {"none", "destroyed"}
           /\ shown' = [shown EXCEPT ![d][t] = @ - Damage]
           /\ actor' = [actor EXCEPT ![d][t] = IF shown'[d][t] <= 0 THEN "dying" ELSE @]
           /\ UNCHANGED <<server, phase, up, attacks, base>>
    BY <1>7 DEF ProcessS_Attack
  <2> QED
    BY <2>3, <2>4, <2>5, <2>6
<1>8. CASE ProcessS_EnemyMove(d)
  <2>1. CASE End(d)
    BY <1>1, <2>1
  <2>2. CASE Dequeue(d) /\ UNCHANGED <<server, client, up, base>>
    <3>1. /\ phase' = phase /\ actor' = actor /\ shown' = shown /\ base' = base
          /\ phase[d] = "level" /\ down[d] # <<>> /\ Head(down[d]).id = "EnemyMove"
      BY <1>8, <2>2 DEF ProcessS_EnemyMove, Received, client
    <3>2. CASE c # d
      BY <1>5, <1>c, <2>2, <3>1, <3>2
    <3>3. CASE c = d
      <4>1. ASSUME NEW e \in Enemies PROVE Given(c, e)' = Given(c, e)
        <5>1. Head(down[c]) # Packet("Attack", e)
          BY <3>1, <3>3 DEF Packet
        <5> QED
          BY <1>5, <1>b, <2>2, <3>1, <3>3, <5>1
      <4> QED
        BY <1>0, <1>5, <2>2, <3>1, <4>1, EvenStays
    <3> QED
      BY <3>2, <3>3
  <2> QED
    BY <1>8, <2>1, <2>2 DEF ProcessS_EnemyMove
<1>9. CASE DestroyEnemy(d)
  <2>1. PICK x \in Enemies : actor[d][x] = "dying" /\ actor' = [actor EXCEPT ![d][x] = "destroyed"]
    BY <1>9 DEF DestroyEnemy
  <2>2. phase' = phase /\ down' = down /\ shown' = shown /\ base' = base
    BY <1>9 DEF DestroyEnemy
  <2>3. ASSUME NEW e \in Enemies, actor'[c][e] # "destroyed"
        PROVE  actor[c][e] # "destroyed"
    BY <2>1, <2>3 DEF EnemyTypeOK
  <2>4. ASSUME NEW e \in Enemies PROVE Given(c, e)' = Given(c, e)
    BY <1>a, <1>b, <2>2 DEF Given
  <2> QED
    BY <1>0, <2>2, <2>3, <2>4, EvenStays DEF Connected
<1> QED
  BY <1>1, <1>2, <1>3, <1>4, <1>6, <1>7, <1>8, <1>9 DEF DequeuePacket, Exit

LEMMA EvenNext ==
  ASSUME EnemyTypeOK, EnemyTypeOK', JoinInv, HitsInv, [EnemyNext]_enemyVars
  PROVE  HitsInv'
<1>1. SUFFICES ASSUME NEW c \in Sessions PROVE Even(c)'
  BY DEF HitsInv
<1>2. Even(c) /\ down[c] \in Seq(Packets)
  BY DEF HitsInv, EnemyTypeOK
<1>a. ASSUME NEW e \in Enemies
      PROVE  /\ Pending(c, e) = Cardinality(Attacks(down[c], e)) /\ Pending(c, e) \in Nat
             /\ Pending(c, e)' = Cardinality(Attacks(down'[c], e))
             /\ io' = io => Coming(c, e)' = Coming(c, e)
  BY Counts, CountsAfter, ComingStays
<1>3. CASE UNCHANGED enemyVars
  <2>1. /\ hits' = hits /\ base' = base /\ down' = down /\ io' = io
        /\ phase' = phase /\ actor' = actor /\ shown' = shown
    BY <1>3 DEF enemyVars, client, server
  <2>2. ASSUME NEW e \in Enemies PROVE Given(c, e)' = Given(c, e)
    BY <1>a, <2>1 DEF Given
  <2> QED
    BY <1>2, <2>1, <2>2, EvenStays DEF Connected
<1>4. CASE BrodcastS_EnemyMove
  <2> DEFINE s == IF tick = 0 THEN 1 ELSE tick
             p == Packet("EnemyMove", NoEnemy)
  <2>1. s \in Sessions
    BY EnemyAssumption DEF EnemyTypeOK, Sessions
  <2>2. /\ RequestSend(s, p) /\ p \in Packets
        /\ hits' = hits /\ base' = base /\ io' = io
        /\ phase' = phase /\ actor' = actor /\ shown' = shown
    BY <1>4, PacketTyped DEF BrodcastS_EnemyMove, client
  <2>3. down'[c] = down[c] \/ down'[c] = Append(down[c], p)
    BY <2>1, <2>2, RequestSendQueues
  <2>4. ASSUME NEW e \in Enemies PROVE Given(c, e)' = Given(c, e)
    <3>1. p # Packet("Attack", e)
      BY DEF Packet
    <3>2. Cardinality(Attacks(Append(down[c], p), e)) = Cardinality(Attacks(down[c], e)) + 0
      BY <1>2, <2>2, <3>1, CountAppend
    <3>3. Pending(c, e)' = Pending(c, e)
      <4>1. CASE down'[c] = down[c]
        BY <1>a, <4>1
      <4>2. CASE down'[c] = Append(down[c], p)
        BY <1>a, <3>2, <4>2
      <4> QED
        BY <2>3, <4>1, <4>2
    <3> QED
      BY <1>a, <2>2, <3>3 DEF Given
  <2> QED
    BY <1>2, <2>2, <2>4, EvenStays DEF Connected
<1> QED
  BY <1>3, <1>4, ClientEvenNext, ServerEvenNext DEF EnemyNext

\* However many sessions claim hits on however many enemies, come and leave, a
\* client's actor has lost just the hits booked since it came, less those on
\* their way to it (PacketHandler.cpp:231, CastleDefenseGameState.cpp:66).
THEOREM HitsReachHolds == EnemySpec => []HitsReach
<1>1. EnemyInit => EnemyTypeOK /\ JoinInv /\ HitsInv
  BY EnemyTypeInit, JoinInit, EvenInit
<1>2. EnemyTypeOK /\ JoinInv /\ HitsInv /\ [EnemyNext]_enemyVars
        => EnemyTypeOK' /\ JoinInv' /\ HitsInv'
  BY EnemyTypeNext, JoinNext, EvenNext
<1>3. EnemyTypeOK /\ HitsInv => HitsReach
  <2> SUFFICES ASSUME EnemyTypeOK, HitsInv, NEW c \in Sessions, NEW e \in Enemies,
                      phase[c] = "level", actor[c][e] \in {"alive", "dying"}
               PROVE  shown[c][e] - Damage * (Pending(c, e) + Coming(c, e))
                        = MaxHp - Damage * (hits[e] - base[c][e])
    BY DEF HitsReach
  <2>1. shown[c][e] = MaxHp - Damage * Given(c, e)
    BY DEF HitsInv, Even, Connected
  <2>2. /\ Pending(c, e) \in Nat /\ Coming(c, e) \in Nat
        /\ hits[e] \in Nat /\ base[c][e] \in Int
    BY Counts
  <2>3. Given(c, e) = hits[e] - base[c][e] - Pending(c, e) - Coming(c, e)
    BY DEF Given
  <2> HIDE DEF Given, Pending, Coming
  <2> QED
    BY <2>1, <2>2, <2>3 DEF MaxHp, Damage
<1> QED
  BY <1>1, <1>2, <1>3, PTL DEF EnemySpec


-----------------------------------------------------------------------------
(* Patrols *)

\* The indices the enemies keep of their paths, and how far they are: a path
\* fits m_nodes, and on one of more than a node the next node is within it.
PatrolInv ==
  /\ curNode \in [EnemyInfos -> Int]
  /\ nNodes \in [EnemyInfos -> 0 .. MaxNodes]
  /\ NodeInPath

\* A path has as many nodes as BuildNodes found.
LEMMA PathLength ==
  ASSUME NEW src, NEW path \in BuildNodes(src)
  PROVE  Cardinality(DOMAIN path) \in 1 .. MaxNodes
<1>1. PICK n \in 1 .. MaxNodes : path \in [0 .. n - 1 -> Points]
  BY DEF BuildNodes
<1>2. n \in Int /\ DOMAIN path = 0 .. n - 1
  BY <1>1, WorldAssumption
<1>3. Cardinality(0 .. n - 1) = n
  BY <1>1, <1>2, WorldAssumption, FS_Interval
<1> QED
  BY <1>1, <1>2, <1>3

LEMMA PatrolInit == Init => PatrolInv
<1> SUFFICES ASSUME Init
             PROVE  PatrolInv
  OBVIOUS
<1>1. \A e \in EnemyInfos : nNodes[e] = 0
  BY DEF Init
<1>2. curNode \in [EnemyInfos -> Int] /\ nNodes \in [EnemyInfos -> 0 .. MaxNodes]
  BY WorldAssumption DEF Init
<1> QED
  BY <1>1, <1>2 DEF PatrolInv, NodeInPath

\* A new path is entered at its second node, if it has one.
LEMMA BuildPathPatrol ==
  ASSUME PatrolInv, NEW e \in EnemyInfos, BuildPath(e)
  PROVE  PatrolInv'
<1>1. PICK path \in BuildNodes(coord[e]) :
        /\ nNodes' = [nNodes EXCEPT ![e] = Cardinality(DOMAIN path)]
        /\ curNode' = [curNode EXCEPT ![e] = ResetNode(e) + 1]
  BY DEF BuildPath
<1>2. Cardinality(DOMAIN path) \in 1 .. MaxNodes
  BY <1>1, PathLength
<1>3. ResetNode(e) + 1 = 1
  BY DEF ResetNode
<1>4. curNode' \in [EnemyInfos -> Int] /\ nNodes' \in [EnemyInfos -> 0 .. MaxNodes]
  BY <1>1, <1>2, <1>3 DEF PatrolInv
<1>5. ASSUME NEW d \in EnemyInfos, nNodes'[d] > 1
      PROVE  curNode'[d] \in 1 .. nNodes'[d] - 1
  <2>1. CASE d = e
    <3>1. curNode'[d] = 1 /\ nNodes'[d] \in 0 .. MaxNodes
      BY <1>1, <1>3, <1>4, <2>1 DEF PatrolInv
    <3> QED
      BY <1>5, <3>1
  <2>2. CASE d # e
    BY <1>1, <1>5, <2>2 DEF PatrolInv, NodeInPath
  <2> QED
    BY <2>1, <2>2
<1> QED
  BY <1>4, <1>5 DEF PatrolInv, NodeInPath

\* The end of a path is seen before the node behind it is taken.
LEMMA ReachNodePatrol ==
  ASSUME PatrolInv, NEW e \in EnemyInfos, ReachNode(e)
  PROVE  PatrolInv'
<1>1. /\ curNode' = [curNode EXCEPT ![e] = @ + 1] /\ nNodes' = nNodes
      /\ curNode[e] + 1 # nNodes[e]
  BY DEF ReachNode, CheckReachedEnd
<1>2. curNode' \in [EnemyInfos -> Int] /\ nNodes' \in [EnemyInfos -> 0 .. MaxNodes]
  BY <1>1 DEF PatrolInv
<1>3. ASSUME NEW d \in EnemyInfos, nNodes'[d] > 1
      PROVE  curNode'[d] \in 1 .. nNodes'[d] - 1
  <2>1. curNode[d] \in 1 .. nNodes[d] - 1 /\ nNodes[d] \in 0 .. MaxNodes
    BY <1>1, <1>3 DEF PatrolInv, NodeInPath
  <2>2. CASE d = e
    <3>1. curNode'[d] = curNode[d] + 1 /\ curNode[d] + 1 # nNodes[d]
      BY <1>1, <2>2 DEF PatrolInv
    <3> QED
      BY <1>1, <2>1, <3>1
  <2>3. CASE d # e
    BY <1>1, <2>1, <2>3 DEF PatrolInv
  <2> QED
    BY <2>2, <2>3
<1> QED
  BY <1>2, <1>3 DEF PatrolInv, NodeInPath

LEMMA PatrolNext == PatrolInv /\ [Next]_vars => PatrolInv'
<1> SUFFICES ASSUME PatrolInv, [Next]_vars
             PROVE  PatrolInv'
  OBVIOUS
<1>1. ASSUME UNCHANGED <<curNode, nNodes>>
      PROVE  PatrolInv'
  BY <1>1 DEF PatrolInv, NodeInPath
<1>2. ASSUME NEW e \in EnemyInfos, EnemyTurn(e)
      PROVE  PatrolInv'
  <2>1. CASE BuildPath(e)
    BY <2>1, BuildPathPatrol
  <2>2. CASE ReachNode(e)
    BY <2>2, ReachNodePatrol
  <2>3. CASE Walk(e)
    BY <1>1, <2>3 DEF Walk
  <2> QED
    BY <1>2, <2>1, <2>2, <2>3 DEF EnemyTurn
<1>3. ASSUME NEW p \in Players, PlayerTurn(p) \/ AddPlayerById(p) \/ RemovePlayerById(p)
      PROVE  PatrolInv'
  BY <1>1, <1>3 DEF PlayerTurn, AddPlayerById, RemovePlayerById, patrolVars
<1>4. CASE UNCHANGED vars
  BY <1>1, <1>4 DEF vars, patrolVars
<1> QED
  BY <1>2, <1>3, <1>4 DEF Next

\* The next node of an enemy is one of the path it is on (EnemyManager.cpp,
\* SetNextLocation; NavigationManager.cpp, MoveAlongPath): the nodes of older,
\* longer paths that are left in m_nodes behind it are never walked to, for
\* any mesh, any length of m_nodes and however players come and go meanwhile.
THEOREM NodesOfThePath == Spec => []NodeInPath
<1>1. PatrolInv => NodeInPath
  BY DEF PatrolInv
<1> QED
  BY <1>1, PatrolInit, PatrolNext, PTL DEF Spec

-----------------------------------------------------------------------------
(* Boxes *)

\* An enemy's box is listed in the last octant of its way down from the root,
\* all of which have children, or nowhere before its first move.
TreeInv ==
  /\ DOMAIN objects = Boxes /\ DOMAIN aabb = Boxes
  /\ \A e \in EnemyInfos :
       \/ objects[e] = EmptyBag
       \/ /\ Passed(aabb[e]) \subseteq split
          /\ objects[e] = SetToBag({LastOf(Passed(aabb[e]))})

\* Where all octants on the way have children, removing goes as far as placing.
LEMMA RemovedWherePlaced ==
  ASSUME NEW box, Passed(box) \subseteq split
  PROVE  RemovePath(box) = LastOf(Passed(box))
<1>1. Reached(Passed(box)) = Passed(box)
  BY DEF Reached
<1>2. UNION {Reached(paths) : paths \in {Passed(box)}} = Passed(box)
  BY <1>1
<1> QED
  BY <1>2 DEF RemovePath

LEMMA TreeFinds == TreeInv => PlacedWhereFound
  BY RemovedWherePlaced DEF TreeInv, PlacedWhereFound

\* The entry for the box is the only one and is erased.
LEMMA EntryErased ==
  ASSUME NEW p
  PROVE  /\ EmptyBag (-) SetToBag({p}) = EmptyBag
         /\ SetToBag({p}) (-) SetToBag({p}) = EmptyBag
         /\ EmptyBag (+) SetToBag({p}) = SetToBag({p})
<1>1. EmptyBag = [x \in {} |-> 1] /\ SetToBag({p}) = [x \in {p} |-> 1]
  BY DEF EmptyBag, SetToBag
<1>2. EmptyBag (-) SetToBag({p}) = EmptyBag
  BY <1>1 DEF (-)
<1>3. SetToBag({p}) (-) SetToBag({p}) = EmptyBag
  BY <1>1 DEF (-)
<1>4. EmptyBag (+) SetToBag({p}) = SetToBag({p})
  <2>1. (DOMAIN EmptyBag) \cup (DOMAIN SetToBag({p})) = {p}
    BY <1>1
  <2>2. EmptyBag (+) SetToBag({p})
          = [x \in {p} |-> (IF x \in DOMAIN EmptyBag THEN EmptyBag[x] ELSE 0)
                            + (IF x \in DOMAIN SetToBag({p}) THEN SetToBag({p})[x] ELSE 0)]
    BY <2>1 DEF (+)
  <2>3. \A x \in {p} : (IF x \in DOMAIN EmptyBag THEN EmptyBag[x] ELSE 0)
                        + (IF x \in DOMAIN SetToBag({p}) THEN SetToBag({p})[x] ELSE 0) = 1
    BY <1>1
  <2> QED
    BY <1>1, <2>2, <2>3
<1> QED
  BY <1>2, <1>3, <1>4

\* A box that is moved is listed where its new way ends, and the octants by
\* which the other boxes are found keep their children.
LEMMA MoveTree ==
  ASSUME TreeInv, NEW b \in Boxes, NEW center, Move(b, center)
  PROVE  TreeInv'
<1> DEFINE paths == Passed(Box(b, center))
           others == RemoveFromNode(b)
<1>1. /\ objects' = [objects EXCEPT ![b] = others (+) SetToBag({LastOf(paths)})]
      /\ split' = split \cup paths
      /\ aabb' = [aabb EXCEPT ![b] = Box(b, center)]
  BY DEF Move, CreateNode
<1> HIDE DEF paths, others
<1>2. DOMAIN objects' = Boxes /\ DOMAIN aabb' = Boxes
  BY <1>1 DEF TreeInv
<1>3. ASSUME NEW e \in EnemyInfos
      PROVE  \/ objects'[e] = EmptyBag
             \/ /\ Passed(aabb'[e]) \subseteq split'
                /\ objects'[e] = SetToBag({LastOf(Passed(aabb'[e]))})
  <2>1. CASE e # b
    <3>1. objects'[e] = objects[e] /\ aabb'[e] = aabb[e]
      BY <1>1, <2>1, WorldAssumption DEF TreeInv
    <3> QED
      BY <1>1, <3>1 DEF TreeInv
  <2>2. CASE e = b
    <3>1. others = EmptyBag
      <4>1. CASE objects[b] = EmptyBag
        BY <4>1, EntryErased DEF others, RemoveFromNode
      <4>2. CASE objects[b] # EmptyBag
        <5>1. objects[b] = SetToBag({RemovePath(aabb[b])})
          BY <2>2, <4>2, RemovedWherePlaced DEF TreeInv
        <5> QED
          BY <5>1, EntryErased DEF others, RemoveFromNode
      <4> QED
        BY <4>1, <4>2
    <3>2. objects'[b] = SetToBag({LastOf(paths)})
      BY <1>1, <3>1, EntryErased DEF TreeInv
    <3>3. aabb'[b] = Box(b, center)
      BY <1>1 DEF TreeInv
    <3> QED
      BY <1>1, <2>2, <3>2, <3>3 DEF paths
  <2> QED
    BY <2>1, <2>2
<1> QED
  BY <1>2, <1>3 DEF TreeInv

LEMMA TreeNext == TreeInv /\ [Next]_vars => TreeInv'
<1> SUFFICES ASSUME TreeInv, [Next]_vars
             PROVE  TreeInv'
  OBVIOUS
<1>1. ASSUME UNCHANGED octreeVars
      PROVE  TreeInv'
  BY <1>1 DEF TreeInv, octreeVars
<1>2. ASSUME NEW e \in EnemyInfos, EnemyTurn(e)
      PROVE  TreeInv'
  <2>1. CASE BuildPath(e)
    BY <1>1, <2>1 DEF BuildPath
  <2>2. CASE ReachNode(e) \/ Walk(e)
    <3>1. \E center : Move(e, center)
      BY <2>2 DEF ReachNode, Walk, SetCoord
    <3> QED
      BY <3>1, MoveTree, WorldAssumption
  <2> QED
    BY <1>2, <2>1, <2>2 DEF EnemyTurn
<1>3. ASSUME NEW p \in Players, PlayerTurn(p)
      PROVE  TreeInv'
  BY <1>3, MoveTree, WorldAssumption DEF PlayerTurn
<1>4. ASSUME NEW p \in Players, AddPlayerById(p)
      PROVE  TreeInv'
  <2>1. /\ objects' = objects /\ split' = split
        /\ \E box : aabb' = [aabb EXCEPT ![p] = box]
    BY <1>4 DEF AddPlayerById
  <2>2. \A e \in EnemyInfos : e # p
    BY WorldAssumption
  <2> QED
    BY <2>1, <2>2 DEF TreeInv
<1>5. ASSUME NEW p \in Players, RemovePlayerById(p)
      PROVE  TreeInv'
  BY <1>1, <1>5 DEF RemovePlayerById
<1>6. CASE UNCHANGED vars
  BY <1>1, <1>6 DEF vars
<1> QED
  BY <1>2, <1>3, <1>4, <1>5, <1>6 DEF Next

\* RemoveFromNode finds an enemy's box (Partitioning.cpp 94-126), and it is
\* listed nowhere else: however the tree has grown since PlaceInNode put the
\* box there, whatever players' boxes it was left with, for a tree of any
\* depth and boxes of any size.
THEOREM EnemiesFound == Spec => []PlacedWhereFound
<1>1. Init => TreeInv
  BY WorldAssumption DEF Init, OctreeInit, TreeInv
<1> QED
  BY <1>1, TreeNext, TreeFinds, PTL DEF Spec
=============================================================================
