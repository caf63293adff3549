--------------------------- MODULE EnemyProtocol ---------------------------
(***************************************************************************)
(* Attacks on enemies: a client claims a hit (Wizard.cpp), the server      *)
(* judges it and takes hit points (PacketHandler.cpp, EnemyManager.cpp),   *)
(* and every client takes them from its own actor when S_Attack arrives    *)
(* (CPacketHandler.cpp, CastleDefenseGameState.cpp).  Client c is the c-th *)
(* element of m_sessionVec.  Packets of one session are handled one at a   *)
(* time, those of several on several IO threads; the game loop broadcasts  *)
(* S_EnemyMove meanwhile.  The queues are those of PlayerProtocol, which   *)
(* has the players' side of joining and leaving.                           *)
(***************************************************************************)
EXTENDS Integers, Sequences, FiniteSets

CONSTANTS
  N,           \* sessions, at most MAX_CONNECTION
  Enemies,     \* the enemies that S_EnemySpawn and S_EnemyMove list
  MaxAttacks,  \* bound: C_Attack packets sent in a behaviour
  NoEnemy

ASSUME EnemyAssumption ==
  N \in Nat \ {0} /\ MaxAttacks \in Nat /\ NoEnemy \notin Enemies

VARIABLES
  phase,    \* how far each client program has come
  up,       \* packets from each client to the server
  down,     \* packets from the server to each client
  actor,    \* m_enemies of each client
  shown,    \* m_Hp of these actors
  hp,       \* server: hit points of each enemy
  io,       \* server: the handler running for each session
  tick,     \* server: the turn of the game loop's broadcast, 0 for none
  attacks,  \* C_Attack packets sent so far
  hits,     \* history: hits of each enemy the server has booked
  base      \* history: those that were on no way to the client when it came

client == <<phase, actor, shown, attacks>>
server == <<hp, io, tick, hits>>
enemyVars == <<client, server, up, down, base>>

Sessions == 1 .. N
MaxHp == 100
Damage == 50

Packet(id, target) == [id |-> id, target |-> target]
Packets ==
  [id : {"Spawn", "EnemySpawn", "EnemyMove"}, target : {NoEnemy}]
  \cup [id : {"Attack"}, target : Enemies]

Handler(pc, target, curHp) == [pc |-> pc, i |-> 1, target |-> target, curHp |-> curHp]
Handlers ==
  [pc : {"recv", "enemies"}, i : Sessions, target : {NoEnemy}, curHp : Int]
  \cup [pc : {"set", "brodcast"}, i : Sessions, target : Enemies, curHp : Int]
Waiting == Handler("recv", NoEnemy, 0)

EnemyTypeOK ==
  /\ phase \in [Sessions -> {"menu", "online", "level", "gone"}]
  /\ up \in [Sessions -> Seq(Packets)]
  /\ down \in [Sessions -> Seq(Packets)]
  /\ actor \in [Sessions -> [Enemies -> {"none", "alive", "dying", "destroyed"}]]
  /\ shown \in [Sessions -> [Enemies -> Int]]
  /\ hp \in [Enemies -> Int]
  /\ io \in [Sessions -> Handlers]
  /\ tick \in 0 .. N
  /\ attacks \in Nat
  /\ hits \in [Enemies -> Nat]
  /\ base \in [Sessions -> [Enemies -> Int]]

EnemyInit ==
  /\ phase = [c \in Sessions |-> "menu"]
  /\ up = [c \in Sessions |-> <<>>]
  /\ down = [c \in Sessions |-> <<>>]
  /\ actor = [c \in Sessions |-> [e \in Enemies |-> "none"]]
  /\ shown = [c \in Sessions |-> [e \in Enemies |-> MaxHp]]
  /\ hp = [e \in Enemies |-> MaxHp]
  /\ io = [c \in Sessions |-> Waiting]
  /\ tick = 0
  /\ attacks = 0
  /\ hits = [e \in Enemies |-> 0]
  /\ base = [c \in Sessions |-> [e \in Enemies |-> 0]]

-----------------------------------------------------------------------------
(* The client. *)

Connected(c) == phase[c] \in {"online", "level"}

\* Hits of e whose broadcast has yet to come to session c.
Coming(c, e) ==
  Cardinality({d \in Sessions : io[d].pc = "brodcast" /\ io[d].target = e /\ io[d].i <= c})

\* The connection stands: from now on the session gets every broadcast.
Connect(c) ==
  /\ phase[c] = "menu"
  /\ phase' = [phase EXCEPT ![c] = "online"]
  /\ base' = [base EXCEPT ![c] = [e \in Enemies |-> hits[e] - Coming(c, e)]]
  /\ UNCHANGED <<server, up, down, actor, shown, attacks>>

SpawnPlayer(c) ==
  /\ phase[c] = "online"
  /\ phase' = [phase EXCEPT ![c] = "level"]
  /\ up' = [up EXCEPT ![c] = Append(@, Packet("Spawn", NoEnemy))]
  /\ UNCHANGED <<server, down, actor, shown, attacks, base>>

\* The attack animation is where it hits, and the line ends in an enemy, which
\* may be dead already.
CheckPlayerAttack(c) ==
  /\ phase[c] = "level"
  /\ attacks < MaxAttacks
  /\ \E e \in Enemies :
       /\ actor[c][e] \in {"alive", "dying"}
       /\ up' = [up EXCEPT ![c] = Append(@, Packet("Attack", e))]
  /\ attacks' = attacks + 1
  /\ UNCHANGED <<server, phase, down, actor, shown, base>>

\* The program ends; packets the send worker had not taken yet are lost.
End(c) ==
  /\ phase' = [phase EXCEPT ![c] = "gone"]
  /\ \E k \in 0 .. Len(up[c]) : up' = [up EXCEPT ![c] = SubSeq(@, 1, k)]
  /\ down' = [down EXCEPT ![c] = <<>>]
  /\ UNCHANGED <<server, actor, shown, attacks, base>>

Exit(c) == Connected(c) /\ End(c)

\* The level's tick takes a packet from m_recvQueue.
Received(c, id) ==
  /\ phase[c] = "level"
  /\ down[c] # <<>>
  /\ Head(down[c]).id = id

Dequeue(c) == down' = [down EXCEPT ![c] = Tail(@)]

\* AddEnemy: a new actor has all its hit points, whatever the packet says.
ProcessS_EnemySpawn(c) ==
  /\ Received(c, "EnemySpawn")
  /\ Dequeue(c)
  /\ actor' = [actor EXCEPT ![c] = [e \in Enemies |-> "alive"]]
  /\ shown' = [shown EXCEPT ![c] = [e \in Enemies |-> MaxHp]]
  /\ UNCHANGED <<server, phase, up, attacks, base>>

\* UpdateEnemyHp indexes m_enemies: while it is empty the engine stops the
\* program.  A destroyed actor is used as long as its memory holds.
ProcessS_Attack(c) ==
  /\ Received(c, "Attack")
  /\ LET e == Head(down[c]).target
     IN CASE actor[c][e] = "none" -> End(c)
          [] actor[c][e] = "destroyed" ->
               \/ End(c)
               \/ Dequeue(c) /\ UNCHANGED <<server, client, up, base>>
          [] OTHER ->
               /\ Dequeue(c)
               /\ shown' = [shown EXCEPT ![c][e] = @ - Damage]
               /\ actor' = [actor EXCEPT ![c][e] = IF shown'[c][e] <= 0 THEN "dying" ELSE @]
               /\ UNCHANGED <<server, phase, up, attacks, base>>

\* UpdateEnemyPos looks whether there are enemies, not whether they live.
ProcessS_EnemyMove(c) ==
  /\ Received(c, "EnemyMove")
  /\ \/ /\ \E e \in Enemies : actor[c][e] = "destroyed"
        /\ End(c)
     \/ Dequeue(c) /\ UNCHANGED <<server, client, up, base>>

DequeuePacket(c) ==
  ProcessS_EnemySpawn(c) \/ ProcessS_Attack(c) \/ ProcessS_EnemyMove(c)

\* Four seconds after the death animation.
DestroyEnemy(c) ==
  /\ phase[c] = "level"
  /\ \E e \in Enemies :
       /\ actor[c][e] = "dying"
       /\ actor' = [actor EXCEPT ![c][e] = "destroyed"]
  /\ UNCHANGED <<server, phase, up, down, shown, attacks, base>>

-----------------------------------------------------------------------------
(* The server. *)

\* What is sent to a program that ended is lost.
RequestSend(s, pkt) ==
  down' = IF Connected(s) THEN [down EXCEPT ![s] = Append(@, pkt)] ELSE down

Receive(c, id) ==
  /\ io[c] = Waiting
  /\ up[c] # <<>>
  /\ Head(up[c]).id = id
  /\ up' = [up EXCEPT ![c] = Tail(@)]

\* The last block of ProcessC_Spawn; the ones before are PlayerProtocol's.
ProcessC_Spawn(c) ==
  /\ Receive(c, "Spawn")
  /\ io' = [io EXCEPT ![c] = Handler("enemies", NoEnemy, 0)]
  /\ UNCHANGED <<client, hp, tick, hits, down, base>>

SendEnemies(c) ==
  /\ io[c].pc = "enemies"
  /\ RequestSend(c, Packet("EnemySpawn", NoEnemy))
  /\ io' = [io EXCEPT ![c] = Waiting]
  /\ UNCHANGED <<client, hp, tick, hits, up, base>>

\* A mutant: hit points are taken before the distance is looked at.
ProcessC_Attack_Unjudged(c) ==
  /\ Receive(c, "Attack")
  /\ LET e == Head(up[c]).target
     IN \/ io' = [io EXCEPT ![c] = Handler("set", e, hp[e])] /\ UNCHANGED hp
        \/ hp' = [hp EXCEPT ![e] = @ - Damage] /\ UNCHANGED io
  /\ UNCHANGED <<client, tick, hits, down, base>>

\* The hit is judged by the distance; DecreaseHp reads the hit points.
ProcessC_Attack(c) ==
  /\ Receive(c, "Attack")
  /\ LET e == Head(up[c]).target
     IN \/ io' = [io EXCEPT ![c] = Handler("set", e, hp[e])]
        \/ UNCHANGED io
  /\ UNCHANGED <<client, hp, tick, hits, down, base>>

\* DecreaseHp writes them, without a lock, whatever they have become.
SetHp(c) ==
  LET e == io[c].target
  IN /\ io[c].pc = "set"
     /\ hp' = [hp EXCEPT ![e] = io[c].curHp - Damage]
     /\ hits' = [hits EXCEPT ![e] = @ + 1]
     /\ io' = [io EXCEPT ![c] = Handler("brodcast", e, 0)]
     /\ UNCHANGED <<client, tick, up, down, base>>

\* A mutant: the attacker is left out, as it is in the other broadcasts.
Brodcast_Others(c) ==
  /\ io[c].pc = "brodcast"
  /\ IF io[c].i = c THEN UNCHANGED down
     ELSE RequestSend(io[c].i, Packet("Attack", io[c].target))
  /\ io' = [io EXCEPT ![c] = IF io[c].i < N THEN [io[c] EXCEPT !.i = @ + 1] ELSE Waiting]
  /\ UNCHANGED <<client, hp, tick, hits, up, base>>

\* A mutant: the loop ends at the first session that is not connected.
Brodcast_Break(c) ==
  /\ io[c].pc = "brodcast"
  /\ RequestSend(io[c].i, Packet("Attack", io[c].target))
  /\ io' = [io EXCEPT ![c] =
              IF io[c].i < N /\ Connected(io[c].i) THEN [io[c] EXCEPT !.i = @ + 1] ELSE Waiting]
  /\ UNCHANGED <<client, hp, tick, hits, up, base>>

\* One turn of the loop of Brodcast(pSendBuffer, nullptr): every session, the
\* attacker's own and those without a player included.
Brodcast(c) ==
  /\ io[c].pc = "brodcast"
  /\ RequestSend(io[c].i, Packet("Attack", io[c].target))
  /\ io' = [io EXCEPT ![c] = IF io[c].i < N THEN [io[c] EXCEPT !.i = @ + 1] ELSE Waiting]
  /\ UNCHANGED <<client, hp, tick, hits, up, base>>

Handle(c) ==
  ProcessC_Spawn(c) \/ SendEnemies(c) \/ ProcessC_Attack(c) \/ SetHp(c) \/ Brodcast(c)

\* The game loop's broadcast goes on by one session.  One S_EnemyMove at a time
\* is on its way to each client, which bounds the queue.
BrodcastS_EnemyMove ==
  LET s == IF tick = 0 THEN 1 ELSE tick
  IN /\ \A k \in DOMAIN down[s] : down[s][k].id # "EnemyMove"
     /\ RequestSend(s, Packet("EnemyMove", NoEnemy))
     /\ tick' = IF s < N THEN s + 1 ELSE 0
     /\ UNCHANGED <<client, hp, io, hits, up, base>>

EnemyNext ==
  \/ \E c \in Sessions :
       \/ Connect(c) \/ SpawnPlayer(c) \/ CheckPlayerAttack(c) \/ Exit(c)
       \/ DequeuePacket(c) \/ DestroyEnemy(c)
       \/ Handle(c)
  \/ BrodcastS_EnemyMove

EnemySpec == EnemyInit /\ [][EnemyNext]_enemyVars

\* IO threads wait only for packets, and the game thread ticks.
EnemyFairSpec ==
  /\ EnemySpec
  /\ \A c \in Sessions : WF_enemyVars(Handle(c)) /\ WF_enemyVars(DequeuePacket(c))

-----------------------------------------------------------------------------
(* Properties. *)

\* Hits of e that are in client c's queue.
Pending(c, e) ==
  Cardinality({k \in DOMAIN down[c] : down[c][k] = Packet("Attack", e)})

\* However attacks of several clients, joins and departures overlap, no client
\* loses a hit or counts one twice: what its actor shows, less the hits on
\* their way to it, is what the server booked since the client came
\* (PacketHandler.cpp:231, CastleDefenseGameState.cpp:66).
HitsReach ==
  \A c \in Sessions, e \in Enemies :
    phase[c] = "level" /\ actor[c][e] \in {"alive", "dying"} =>
      shown[c][e] - Damage * (Pending(c, e) + Coming(c, e))
        = MaxHp - Damage * (hits[e] - base[c][e])

\* DecreaseHp reads and writes without a lock (EnemyManager.cpp:298-300): an
\* update may be lost and hit points may come back, but never the first
\* hit's, and no more are taken than were booked.
HpWithin ==
  \A e \in Enemies :
    /\ hp[e] >= MaxHp - Damage * hits[e]
    /\ hits[e] > 0 => hp[e] <= MaxHp - Damage

HitToDeath(c, e) == phase[c] = "level" /\ Damage * (hits[e] - base[c][e]) >= MaxHp

DiesThere(c, e) == actor[c][e] \in {"dying", "destroyed"} \/ phase[c] = "gone"

\* An enemy that has been hit to death since client c came dies there too,
\* unless the client ends, though the server never tells that it died
\* (SkeletonEnemy.cpp:167, PacketHandler.cpp:231).
EnemyDiesEverywhere ==
  \A c \in Sessions, e \in Enemies : HitToDeath(c, e) ~> DiesThere(c, e)

=============================================================================
