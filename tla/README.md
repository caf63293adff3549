# CastleDefense: TLA+ models of the game server

CastleDefense is an Unreal Engine client (`src/Source/CastleDefense`) and a Windows server
(`src/Server/ServerCore`) that exchange protocol-buffer packets over TCP. The server is built on
I/O completion ports, hand-written locks, pooled sessions and hand-written buffers. This directory
holds TLA+ models of that code, the TLC configurations that check them on small instances, and
proofs, checked by TLAPS, that the central safety properties hold for every value of the constants.

Line numbers refer to the files as text lines; many sources are in code page 949 (`EnemyManager.cpp`
and `GameServer.cpp` in UTF-16).

## The system

| part | files | state | operations |
|---|---|---|---|
| reader/writer spin lock | `Lock.cpp/.h` | one atomic word per lock, `m_order` | `WriteLock`, `WriteUnlock`, `ReadLock`, `ReadUnlock`, the two guards |
| lock order checker | `LockOrderChecker.*` | a stack of locks per thread | `Push` (asserts the order), `Pop` |
| session life cycle | `Session.*`, `SessionManager.*`, `IocpManager.*` | pool of sessions, reference count, connected flag, outstanding overlapped operations | accept, receive, send, disconnect; `AddRef`/`ReleaseRef`, `ReturnSession`; `IOThreadMain` |
| send queue | `Session::RequestSend` | `m_sendQueue`, `m_bSending`, `m_sendLock` | `RequestSend` by any thread |
| receive buffer and framing | `CircularBuffer.*`, `Session::RequestRecv/ProcessRecv` | 256 bytes, read and write position | receive, parse, shift |
| thread pool | `ThreadPool.*` | task queue, mutex, condition variable, stop flag | `EnqueueTask`, `DoTask`, `Join` |
| memory pools | `Memory.*`, `Allocator.*` | size table, interlocked free lists, a header per block | `Allocate`, `Deallocate`, `ObjectPool::Pop/Push` |
| packets | `PacketHandler.*`, client `CPacketHandler.*`, `ClientSession.cpp`, generated `test.pb.*` on both sides | message objects, send buffers | fill, measure, serialise, parse, read |
| player protocol | `PacketHandler.cpp`, `PlayerManager.cpp`, client `CPacketHandler.cpp`, `CastleDefenseGameState.cpp`, `CastleDefenseGameInstance.cpp` | players by id, session by id, each client's world | login, spawn, despawn, move, chat; broadcasts |
| enemy protocol | `PacketHandler.cpp`, `EnemyManager.cpp`, client `CPacketHandler.cpp` | enemies and hit points on both sides | enemy spawn, move, attack |
| enemies, players, octree, navigation | `EnemyManager.cpp`, `PlayerManager.cpp`, `Partitioning.cpp`, `NavigationManager.cpp` | positions, paths, boxes and the octants that list them | patrol, prediction, placing and removing boxes |
| client network | `NetworkWorker.cpp`, `ClientSession.cpp`, `CastleDefenseGameInstance.cpp` | send queue, receive buffer, two worker threads | connect, send, receive, shutdown |
| client actors | `Wizard.cpp`, `SkeletonEnemy.cpp`, `EnemyAIController.cpp`, the `*AnimInstance` and `Notify*` files, widgets | animation, hit and attack flags, hit points, blackboards, timers | packets, keys, and the engine's callbacks |

How they interact: the main thread (`IocpManager::RunIOMain`) loops over `AcceptSessions` and the
simulation of enemies and players, which broadcasts positions. Every IO thread loops in
`IOThreadMain`: it takes a completion, runs the handler of the session, which may call the packet
handlers, which may send to any session, and then releases the reference of the operation. The
state shared by these threads is the pool (under `m_rwLock`), the send queues (each under its
`m_sendLock`), the flags and counts (atomic), and the players and the id-to-session map (no lock in
use).

What is hard: releases of a reference are three separate atomic accesses; an operation can be
refused at once, fail later, or complete empty; locks are nested; messages are pushed while another
thread is between draining the queue and clearing its flag; TCP cuts the stream anywhere; asserts
vanish in the release build; the server never stops, so a resource lost once is lost for good.
`PROJECT.json` lists each hazard at its line with the properties that cover it.

## Modules

Each `MCx.tla` and `MCx*.cfg` instantiates module `x` for TLC; `xProofs.tla` holds its theorems. Three
modules hold those of two components, whose proofs do not use each other: `ClientProofs.tla`
(`ClientSession` and `ClientActors`), `PoolProofs.tla` (`ThreadPool`, and `PacketCodec` with
the memory pools and messages it uses) and `EnemyProofs.tla` (`EnemyProtocol` and `World`).
Definitions named `D_Something` next to a definition `D` are altered versions of `D` with a
plausible mistake in them; no specification uses them. They document what each property would
catch: substituting one for `D` makes TLC report the property.

### RWLock: the lock and its order checker

State: `m_lockFlag` per lock, `m_lockStack` per thread, `pc` for where a thread is inside
`WriteLock`/`ReadLock`, `expected` for the local of `ReadLock`, `guards` for the guards a thread has
constructed, oldest first. One action per atomic access: `WriteLock`/`ReadLock` enter through the
checker's `Push`, `WriteCas`, `WriteCasFails`, `ReadLoad`, `ReadCas`, `ReadCasFails` are the loop
bodies, `WriteUnlock`/`ReadUnlock` the guards' destructors. `ON_READ` (0xFFFF in the code) and
`ON_WRITE` are parameters so that TLC reaches a full reader count.

A thread may call a lock it is already inside: the checker compares orders with `<=`, and the
program does it when `AcceptEx` is refused (`AcceptSessions` holds the pool's lock,
`SessionManager.cpp:17`, and the release in `RequestAccept` ends in `ReturnSession`, which takes it
again at line 60). Such a thread spins for ever, and so does everybody who waits for its locks. Nor
does the checker order two locks of one order: all locks of sessions and of the octree have order 1.
So the two promises are relative to `Repeats`, a thread that spins for a lock of an order it is
already inside.

Properties: `MutualExclusion`, `FlagTellsHolders` (the word is exactly the guards, and the count
never passes `ON_READ + 1`, the carry into the writer half), `NoCircularWait` (what the hierarchy is
for: no set of threads waits in a circle unless one of them repeats an order), `EveryCallServed` (the
spinning ends, unless a thread repeats an order for ever).

Bounds: two threads, three locks of orders 0, 1 and 1, three calls per thread: enough for a thread
inside two locks that wants a third, for cycles through different orders and through one order, for
re-entry by readers and by writers, and for more readers than the one-bit mask counts. Fairness:
every thread that is inside a lock call or holds a guard takes its next step; this is the operating
system's scheduler and the fact that the critical sections in the code have no unbounded loop but the
locks'. Calls are bounded, so the liveness property does not promise progress against an endless
stream of readers.

### SendQueue and SendChannel: `Session::RequestSend`

The abstract `SendChannel` accepts messages and gives the oldest ones, a batch at a time, to the
socket (`Transmit`) or drops the batch (`Refuse`). `SendQueue` is the code: `PushMessage` under
`m_sendLock`, `BecomeSender`/`LeaveToSender` on the exchange of `m_bSending`, `DrainQueue`,
`WSASend`/`WSASendFails`, `ClearSending`. `IsChannel` says that it implements the channel, with
`pending` mapped to the drained batch followed by the queue. The constructor does not initialise
`m_bSending`, so `Init` takes it from `SendingInit`; the safety properties are checked from both
values.

Properties: `OneSender`, `NothingLostOrReordered`, `IsChannel`, `SendingEnds`. What the code does not
give: a message pushed after the drain and before the flag is cleared (line 341) stays in the queue
until somebody sends again. The channel therefore promises order, not delivery, and the liveness of
`PlayerProtocol` and `EnemyProtocol` is relative to further sends.

Bounds: three threads, four messages, each sent once: three callers can be at the three places that
matter (sending, drained, pushing). Fairness: a thread inside `RequestSend` goes on; nothing there
blocks except `m_sendLock`, and a thread takes its message only when it can enter it.

### RecvBuffer: the receive buffer and packet framing

A byte is a record of its packet, offset and the size in the packet's header, so a property can tell
every byte from every other. The client appends packets to `socket`; `Receive` moves any number of
bytes that fit (`MoveWritePos`); `ProcessPacket`, `PacketIncomplete`, `SizeAssertFails` are
`ProcessRecv`; `RequestRecv` shifts and resets the buffer and posts the next receive. `Builds` says
whether asserts are kept: in a build without them execution goes on after a condition that fails.
The header (8 bytes in the code) and the capacity (256) are parameters.

Properties: `StreamIntact` (window and socket are the stream still to be processed),
`ProcessedInOrder`, `AssertsHold` (neither assert fails while a client's packets fit: although one
packet at most leaves the buffer per completion, a buffer that is full always holds a whole one),
`StreamDrained`; `OversizeNeverProcessed` is proved. Since one packet is processed per completion, a
complete second packet waits until further bytes arrive: `StreamDrained` is about the socket and
does not say otherwise.

Bounds: capacity five, header two, packets of two, three, five (exactly the capacity) and six bytes,
three packets: headers and payloads are cut at every place, a packet fills the buffer, one exceeds
it. Fairness: what was sent is delivered while there is room, the IO thread finishes its handler, and
a receive posted without room completes with zero bytes (the documented behaviour of `WSARecv`).

### SessionPool: life cycle, pool and IO threads

A thread is the list of steps it still has to do (`todo`); each operator named after a function of
the code is the list of steps of that function, so that the text reads like the code and every
interleaving at the grain of an atomic access or a system call is explored. `Start`/`StartFails` are
an overlapped call that becomes pending or is refused; `Completion`/`FailedCompletion` are
`GetQueuedCompletionStatus`; `IOThreadMain` pushes the steps of the handler and of `ReleaseRef`,
or, for a failed receive or send, only those of `RequestDisconnect` (the `continue` at
`IocpManager.cpp:200`). `ProcessRecv` handles one packet for each receive; what its handler sends is one
of `Answers(s)`: messages to the session itself, which `PacketHandler.cpp` hands to `RequestSend`
without asking whether it is still connected, a `Brodcast` to the others or to all, or a `Brodcast` and
two messages. A `Brodcast` goes through `m_sessionVec`, one step for each round: the round asks for the
connection, and `RequestSend` is a later step.

Properties: `PoolAtRest` (a free session is in the pool once, unconnected, without reference or
operation, and no thread is about to do anything with it but pass it by in a round of `Brodcast` or
give back the lock it was taken under: nothing is sent to a session the accept of which may be just
ahead), `RefBalance` (the count is the operations outstanding plus those references that a step
still to be done will release: `Owed`, the set of these steps), `SingleReceiver` (one receive is
outstanding or held by a step still to be done: the unlocked receive buffer is safe),
`PoolLockReleased` (the lock is free again and again). They are about
sessions no send or receive of which has failed: for the others the code itself breaks the count,
which the run `MCSessionPoolReuse` shows (`SessionReused`: the session never gets back to the pool).
A refused `AcceptEx` makes the main thread spin on the lock it holds, so `PoolLockReleased` speaks of
behaviours in which none is refused.

Bounds: two sessions, two IO threads and the main thread, one session taken from the pool
(`MaxClients`), one send outstanding on a session, one failure. The second session stays in the pool
and is what every broadcast has to pass by; a broadcast of the main thread meets the completions of two
IO threads on the first. What several served sessions do to one another (rounds of broadcasts that
run into sends of others) is covered by the theorems, which hold for any number of them. Fairness:
threads run their steps, the main thread goes on accepting, and an outstanding operation completes
(well or badly); sends, failures and broadcasts may or may not happen.

### PlayerProtocol: login, spawn, despawn, movement and chat

The handlers of both sides over two first-in first-out queues per client, `up` and `down`. A client
is its program's progress (`phase`), the ids in its game state (`world`, `m_idToPlayer` of
`CastleDefenseGameState`) and whether it made its enemies; the server is `m_idToPlayer`, the
connected flags and `io`, where the handler of each session stands. A handler is one action up to
the first call another thread can overtake: every turn of the loop of `Brodcast` is an action, the
unlocked walk that builds the list of a newcomer has a beginning and an end (`BeginList`,
`EndList`; what came or went meanwhile may or may not be in the list, and `LostPlace` is the walk
standing on an erased element), and the list and the enemies are sent separately. `ProcessC_Move`
and `ProcessC_Despawn` use the player they look up without testing it: of an unknown id it is a null
pointer, which stops the server (`serverUp`). On the client, `ProcessS_Despawn` and
`ProcessS_Chat` of a missing key stop the program. `Exit` is the end of a program at any moment,
with any part of its outgoing queue unsent; only `C_Despawn` removes a player from the server, so
one whose program just ends stays there.

The queues deliver everything in order: what `RequestSend` may leave behind and how packets are cut
from the stream are the subject of `SendQueue` and `RecvBuffer`, and the liveness here is relative
to them. A single look-up or update of `m_idToPlayer` is atomic, although no lock protects it; only
the walk is not. Left out: positions, what the main thread broadcasts periodically (it changes
neither the maps nor who is in a world), attacks and enemies' hit points, an actor that the engine
refuses to create, and the death of a wizard.

Properties: `EveryPlayerSeen` (a client that is up to date has every player the server has, however
announcements and lists overlap), `MoverKnownUntilDespawn` (the null pointer of `UpdatePlayer` is out
of reach before the despawn), `JoinCompletes` (who asks for a player gets it and its enemies). A
client may be told to remove a player it never had, because the player is removed before its
departure is broadcast and a list can be sent in between; the client's program then stops, and the
properties speak of those that live on.

Bounds: two clients, one chat message, one `C_Move` at a time in each client's queue. The hazards are
between the handlers of two sessions and a third client only receives what one of the two already
does: the proofs, which are about all of the module's safety properties, are for any number. Fairness:
IO threads go on with a handler and with packets that wait, the client's game thread ticks, and a
connection that is asked for is accepted.
What the player and the system do (joining, quitting, closing the program) has none.

### ClientSession: the client's session and its two workers

Three threads of the client program: the game thread (`game`), the send and the receive worker
(`at`). `refs` are the threads that have a shared pointer to the session; the workers have a weak
one, which `Pin` turns into a shared one for a turn of the loop of `Run` and `Unpin` drops again.
`Release` is the drop of any of them: the last one puts its thread into `~ClientSession` (`destroyer`,
`dtor`), which stops and joins the send worker, then the receive worker. `Shutdown` and
`DestroySocket` are the two halves of the game instance's `Shutdown`. A packet is sent and read in
`Parts` calls of `Send` and `Recv`, which may be cut between any two (`SendPart`, `RecvPart`);
`SendFails` gives up the rest of a packet, which a socket that does not block may do at any moment,
before the connection is up too: `SetNonBlocking` comes before `Connect`. A worker that uses a socket
that was destroyed may stop the program (`UseDestroyedSocket`).

`m_bRunning` is a plain `bool` that two threads use; each turn of the loops that read it calls
functions the compiler cannot see into, so it is read again every time. External, from how it is used: the
engine's `TSharedPtr` counts atomically (the default of the engine version the project file names),
`DestroySocket` ends the socket, the end of the process ends its threads. Left out: what packets say
(`PlayerProtocol`), a second session (the program makes one), `~SendWorker` and `~RecvWorker`, whose
`Kill` finds a thread that has been joined.

Properties: `PinnedSessionLives` (no destructor during a turn), `SocketOutlivesWorkers` (the socket
goes after the workers, if the game thread runs the destructor), `PacketsWhole` (both streams are
whole packets in order, up to packets given up), `ShutdownEnds` and `PacketLeaves`. When a
worker drops the last pointer it runs the destructor itself, waits for its own thread and stays there
until the process ends, and the socket is destroyed meanwhile: the model has this, and the first two
properties say what is left to rely on. The program may end
before the worker has sent `C_Despawn`: nothing waits for it.

Bounds: packets of two parts, three packets out, a packet and a half in: a packet can be cut, another
one wait behind it, and a connection end in the middle of one. Fairness: the threads go on while the program
runs, and the game thread shuts down once it was told to quit, both the scheduler's and the engine's
doing; the server, the player and the socket's failures have none.

### ThreadPool and TaskRunner: the pool and the IO loops it runs

The abstract `TaskRunner` starts queued jobs in order, each once, and says it has joined only when all
have returned. `ThreadPool` is `ThreadPool.cpp` with the only use the repository makes of it:
`RunIOThreads` enqueues one endless `IOThreadMain` for every thread but one, `StopIOThreads` posts an
empty completion per thread and calls `Join`. What happens under `m_mutex` is one step (`Emplace`,
`SetStop`, the predicate of the wait with `Sleep`, `Exit` or `TakeTask`); `notify_one` and `notify_all`
are steps of their own, outside the mutex, as in the code, and `WakeUnasked` is the spurious wake-up a
condition variable may have. `LeaveLoop` is the completion without a key.

Properties: `NoLostWakeup` (while a thread sleeps, every queued task has a thread that is awake or a
notification still to come), `IsTaskRunner` (the refinement, with the queue, the tasks inside threads
and `main = "stopped"` mapped to the runner's state), `StopEnds` (a stop that began comes back).
`StopWakesAll` is proved. Bounds: three threads, two client operations; the smallest pool in which a
notification can go to a thread that finds the queue empty while another sleeps. Fairness: the
scheduler's, for the pool's threads and the owner inside its loops. `StopIOThreads` has no caller in
the repository; nothing makes it begin.

### Wire, Messages, PacketCodec, MemoryPool: packets and the memory they live in

`Wire` is the part of the protocol buffers library that generated code calls; it is external. A message
is a function from the fields that are set to their values, a packet a sequence of tokens that know
their sizes: enough to tell a forgotten has-bit, a default, a wrong field number, a varint that grows,
and a length that does not match. `Messages` is the generated code, per class: default, getters,
`IsInitialized`, `_InternalSerialize`, `ByteSizeLong`, the parse table, `CopyFrom`/`MergeFrom` of the
parts the server copies. The same `test.pb.*` are in both programs and are mapped on both sides.
`S_EnemyDespawn` exists in the schema only.

`MemoryPool` has the pools' size table as the constructor's three loops make it, and `Allocate` and
`Deallocate` at the grain of the interlocked list operations: taking a block and writing its header are
two steps, resetting the header and pushing the block are two. `PacketCodec` composes the two: a client
builds a `C_` packet, a server thread parses it and owes answers (`todo`); each answer takes a
`SendBuffer` of the size its handler asks for from the pools (`NewSendBuffer`, `Attach`), is written
into it (`WriteAnswer`), is delivered and read by the client, and whichever thread drops the last
pointer returns the block (`Release`, `Push`). `xnew`/`Construct` are other users of the pools.
`ProcessC_Chat` sizes its buffer by the client's packet, not by `ByteSizeLong`: the model keeps that.

Properties: `BlocksSound` (a block is in one place: one pool's list, one thread, one owner; and its
header agrees), `PacketFits` (what is written is as long as the header says and as the buffer is; no
size falls between the last pool, 3840 bytes, and 4096, where the table holds a null pointer:
`SizesAllocable`),
`PacketWhole` (what the receiver's getters and `ParseFromArray` give is what the sender's gave, for
missing required fields too, and the `S_Attack` case that runs on into `S_EnemyMove` moves nobody).

Bounds: two threads and two blocks, so that a block freed by one is taken by the other; ids of one and
three varint bytes, hit points below zero (ten bytes), texts of 1 and 200 bytes, a player whose parts
were released, an object beyond the largest pool, broadcasts with and without players.

What a message may hold is assumed (`MessageAssumption`): ids and texts of their types, texts that fit
the server's receive buffer (`BUF_SIZE`, 256), five enemies at most (`_MAX_ENEMY`) and lists of up to 39
players. The last is no bound of the code, only far beyond what it means to serve: there are three
sessions (`MAX_CONNECTION`) with one player each, but a player whose `C_Despawn` is lost stays in the
map, and nothing counts them. 39 is where the claim ends: a player takes 96 bytes at most, so a list of
40 with every field at its longest asks for a size in the gap. `ObjectAssumption` says of the other
things `xnew` makes that their sizes are not in the gap either: the classes are far below, and the
containers' growth steps over it. There is no liveness to claim here: nothing waits.

### EnemyProtocol: attacks on enemies

Queues `up` and `down` as in `PlayerProtocol`, which has the players' side of joining and leaving. A
client claims a hit (`CheckPlayerAttack`); the server's handler judges the distance and reads the hit
points (`ProcessC_Attack`), writes them in another step (`SetHp`, no lock) and broadcasts to every
session, one per step (`Brodcast`); the client takes the damage from its own actor
(`ProcessS_Attack`). `S_EnemySpawn` says nothing of hit points, so a client that joins after hits
starts from all of them. `hits` and `base` are history: hits booked, and those no longer on any way to
a client when it came. Packets that index an actor that is not there end the client's program, one
that was destroyed may.

Properties: `HitsReach` (an actor shows what was booked since its client came, less what is on its
way: nothing is lost or counted twice), `HpWithin` (overlapping updates may lose one another but never
take more than was booked, and the first hit's damage stays), `EnemyDiesEverywhere` (an enemy hit to
death since a client came dies there, although the server never says so). Both sides of the first one
are about a client whose connection stands: the connection is where it gets on the list that
`Brodcast` walks.

Bounds: two clients, one enemy, three attacks, so that two updates overlap and one comes after both;
hit points and damage are the code's. Fairness: IO threads handle waiting packets, the client's game
thread ticks.

### ClientActors: one level's actors on the game thread

Flags, hit points and life of each actor, the blackboard and timers of each enemy's controller, and what
perception sees. A sighting of a living wizard forgets the handle of the running timer without stopping
it (`stale`); anything else perception reports, the loss of a wizard, a dead one, or an actor that is
none, calls `SetTimer`, which restarts the timer the handle names (`armed`) or starts one. Packets, keys, animation notifies, perception and timers are actions that may come in
any order the flags allow: behaviour tree and animation assets are the engine's. `Crash` is the
engine's stop on a null pointer.

Properties: `OneHitPerSwing` (one attack hurts one wizard at most), `HitEnds` (a hit state ends though
the attack and the hit montage stop each other), `DeadLeaves` (an actor without hit points leaves the
level), `LostIsForgotten` (an enemy forgets a target lost from sight or sees it again, although each
sighting gives up the handle of the running timer, unless perception restarts that timer for ever).
Bounds: two wizards, one of them the client's own, one enemy, one actor that is neither, two hits to a
wizard's death, any number of attacks, and two timers of a controller together: the wizard is seen,
lost, seen with the handle given up, and lost again while the first timer still runs. `MaxTimers` holds
up a sighting that would give up a further handle, never a call of `SetTimer`. The engine runs on one
thread, so what matters is the order of calls, which is free. Fairness: animations end, a timer fires
unless it is started anew, and an attack key is released sometime. Left out: movement, camera, rendering, widgets, and further damage of actors
already dead.

### Octree and World: the simulation on the main thread

`Octree` is `Partitioning.cpp`: an octant is the path of signs from the root, `Move` is the sequence
`RemoveFromNode`, new extent, `PlaceInNode`. `World` composes it with the enemies' patrols
(`EnemyManager::SetNextLocation`: `BuildPath`, `ReachNode`, `Walk`) and the players' boxes
(`PlayerManager`), whose constructor leaves the corners as the memory held them. Paths come from
`BuildNodes`, external to the model: any path that starts at the enemy.

Properties: `PlacedWhereFound` (an enemy's box is listed just where `RemoveFromNode` looks for it, so it
never leaves a copy behind; players' boxes do, when they leave), `NodeInPath` (the next node is never
one that an older path left behind in `m_nodes`), `PathEnds` (a patrol reaches the end of its path).
Bounds: a tree of three levels over two points, paths of up to four nodes, two players one after the
other at one address. Fairness: the main thread's loop runs for ever.

## Runs

| run | result | shows |
|---|---|---|
| `MCRWLock` | passes, 146,524 states | exclusion, exact lock word, no circular wait, every call served |
| `MCSendQueue` | passes, 15,098 states | one sender, order kept, implements `SendChannel`, the flag is given back |
| `MCRecvBuffer` | passes, 9,775 states | framing, asserts, draining |
| `MCSessionPool` | passes, 179,792 states | free sessions left alone, reference count, one receiver, pool lock |
| `MCSessionPoolReuse` | violation | a left session is never reused |
| `MCThreadPool` | passes, 10,565 states | no lost wake-up, implements `TaskRunner`, stopping ends |
| `MCPackets` | passes, 198,800 states | blocks in one place, packets fit their buffers, both sides read the same |
| `MCPlayerProtocol` | passes, 289,959 states | players seen, movers known, joins complete |
| `MCEnemyProtocol` | passes, 110,953 states | hits reach every client once, hit points within bounds, the dead die everywhere |
| `MCClientSession` | passes, 377,437 states | session and socket outlive their users, packets whole, shutdown ends |
| `MCClientActors` | passes, 567,073 states | one hit per attack, hits end, the dead leave, lost targets are forgotten |
| `MCWorld` | passes, 12,144 states | boxes found where they are, nodes of the current path only, paths end |

`CHECK_DEADLOCK FALSE` is used where the model may really stop: all bounded messages, packets or
attacks are spent, a connection is closed, the clients or the program have ended, the pool has been
stopped, or the accept that would go on is beyond `MaxClients`. `RWLock` and `World` keep the check on:
apart from `Halt` (all calls over, or aborted) some thread can always move, and the enemy always has a
turn.

## Proofs

All proofs are for arbitrary values of the constants under the assumptions named in each module
(`ConstantsAssumption`, `SendAssumption`, `RecvAssumption`, `ProtocolAssumption`, `SessionAssumption`,
`PoolAssumption`, `EnemyAssumption`, `ActorsAssumption`, `BlockAssumption`, `FloatAssumption`,
`MainAssumption`, `MessageAssumption`, `ObjectAssumption`, `WorldAssumption`). Every invariant that a
run checks is proved.

* `RWLockProofs`: `MutualExclusion`, `FlagTellsHolders`, `NoCircularWait`. The state properties are
  not inductive: the invariant adds that the locks on a thread's stack are those of its guards and, on
  top, the one it waits for (`Aligned`), that `expected` is within the mask, and that the word counts
  the guards. `NoCircularWait` follows from `Stacks`: with asserts on, orders do not decrease along a
  stack, so a thread that does not repeat an order wants a higher one than it has, and of a set of such
  threads the one that waits for the lock of greatest order cannot be blocked by the set. Nothing is
  assumed of the orders. Finite sets are well ordered by inclusion, which gives the greatest order
  without an induction.
* `SendQueueProofs`: `OneSender`, `NothingLostOrReordered`, and `Refinement`, that `SendQueue`
  implements `SendChannel`. The invariant adds that a thread inside the lock is the one recorded and
  that only a sender between draining and sending has a batch.
* `RecvBufferProofs`: `AssertsHold`, `ProcessedInOrder`, `OversizeNeverProcessed`, `StreamIntact`. The
  invariant `Framed` describes the bytes from the read position to the end of the socket one by one:
  the first starts the first packet not processed, every packet that starts is whole, and the next
  one follows it. `RoomAfterParsing` says that after parsing there is room for a byte. `StreamIntact`
  joins packets with `FlattenSeq`, a function recursive in the number of packets. What it does when a
  packet is added at the end or taken from the front is shown by induction, in the only form this prover
  has it: over a set of numbers (`SetInduction`, from the well-ordering theorem, which takes no
  operator), here the numbers of packets for which the equation holds.
* `SessionPoolProofs`: `TypeOK`, `RefBalance`, `SingleReceiver`, `PoolAtRest`, for any number of
  sessions and IO threads and whatever the system refuses. A thread is a list of steps still to be done, so the proof
  counts the steps of a list from its end, where a step keeps its number while the steps before it
  are done. `Paired` says that each `IfDisconnected` comes with the `IfZero` that belongs to it;
  `Owes(l, s)` is the set of releases that list `l` still owes session `s`; the lemmas on `Spread`
  add these sets up over the threads, and one lemma for each kind of step says how `Owed` changes. The
  sums alone are not inductive. Resetting a session sets its count to zero, which is right only if
  nothing else is outstanding just then, and being last depends on the whole life of the session, so
  `Place` says where each session is: on the pool, being accepted, accepted, completing its accept, or
  serving. While it is being accepted the main thread's list has one of the shapes that `AcceptSessions`
  leaves (`AcceptShape`, with the release after a refused `AcceptEx` and the reset that follows); while
  it serves there is one receive, or none if one was refused. Rounds and answers enter as lists of
  any length (`Sends`), of which only those to a session that is served lead to a send. A session is disconnected only after one
  of its operations failed, which the properties leave out, so the resets that matter here are those
  inside `AcceptSessions`. The invariant is `TypeOK`, `PairedAll`, and, for sessions no
  operation of which failed, `Place` and `Balanced`. That nothing is owed when `IfZero` finds a count
  of zero is a consequence (`NothingOwed`): a session goes back to the pool only when nobody uses it; `PoolAtRest` is then what
  `Place` says of the sessions on the pool.
* `PlayerProtocolProofs`: `TypeOK`, `MoverKnownUntilDespawn` and `EveryPlayerSeen`. The first property
  speaks of the packet at the head of a queue; the invariant `SpawnsFirst` speaks of the whole queue: a
  client that may move has a player, had one, or has a `C_Spawn` in its queue, and no move is in the
  queue without one of these before it. `EveryPlayerSeen` is proved with `Seen(c, p)`: for each client
  `c` that has been sent its list and each player `p`, `p` is in the world of `c`, or on its way to it
  in a packet, or in the list still to come, or among what the broadcast of its `S_Spawn` has still to
  send. That no case is lost rests on `SpawnOnce` (a client asks for a player once), `HandlerInv` (what
  the handler of a session holds fits the place it stands at, so a broadcast that started before a
  list was built is either in the list or still ahead) and `DownInv` (a queue brings despawns only of
  players whose `C_Despawn` was handled, and a client's own player only with its list).
* `ClientProofs`, two components in one module, of which neither proof uses the other.
  `ClientSession`: `TypeOK`, `PinnedSessionLives`, `SocketOutlivesWorkers`, `PacketsWhole`. The
  invariant adds who has a shared pointer (`RefsInv`: the workers that are in a turn, and the game
  instance between connecting and shutting down), that the destructor has begun only when nobody has
  one (`DestroyerInv`), and how far it and the game thread have come (`ProgressInv`). `PacketsWhole` is
  proved for each direction. Sending: `QueueInv` (the queue holds the last packets handed over, in
  order), `WireInv` (the wire has parts of packets taken only, and ends in the part before the next one
  of the packet being sent), and every packet taken is being sent, was given up or has its end on the
  wire. Receiving: `ReadInv` (what was read is what the worker and the queue hold, and the rest of a
  packet follows), until the stream is over (`StreamOver`).
  `ClientActors`: `ActorTypeOK`, `OneHitPerSwing`. `SwingInv` adds that an enemy whose attack may
  still hurt someone (`Armed`) has hurt nobody with it.
* `PoolProofs`. `ThreadPool`: `PoolTypeOK`, `NoLostWakeup`, `StopWakesAll`, and `PoolRefines`, that
  `ThreadPool` implements `TaskRunner`. `TaskInv` says that a task is queued once, in one thread or
  finished, and that only given tasks are; `ExitInv` that nobody leaves while there are tasks and that
  those `Join` has passed have left. For `NoLostWakeup` the counts of awake threads before and after a
  step are compared.
  Memory: `BlocksSound`, for any number of threads, blocks and objects. `BlockInv` is `MemoryTypes`,
  `PoolSound` (a block on a list has that pool's size, a header of zero, and is there once),
  `HeldSound` (a block between two steps of `Allocate` or `Deallocate` is with one thread, on no list
  and without an owner, and the size the thread remembers leads to the pool it came from or goes to)
  and `OwnedSound` (the header of a block that is out leads to its pool). The last is what makes
  `Deallocate` find the pool from the header alone, and rests on lemmas about the size table
  (`SmallestPool`: a size up to the last pool has a smallest pool that holds it, by arithmetic over the
  three loops; `PoolOf`). It is kept as long as no size asked for falls in the gap of the table, for
  there `Allocate` follows a null pointer; that none does is a part of `PacketFits`, so the two are
  proved together.
  Packets: `PacketFits` and `PacketWhole`, for any messages within `MessageAssumption`, with any of
  their fields missing. `CodecInv` says of the answers still to be written that each is `Good` (as long
  as `ByteSizeLong` said, of a size that can be had, and read by the client's dispatcher as its getters
  gave it), of a thread on its way to a buffer that it asked for one of that size, of a block with an
  owner that its contents, header and length agree, and of a buffer nobody has read yet that it is out
  of the pools (`UnsentWhole`), so that no allocation writes it over; that needs `BlockInv`. That
  answers are `Good` is proved class by class, from the bottom up. `Written(s, n)`: `s` is tokens that
  take `n` bytes, for each kind of field, the parts, and the lists, whose sizes are sums
  (`TotalJoined`, by `SetInduction`). Round trips: reading merges the fields of the tokens one over the
  other; `Only(m, F)` is the message `m` of which the fields in `F` are set; reading the tokens of two
  groups of fields gives the union of both (`MergedJoined`, `ReadJoined`), each field has a number of
  its own (`PlayerTokens`), and so reading what was written of all fields gives the message back
  (`PlayerRoundtrip`, `EnemyRoundtrip`), and for lists each entry (`EntriesAll`). `PlayerViewed` says
  that this holds of the copy that `CopyFrom` makes and of what the getters give of it.
* `EnemyProofs`. `EnemyProtocol`: `EnemyTypeOK`, `HpWithin`, `HitsReach`. `HpInv` adds what a handler
  between reading and writing may have read. `HitsReach` rests on two invariants: `JoinInv` (a client
  is sent `S_EnemySpawn` at most once, and has untouched actors until it takes it, so that the reset of
  the hit points loses nothing) and `HitsInv` (for every connected client and enemy, hit points shown
  are determined by the hits given to it). The lemmas `CountAppend` and `CountTail` say how the number
  of hits in a queue changes, the latter by a bijection between the positions of a queue and its tail.
  `World`: `NodeInPath`. `PatrolInv` adds to it only that no path is longer than the room for it and
  that indices are numbers: the property is inductive because the end is looked for before each step to
  a further node and a new path resets the index. The tree and the players have no part in it.
  `PlacedWhereFound`: the way a box goes down the tree depends on its corners alone, and placing it
  gives every octant on that way children. `TreeInv` says that an enemy's box is listed once, in the
  last octant of its way, all octants of which have children still, or was never placed: no octant
  loses its children, whoever's boxes are added, and the corners change only between removal and
  placing. So `RemoveFromNode`, which stops where there are no children, stops at the same octant
  (`RemovedWherePlaced`).

Only model-checked: the liveness properties (`EveryCallServed`, `SendingEnds`, `StreamDrained`,
`PoolLockReleased`, `JoinCompletes`, `ShutdownEnds`, `PacketLeaves`, `StopEnds`, `EnemyDiesEverywhere`,
`HitEnds`, `DeadLeaves`, `LostIsForgotten`, `PathEnds`). They rest on fairness, and the prover has no
rule for `ENABLED`. `SessionReused` is the finding below.

## Findings

`MCSessionPoolReuse`: a session whose client leaves is never given to another client. The failed or
empty receive ends in the `continue` at `IocpManager.cpp:200` and keeps its reference, the disconnect
zeroes the count and releases once more. The documentation says that `DisconnectEx` is there to use the
socket again.

## Not modelled, and why

* Collision queries (`Octree::IsCollision`): one answer is not used, the others only shorten a step that
  the model lets end anywhere. Directions, speeds, yaw, prediction and clocks are arithmetic.
* Navigation: calls of the Detour library over data files; `World` takes any path.
* Generated code beyond messages (unknown fields, arenas, reflection, swapping, descriptors), and
  `S_EnemyDespawn`, which nobody builds or reads.
* `LockQueue` and `LockStack`, the connecting side of `Session`, `StopIOThreads`' effect on sessions,
  `CheckEnemyAlive`, `Buffer::Write`: without callers in the program. `DummyClient`: a stale test driver.
* Start-up and socket wrappers: straight-line calls of the system.
* Widgets, rendering, camera, movement input: the engine's, without a protocol of their own.
* The contents of the chat widget and what a name looks like.

`PROJECT.json` gives the reason for every component.

## Plan

Done: the modules and the proofs above. Worth doing next:

* `Session`, `SendQueue` and `RecvBuffer` composed under `PlayerProtocol`'s queues, to state delivery
  under the condition that somebody sends again.
* A bound in the code on the players of a list, in place of the 39 of `MessageAssumption`.
