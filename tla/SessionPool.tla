---------------------------- MODULE SessionPool ----------------------------
(***************************************************************************)
(* The life of the pooled sessions: SessionManager's pool, the reference   *)
(* count of a Session, and the IO threads that run the completion of every *)
(* overlapped operation (SessionManager.cpp, Session.cpp, IocpManager.cpp).*)
(*                                                                         *)
(* A thread is a list of steps still to be done, todo[t].  Each operator   *)
(* named after a function of the code is the list of the steps of that     *)
(* function; a step is what happens without another thread seeing an       *)
(* intermediate state: one atomic operation, one call into the system, or  *)
(* one access to the pool under its lock.                                  *)
(***************************************************************************)
EXTENDS Integers, SequencesExt

CONSTANTS
  Sessions,      \* the MAX_CONNECTION sessions of PrepareSessions
  m_sessionVec,  \* all of them, in the order in which Brodcast goes through them
  Main,          \* the thread of RunIOMain
  IoThreads,     \* the threads of IOThreadMain
  NoThread,      \* nobody holds m_rwLock
  MayFail,       \* operations the system may refuse at once
  MaxClients,    \* bound: sessions taken from the pool
  MaxSends,      \* bound: sends outstanding on a session
  MaxFailures    \* bound: sends and receives that fail after they were started

ASSUME PoolAssumption ==
  /\ IsFiniteSet(Sessions)
  /\ m_sessionVec \in SetToSeqs(Sessions)
  /\ Main \notin IoThreads
  /\ NoThread \notin IoThreads \cup {Main}
  /\ MayFail \subseteq {"ACCEPT", "RECV", "SEND", "DISCONNECT"}
  /\ MaxClients \in Nat
  /\ MaxSends \in Nat
  /\ MaxFailures \in Nat

Threads == IoThreads \cup {Main}

IoTypes == {"ACCEPT", "RECV", "SEND", "DISCONNECT"}

VARIABLES
  m_sessionPool,   \* free sessions, taken from and returned to the back
  m_rwLock,        \* the thread inside the pool's lock
  m_nCurSessions,
  m_nRef, m_bConnected,   \* of each session
  pending,         \* outstanding operations of each session and type
  todo,            \* the steps each thread has still to do
  clients,         \* sessions taken from the pool so far
  failures,        \* sends and receives failed so far
  broken,          \* history: sessions a send or receive failed on
  deaf             \* history: sessions that WSARecv was refused for

vars == <<m_sessionPool, m_rwLock, m_nCurSessions, m_nRef, m_bConnected,
          pending, todo, clients, failures, broken, deaf>>

StepNames == IoTypes \cup
  {"AddRef", "Decrement", "IfDisconnected", "IfZero", "Connected", "Disconnected",
   "ZeroRef", "Count", "Lock", "Unlock", "PushPool", "IfConnected",
   "Brodcast", "RequestSend"}

TypeOK ==
  /\ m_sessionPool \in Seq(Sessions)
  /\ m_rwLock \in Threads \cup {NoThread}
  /\ m_nCurSessions \in Int
  /\ m_nRef \in [Sessions -> Int]
  /\ m_bConnected \in [Sessions -> BOOLEAN]
  /\ pending \in [Sessions -> [IoTypes -> Nat]]
  /\ todo \in [Threads -> Seq([do : StepNames, s : Sessions])]
  /\ clients \in 0 .. MaxClients
  /\ failures \in 0 .. MaxFailures
  /\ broken \in SUBSET Sessions
  /\ deaf \in SUBSET Sessions

-----------------------------------------------------------------------------
(* The functions, as lists of steps *)

Step(do, s) == [do |-> do, s |-> s]

ReleaseRef(s) == <<Step("Decrement", s), Step("IfDisconnected", s)>>

\* Mutant: the operation may complete before its reference is counted.
Request_StartFirst(io, s) == <<Step(io, s), Step("AddRef", s)>>

\* Count the reference, then start the operation.
Request(io, s) == <<Step("AddRef", s), Step(io, s)>>

RequestAccept(s) == Request("ACCEPT", s)
RequestRecv(s) == Request("RECV", s)
RequestDisconnect(s) == Request("DISCONNECT", s)

ResetSession(s) == <<Step("Disconnected", s), Step("ZeroRef", s)>>

\* Mutant: the pool's lock is kept.
ReturnSession_NoUnlock(s) ==
  <<Step("Lock", s)>> \o ResetSession(s) \o <<Step("PushPool", s)>>

ReturnSession(s) ==
  <<Step("Lock", s)>> \o ResetSession(s) \o <<Step("PushPool", s), Step("Unlock", s)>>

\* Mutant: the first receive is posted before the session is connected.
ProcessAccept_RecvFirst(s) ==
  RequestRecv(s) \o <<Step("Connected", s), Step("Count", s)>>

ProcessAccept(s) == <<Step("Connected", s), Step("Count", s)>> \o RequestRecv(s)

ProcessRecv(s) == <<Step("IfConnected", s)>>

\* One step for each round of the loop.
Brodcast(sessions) == [i \in DOMAIN sessions |-> Step("Brodcast", sessions[i])]

AllBut(s) ==
  RemoveAt(m_sessionVec, CHOOSE i \in DOMAIN m_sessionVec : m_sessionVec[i] = s)

\* What the handlers send for a packet of session s: a part of a packet or a
\* C_Move nothing, C_Login one message to s, C_Chat and C_Despawn one to the
\* others, C_Spawn another two to s, and C_Attack one to everybody.
Answers(s) ==
  LET own == Step("RequestSend", s)
  IN  {<<>>, <<own>>, Brodcast(AllBut(s)), Brodcast(AllBut(s)) \o <<own, own>>,
       Brodcast(m_sessionVec)}

ProcessDisconnect(s) == <<Step("Disconnected", s)>> \o ResetSession(s)

Process(io, s) ==
  CASE io = "ACCEPT" -> ProcessAccept(s)
    [] io = "RECV" -> ProcessRecv(s)
    [] io = "SEND" -> <<>>
    [] io = "DISCONNECT" -> ProcessDisconnect(s)

\* IOThreadMain on a good completion: the handler, then the reference.
Complete(io, s) == Process(io, s) \o ReleaseRef(s)

\* IOThreadMain on a failed or empty send or receive: continue skips both the
\* release of the reference and the return of the overlapped.
Abandon(s) == <<Step("Disconnected", s)>> \o RequestDisconnect(s)

-----------------------------------------------------------------------------

Init ==
  /\ m_sessionPool = m_sessionVec
  /\ m_rwLock = NoThread
  /\ m_nCurSessions = 0
  /\ m_nRef = [s \in Sessions |-> 0]
  /\ m_bConnected = [s \in Sessions |-> FALSE]
  /\ pending = [s \in Sessions |-> [io \in IoTypes |-> 0]]
  /\ todo = [t \in Threads |-> <<>>]
  /\ clients = 0
  /\ failures = 0
  /\ broken = {}
  /\ deaf = {}

\* The next step of thread t is do on session s; further steps come before
\* the rest of its list.
Does(t, do, s, further) ==
  /\ todo[t] # <<>>
  /\ Head(todo[t]) = Step(do, s)
  /\ todo' = [todo EXCEPT ![t] = further \o Tail(@)]

AddRef(t, s) ==
  /\ Does(t, "AddRef", s, <<>>)
  /\ m_nRef' = [m_nRef EXCEPT ![s] = @ + 1]
  /\ UNCHANGED <<m_sessionPool, m_rwLock, m_nCurSessions, m_bConnected,
                 pending, clients, failures, broken, deaf>>

\* AcceptEx, WSARecv, WSASend or DisconnectEx: the operation is pending.
Start(t, io, s) ==
  /\ Does(t, io, s, <<>>)
  /\ pending' = [pending EXCEPT ![s][io] = @ + 1]
  /\ UNCHANGED <<m_sessionPool, m_rwLock, m_nCurSessions, m_nRef, m_bConnected,
                 clients, failures, broken, deaf>>

\* Mutant: the reference of a refused operation is kept.
StartFails_NoRelease(t, io, s) ==
  /\ io \in MayFail
  /\ Does(t, io, s, <<>>)
  /\ UNCHANGED <<m_sessionPool, m_rwLock, m_nCurSessions, m_nRef, m_bConnected,
                 pending, clients, failures, broken, deaf>>

\* The call fails at once and the reference is released.
StartFails(t, io, s) ==
  /\ io \in MayFail
  /\ Does(t, io, s, ReleaseRef(s))
  /\ deaf' = IF io = "RECV" THEN deaf \cup {s} ELSE deaf
  /\ UNCHANGED <<m_sessionPool, m_rwLock, m_nCurSessions, m_nRef, m_bConnected,
                 pending, clients, failures, broken>>

\* ReleaseRef is three separate atomic accesses.
Decrement(t, s) ==
  /\ Does(t, "Decrement", s, <<>>)
  /\ m_nRef' = [m_nRef EXCEPT ![s] = @ - 1]
  /\ UNCHANGED <<m_sessionPool, m_rwLock, m_nCurSessions, m_bConnected,
                 pending, clients, failures, broken, deaf>>

IfDisconnected(t, s) ==
  /\ Does(t, "IfDisconnected", s,
          IF m_bConnected[s] THEN <<>> ELSE <<Step("IfZero", s)>>)
  /\ UNCHANGED <<m_sessionPool, m_rwLock, m_nCurSessions, m_nRef, m_bConnected,
                 pending, clients, failures, broken, deaf>>

IfZero(t, s) ==
  /\ Does(t, "IfZero", s, IF m_nRef[s] = 0 THEN ReturnSession(s) ELSE <<>>)
  /\ UNCHANGED <<m_sessionPool, m_rwLock, m_nCurSessions, m_nRef, m_bConnected,
                 pending, clients, failures, broken, deaf>>

SetConnection(t, s) ==
  /\ \/ /\ Does(t, "Connected", s, <<>>)
        /\ m_bConnected' = [m_bConnected EXCEPT ![s] = TRUE]
     \/ /\ Does(t, "Disconnected", s, <<>>)
        /\ m_bConnected' = [m_bConnected EXCEPT ![s] = FALSE]
  /\ UNCHANGED <<m_sessionPool, m_rwLock, m_nCurSessions, m_nRef,
                 pending, clients, failures, broken, deaf>>

ZeroRef(t, s) ==
  /\ Does(t, "ZeroRef", s, <<>>)
  /\ m_nRef' = [m_nRef EXCEPT ![s] = 0]
  /\ UNCHANGED <<m_sessionPool, m_rwLock, m_nCurSessions, m_bConnected,
                 pending, clients, failures, broken, deaf>>

IncreaseConnectionCount(t, s) ==
  /\ Does(t, "Count", s, <<>>)
  /\ m_nCurSessions' = m_nCurSessions + 1
  /\ UNCHANGED <<m_sessionPool, m_rwLock, m_nRef, m_bConnected,
                 pending, clients, failures, broken, deaf>>

\* WriteLockGuard on m_rwLock; a thread that is inside spins on itself.
Lock(t, s) ==
  /\ m_rwLock = NoThread
  /\ Does(t, "Lock", s, <<>>)
  /\ m_rwLock' = t
  /\ UNCHANGED <<m_sessionPool, m_nCurSessions, m_nRef, m_bConnected,
                 pending, clients, failures, broken, deaf>>

Unlock(t, s) ==
  /\ Does(t, "Unlock", s, <<>>)
  /\ m_rwLock' = NoThread
  /\ UNCHANGED <<m_sessionPool, m_nCurSessions, m_nRef, m_bConnected,
                 pending, clients, failures, broken, deaf>>

PushPool(t, s) ==
  /\ Does(t, "PushPool", s, <<>>)
  /\ m_sessionPool' = Append(m_sessionPool, s)
  /\ m_nCurSessions' = m_nCurSessions - 1
  /\ UNCHANGED <<m_rwLock, m_nRef, m_bConnected, pending, clients, failures, broken, deaf>>

\* ProcessRecv: nothing for a session that is no longer connected, else the
\* packet is handled and receiving goes on.
IfConnected(t, s) ==
  /\ \/ /\ m_bConnected[s]
        /\ \E answers \in Answers(s) :
             Does(t, "IfConnected", s, answers \o RequestRecv(s))
     \/ /\ ~m_bConnected[s]
        /\ Does(t, "IfConnected", s, <<>>)
  /\ UNCHANGED <<m_sessionPool, m_rwLock, m_nCurSessions, m_nRef, m_bConnected,
                 pending, clients, failures, broken, deaf>>

\* Mutant: free sessions are sent to as well.
BrodcastRound_Everybody(t, s) ==
  /\ Does(t, "Brodcast", s, <<Step("RequestSend", s)>>)
  /\ UNCHANGED <<m_sessionPool, m_rwLock, m_nCurSessions, m_nRef, m_bConnected,
                 pending, clients, failures, broken, deaf>>

\* GetConnection is asked once, before the message is queued.
BrodcastRound(t, s) ==
  /\ Does(t, "Brodcast", s, IF m_bConnected[s] THEN <<Step("RequestSend", s)>> ELSE <<>>)
  /\ UNCHANGED <<m_sessionPool, m_rwLock, m_nCurSessions, m_nRef, m_bConnected,
                 pending, clients, failures, broken, deaf>>

\* The caller becomes the sender, or only joins the queue of another one;
\* nothing asks whether the session is still connected.
RequestSend(t, s) ==
  /\ \/ /\ pending[s]["SEND"] < MaxSends
        /\ Does(t, "RequestSend", s, Request("SEND", s))
     \/ Does(t, "RequestSend", s, <<>>)
  /\ UNCHANGED <<m_sessionPool, m_rwLock, m_nCurSessions, m_nRef, m_bConnected,
                 pending, clients, failures, broken, deaf>>

\* AcceptSessions takes the lock, leaves when the pool is empty, and otherwise
\* calls AcceptEx inside the lock.
AcceptSessions ==
  /\ todo[Main] = <<>>
  /\ m_rwLock = NoThread
  /\ m_sessionPool # <<>>
  /\ clients < MaxClients
  /\ LET s == Last(m_sessionPool)
     IN  todo' = [todo EXCEPT ![Main] = RequestAccept(s) \o <<Step("Unlock", s)>>]
  /\ m_rwLock' = Main
  /\ m_sessionPool' = Front(m_sessionPool)
  /\ clients' = clients + 1
  /\ UNCHANGED <<m_nCurSessions, m_nRef, m_bConnected, pending, failures, broken, deaf>>

\* SetNextLocation of the simulation loop broadcasts a move to everybody.
MainBroadcasts ==
  /\ todo[Main] = <<>>
  /\ todo' = [todo EXCEPT ![Main] = Brodcast(m_sessionVec)]
  /\ UNCHANGED <<m_sessionPool, m_rwLock, m_nCurSessions, m_nRef, m_bConnected,
                 pending, clients, failures, broken, deaf>>

Dequeue(t, io, s) ==
  /\ todo[t] = <<>>
  /\ pending[s][io] > 0
  /\ pending' = [pending EXCEPT ![s][io] = @ - 1]
  /\ UNCHANGED <<m_sessionPool, m_rwLock, m_nCurSessions, m_nRef, m_bConnected>>

\* GetQueuedCompletionStatus returns a completed operation.
Completion(t, io, s) ==
  /\ Dequeue(t, io, s)
  /\ todo' = [todo EXCEPT ![t] = Complete(io, s)]
  /\ UNCHANGED <<clients, failures, broken, deaf>>

\* It returns a send or receive that failed, or that moved no byte.
FailedCompletion(t, io, s) ==
  /\ io \in {"RECV", "SEND"}
  /\ failures < MaxFailures
  /\ Dequeue(t, io, s)
  /\ todo' = [todo EXCEPT ![t] = Abandon(s)]
  /\ failures' = failures + 1
  /\ broken' = broken \cup {s}
  /\ UNCHANGED <<clients, deaf>>

Run(t) ==
  \E s \in Sessions :
    \/ AddRef(t, s)
    \/ \E io \in IoTypes : Start(t, io, s) \/ StartFails(t, io, s)
    \/ Decrement(t, s)
    \/ IfDisconnected(t, s)
    \/ IfZero(t, s)
    \/ SetConnection(t, s)
    \/ ZeroRef(t, s)
    \/ IncreaseConnectionCount(t, s)
    \/ Lock(t, s)
    \/ Unlock(t, s)
    \/ PushPool(t, s)
    \/ IfConnected(t, s)
    \/ BrodcastRound(t, s)
    \/ RequestSend(t, s)

IOThreadMain(t) ==
  \E s \in Sessions, io \in IoTypes : Completion(t, io, s) \/ FailedCompletion(t, io, s)

Next ==
  \/ \E t \in Threads : Run(t)
  \/ \E t \in IoThreads : IOThreadMain(t)
  \/ AcceptSessions
  \/ MainBroadcasts

Spec == Init /\ [][Next]_vars

\* Threads that run their lists, completions that arrive; clients, failures
\* and broadcasts may or may not come.
FairSpec ==
  /\ Spec
  /\ \A t \in Threads : WF_vars(Run(t))
  /\ WF_vars(AcceptSessions)
  /\ \A s \in Sessions, io \in IoTypes :
       WF_vars(\E t \in IoThreads : Completion(t, io, s) \/ FailedCompletion(t, io, s))

-----------------------------------------------------------------------------
(* Properties *)

\* The steps still to be done, each told by its thread and by how far it is
\* from the end of the list, which stays as long as the step does.
Undone == UNION {{t} \X (1 .. Len(todo[t])) : t \in Threads}
StepAt(t, n) == todo[t][Len(todo[t]) + 1 - n]

\* References to s that a thread will release, and the one it is about to give
\* to an operation.
Owed(s) ==
  {p \in Undone :
     \/ StepAt(p[1], p[2]) = Step("Decrement", s)
     \/ /\ p[2] = Len(todo[p[1]])
        /\ StepAt(p[1], p[2]) \in {Step(io, s) : io \in IoTypes}}

Outstanding(s) ==
  pending[s]["ACCEPT"] + pending[s]["RECV"] + pending[s]["SEND"] + pending[s]["DISCONNECT"]

\* The reference count of a session is what the AddRef and ReleaseRef calls
\* of its operations make it (Session.cpp:15-26): one for each outstanding
\* operation and one for each completion still being handled, whatever calls
\* the system refuses, as long as no send or receive of it has failed.
RefBalance ==
  \A s \in Sessions \ broken :
    m_nRef[s] = Outstanding(s) + Cardinality(Owed(s))

\* The receives of s that a handler is still to process or to post, and those
\* that are outstanding.
Receivers(s) ==
  {p \in Undone : StepAt(p[1], p[2]) \in {Step("RECV", s), Step("IfConnected", s)}}

Receiving(s) == pending[s]["RECV"] + Cardinality(Receivers(s))

\* The receive buffer has no lock in use (m_recvLock is never taken): it is
\* safe because a session has one receive at most.  A connected session never
\* stops listening, unless a send or receive of it has failed.
SingleReceiver ==
  \A s \in Sessions \ broken :
    /\ Receiving(s) <= 1
    /\ m_bConnected[s] /\ s \notin deaf => Receiving(s) = 1

\* The pool's lock is not kept for ever, so AcceptSessions can go on: true as
\* long as AcceptEx is never refused.
PoolLockReleased == []<>(m_rwLock = NoThread)

\* A free session is left alone: AcceptSessions takes it out of the pool before
\* it is used, and Brodcast, which goes through all sessions, passes it by
\* (SessionManager.cpp:79).  It is in the pool once, it has no reference and no
\* operation, and nobody is about to start one.
PoolAtRest ==
  /\ \A i, j \in DOMAIN m_sessionPool :
       m_sessionPool[i] = m_sessionPool[j] => i = j \/ m_sessionPool[i] \in broken
  /\ \A s \in Range(m_sessionPool) \ broken :
       /\ ~m_bConnected[s] /\ m_nRef[s] = 0 /\ Outstanding(s) = 0
       /\ \A t \in Threads : \A i \in DOMAIN todo[t] :
            todo[t][i].s = s => todo[t][i].do \in {"Brodcast", "Unlock"}

\* DisconnectEx ends a connection so that the socket can be used again
\* (Documents, AcceptEx page, line 64): a session whose connection ended gets
\* back to the pool.
SessionReused ==
  \A s \in Sessions : s \in broken ~> s \in Range(m_sessionPool)

=============================================================================
