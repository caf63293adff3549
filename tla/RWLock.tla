------------------------------- MODULE RWLock -------------------------------
(***************************************************************************)
(* The spinning reader/writer lock of ServerCore (Lock.cpp, Lock.h) and    *)
(* the per-thread lock hierarchy that LockOrderChecker.cpp enforces on it. *)
(* Locks are taken through WriteLockGuard and ReadLockGuard, so a thread   *)
(* releases them in the reverse order.  The checker pushes a lock BEFORE   *)
(* the thread has it; the spin loops are the repeated steps of one thread. *)
(* Nothing keeps a thread from calling a lock it is already inside, and    *)
(* the program does: a refused AcceptEx returns its session to the pool    *)
(* under the pool's lock (SessionManager.cpp:17, 25 and 60).               *)
(***************************************************************************)
EXTENDS Integers, SequencesExt

CONSTANTS
  Threads,    \* main thread and the IO threads
  Locks,      \* RWLock objects
  Order,      \* m_order of each lock
  ON_READ,    \* 0xFFFF: mask of the reader count
  ON_WRITE,   \* 0xFFFF0000: flag value of a writer
  AssertsOn,  \* TRUE in a build that keeps assert()
  MaxCalls    \* bound: lock calls per thread

EMPTY == 0

ASSUME ConstantsAssumption ==
  /\ IsFiniteSet(Threads)
  /\ Order \in [Locks -> Nat]
  /\ ON_READ \in Nat \ {0}
  /\ ON_WRITE \in Nat
  /\ ON_WRITE > ON_READ + 1
  /\ ON_WRITE % (ON_READ + 1) = 0
  /\ AssertsOn \in BOOLEAN
  /\ MaxCalls \in Nat

VARIABLES
  m_lockFlag,   \* the atomic word of each lock
  m_lockStack,  \* the thread_local stack of the checker
  guards,       \* the guards a thread has constructed, the oldest first
  pc,           \* where a thread is inside WriteLock or ReadLock
  expected,     \* the local of ReadLock
  calls,        \* lock calls made so far
  aborted       \* an assert has stopped the process

vars == <<m_lockFlag, m_lockStack, guards, pc, expected, calls, aborted>>

Guard == [lock : Locks, mode : {"read", "write"}]

TypeOK ==
  /\ m_lockFlag \in [Locks -> Nat]
  /\ m_lockStack \in [Threads -> Seq(Locks)]
  /\ guards \in [Threads -> Seq(Guard)]
  /\ pc \in [Threads -> {"idle", "write", "load", "cas"}]
  /\ expected \in [Threads -> Nat]
  /\ calls \in [Threads -> 0 .. MaxCalls]
  /\ aborted \in BOOLEAN

Init ==
  /\ m_lockFlag = [l \in Locks |-> EMPTY]
  /\ m_lockStack = [t \in Threads |-> <<>>]
  /\ guards = [t \in Threads |-> <<>>]
  /\ pc = [t \in Threads |-> "idle"]
  /\ expected = [t \in Threads |-> 0]
  /\ calls = [t \in Threads |-> 0]
  /\ aborted = FALSE

-----------------------------------------------------------------------------
(* LockOrderChecker *)

\* Mutant: the assert of Push is dropped.
InOrder_Unchecked(t, l) == TRUE

InOrder(t, l) ==
  m_lockStack[t] # <<>> => Order[Last(m_lockStack[t])] <= Order[l]

Push(t, l) ==
  /\ AssertsOn => InOrder(t, l)
  /\ m_lockStack' = [m_lockStack EXCEPT ![t] = Append(@, l)]

\* Pop ignores its argument and drops the top.
Pop(t) ==
  m_lockStack' = [m_lockStack EXCEPT ![t] = IF @ = <<>> THEN @ ELSE Front(@)]

-----------------------------------------------------------------------------
(* RWLock: a thread works on the top of its stack. *)

Target(t) == Last(m_lockStack[t])

\* A thread may call any lock, one it is inside included.
MayCall(t) ==
  /\ ~aborted
  /\ pc[t] = "idle"
  /\ calls[t] < MaxCalls

Call(t, l, first) ==
  /\ MayCall(t)
  /\ Push(t, l)
  /\ pc' = [pc EXCEPT ![t] = first]
  /\ calls' = [calls EXCEPT ![t] = @ + 1]
  /\ UNCHANGED <<m_lockFlag, guards, expected, aborted>>

WriteLock(t, l) == Call(t, l, "write")

ReadLock(t, l) == Call(t, l, "load")

\* The assert of Push fails and stops the process.
OrderAssertFails(t, l) ==
  /\ MayCall(t)
  /\ AssertsOn
  /\ ~InOrder(t, l)
  /\ aborted' = TRUE
  /\ UNCHANGED <<m_lockFlag, m_lockStack, guards, pc, expected, calls>>

\* The compare-exchange that ends a lock call: the guard is constructed.
Acquire(t, l, mode, flag) ==
  /\ m_lockFlag' = [m_lockFlag EXCEPT ![l] = flag]
  /\ guards' = [guards EXCEPT ![t] = Append(@, [lock |-> l, mode |-> mode])]
  /\ pc' = [pc EXCEPT ![t] = "idle"]

\* Mutant: the writer does not compare with EMPTY.
WriteCas_Unconditional(t) ==
  /\ ~aborted
  /\ pc[t] = "write"
  /\ Acquire(t, Target(t), "write", ON_WRITE)
  /\ UNCHANGED <<m_lockStack, expected, calls, aborted>>

WriteCas(t) ==
  /\ ~aborted
  /\ pc[t] = "write"
  /\ m_lockFlag[Target(t)] = EMPTY
  /\ Acquire(t, Target(t), "write", ON_WRITE)
  /\ UNCHANGED <<m_lockStack, expected, calls, aborted>>

\* A failed exchange only restores expected: the writer spins.
WriteCasFails(t) ==
  /\ ~aborted
  /\ pc[t] = "write"
  /\ m_lockFlag[Target(t)] # EMPTY
  /\ UNCHANGED vars

ReadLoad(t) ==
  /\ ~aborted
  /\ pc[t] = "load"
  /\ expected' = [expected EXCEPT ![t] = m_lockFlag[Target(t)] % (ON_READ + 1)]
  /\ pc' = [pc EXCEPT ![t] = "cas"]
  /\ UNCHANGED <<m_lockFlag, m_lockStack, guards, calls, aborted>>

\* Mutant: the reader exchanges the word it expects for itself.
ReadCas_Uncounted(t) ==
  /\ ~aborted
  /\ pc[t] = "cas"
  /\ m_lockFlag[Target(t)] = expected[t]
  /\ Acquire(t, Target(t), "read", expected[t])
  /\ UNCHANGED <<m_lockStack, expected, calls, aborted>>

ReadCas(t) ==
  /\ ~aborted
  /\ pc[t] = "cas"
  /\ m_lockFlag[Target(t)] = expected[t]
  /\ Acquire(t, Target(t), "read", expected[t] + 1)
  /\ UNCHANGED <<m_lockStack, expected, calls, aborted>>

\* Mutant: the exchange is tried again without loading the word again.
ReadCasFails_Stale(t) ==
  /\ ~aborted
  /\ pc[t] = "cas"
  /\ m_lockFlag[Target(t)] # expected[t]
  /\ UNCHANGED vars

ReadCasFails(t) ==
  /\ ~aborted
  /\ pc[t] = "cas"
  /\ m_lockFlag[Target(t)] # expected[t]
  /\ pc' = [pc EXCEPT ![t] = "load"]
  /\ UNCHANGED <<m_lockFlag, m_lockStack, guards, expected, calls, aborted>>

\* The guard constructed last goes out of scope: Pop, which takes off the top
\* of the stack whatever it is, then the atomic update of the guard's lock.
Release(t, mode, flag) ==
  /\ ~aborted
  /\ pc[t] = "idle"
  /\ guards[t] # <<>>
  /\ Last(guards[t]).mode = mode
  /\ Pop(t)
  /\ m_lockFlag' = [m_lockFlag EXCEPT ![Last(guards[t]).lock] = flag]
  /\ guards' = [guards EXCEPT ![t] = Front(@)]
  /\ UNCHANGED <<pc, expected, calls, aborted>>

FetchSub(f) == f - 1

WriteUnlock(t) == Release(t, "write", EMPTY)

ReadUnlock(t) == Release(t, "read", FetchSub(m_lockFlag[Last(guards[t]).lock]))

\* Nothing is left to do: the process was aborted, or every call is over.
Stopped ==
  \/ aborted
  \/ \A t \in Threads :
       pc[t] = "idle" /\ calls[t] = MaxCalls /\ guards[t] = <<>>

Halt == Stopped /\ UNCHANGED vars

\* The steps a thread takes by itself once it is inside a guard's scope.
Advance(t) ==
  \/ WriteCas(t)
  \/ WriteCasFails(t)
  \/ ReadLoad(t)
  \/ ReadCas(t)
  \/ ReadCasFails(t)
  \/ WriteUnlock(t)
  \/ ReadUnlock(t)

Next ==
  \/ \E t \in Threads, l \in Locks :
       \/ WriteLock(t, l)
       \/ ReadLock(t, l)
       \/ OrderAssertFails(t, l)
  \/ \E t \in Threads : Advance(t)
  \/ Halt

Spec == Init /\ [][Next]_vars

\* The scheduler runs every thread; critical sections of the code end.
FairSpec == Spec /\ \A t \in Threads : WF_vars(Advance(t))

-----------------------------------------------------------------------------
(* Properties *)

\* The guards of a lock in one mode, each named by its thread and its place
\* among the guards of that thread.
Guards(l, mode) ==
  {g \in Threads \X (1 .. MaxCalls) :
     /\ g[2] \in DOMAIN guards[g[1]]
     /\ guards[g[1]][g[2]] = [lock |-> l, mode |-> mode]}

Waiting(t) == pc[t] # "idle"

\* Lock.cpp:7 wants neither reader nor writer for a writer to enter: no two
\* guards of one lock, of two threads or of one, are alive together unless
\* both are read guards.
MutualExclusion ==
  \A l \in Locks : \A g \in Guards(l, "write") :
    Guards(l, "write") = {g} /\ Guards(l, "read") = {}

\* The word of a lock says who is inside: ON_WRITE for the writer, else the
\* number of read guards, never more than ON_READ + 1 because ReadLock masks
\* what it loads (Lock.cpp:27) and then cannot exchange a fuller word.
FlagTellsHolders ==
  \A l \in Locks :
    /\ m_lockFlag[l] = IF Guards(l, "write") # {} THEN ON_WRITE
                       ELSE Cardinality(Guards(l, "read"))
    /\ Cardinality(Guards(l, "read")) <= ON_READ + 1

\* t spins for a lock a thread of S is inside, t itself perhaps.
BlockedBy(t, S) ==
  /\ Waiting(t)
  /\ \E u \in S : \E k \in DOMAIN guards[u] : guards[u][k].lock = Target(t)

\* t spins inside a lock of the same order as the one it spins for, often that
\* lock itself: LockOrderChecker.cpp:9 compares with <= and lets it pass.
Repeats(t) ==
  /\ Waiting(t)
  /\ \E k \in DOMAIN guards[t] : Order[guards[t][k].lock] = Order[Target(t)]

\* What the hierarchy is for (LockOrderChecker.cpp:4-12): with asserts on, no
\* set of threads is blocked each by one of the set, unless one of them wants
\* a lock of an order it is already inside.
NoCircularWait ==
  AssertsOn =>
    \A S \in SUBSET {t \in Threads : ~Repeats(t)} :
      S # {} => \E t \in S : ~BlockedBy(t, S)

\* With finitely many calls the spinning of Lock.cpp:11 and :29 ends and every
\* lock call gets its lock, unless the process aborts or a thread spins for
\* ever for a lock of an order it is already inside.
EveryCallServed ==
  \A t \in Threads :
    \/ Waiting(t) ~> (~Waiting(t) \/ aborted)
    \/ \E u \in Threads : <>[]Repeats(u)

=============================================================================
