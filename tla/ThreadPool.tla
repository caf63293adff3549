----------------------------- MODULE ThreadPool -----------------------------
(***************************************************************************)
(* The thread pool of the server (ThreadPool.cpp) and what IocpManager     *)
(* does with it: RunIOThreads gives it an endless IOThreadMain for each    *)
(* thread but one, StopIOThreads posts an empty completion for each thread *)
(* and joins them.  What happens under m_mutex is one step: m_tasks and    *)
(* m_bStop are used nowhere else.  A notification is a step of its own,    *)
(* outside the mutex; a thread that is woken looks at the predicate again. *)
(***************************************************************************)
EXTENDS Naturals, FiniteSets, SequencesExt

CONSTANTS
  N,         \* threads of the pool: hardware_concurrency() + 1
  Requests,  \* operations of clients, each outstanding once at a time
  Empty      \* the completion without a key

ASSUME PoolAssumption == N \in Nat \ {0} /\ Empty \notin Requests

VARIABLES
  m_tasks,    \* tasks nobody has taken, oldest first
  m_bStop,
  pc,         \* where each thread of the pool is
  task,       \* the task it is in, 0 for none
  completion, \* the completion it handles, Empty for none
  main,       \* where the thread that owns the pool is
  i,          \* the index of the loop it is in
  m_hIocp,    \* completions nobody has taken, oldest first
  finished    \* history: tasks that have returned

poolVars == <<m_tasks, m_bStop, pc, task, completion, main, i, m_hIocp, finished>>

Workers == 0 .. N - 1
Tasks == 1 .. N - 1

PoolTypeOK ==
  /\ m_tasks \in Seq(Tasks)
  /\ m_bStop \in BOOLEAN
  /\ pc \in [Workers -> {"wait", "asleep", "loop", "handle", "exited"}]
  /\ task \in [Workers -> Tasks \cup {0}]
  /\ completion \in [Workers -> Requests \cup {Empty}]
  /\ main \in {"enqueue", "notify", "serve", "post", "notifyAll", "join", "stopped"}
  /\ i \in 0 .. N
  /\ m_hIocp \in Seq(Requests \cup {Empty})
  /\ finished \in SUBSET Tasks

\* The constructor starts the threads; nThreads - 1 tasks are to come.
PoolInit ==
  /\ m_tasks = <<>>
  /\ m_bStop = FALSE
  /\ pc = [w \in Workers |-> "wait"]
  /\ task = [w \in Workers |-> 0]
  /\ completion = [w \in Workers |-> Empty]
  /\ main = "enqueue"
  /\ i = 1
  /\ m_hIocp = <<>>
  /\ finished = {}

-----------------------------------------------------------------------------
(* The owner of the pool. *)

MainAt(here, next) == main = here /\ main' = next

\* Line 10: the task goes into the queue under the mutex.
Emplace ==
  /\ i < N
  /\ MainAt("enqueue", "notify")
  /\ m_tasks' = Append(m_tasks, i)
  /\ UNCHANGED <<m_bStop, pc, task, completion, i, m_hIocp, finished>>

Asleep == {w \in Workers : pc[w] = "asleep"}

Wake(W) == pc' = [w \in Workers |-> IF w \in W THEN "wait" ELSE pc[w]]

\* A mutant: only the first task in the queue is announced.
NotifyOne_First ==
  /\ MainAt("notify", "enqueue")
  /\ \/ (Asleep = {} \/ Len(m_tasks) > 1) /\ UNCHANGED pc
     \/ \E w \in Asleep : Len(m_tasks) = 1 /\ Wake({w})
  /\ i' = i + 1
  /\ UNCHANGED <<m_tasks, m_bStop, task, completion, m_hIocp, finished>>

\* Line 13: one of the threads that wait is woken, if there is any.
NotifyOne ==
  /\ MainAt("notify", "enqueue")
  /\ \/ Asleep = {} /\ UNCHANGED pc
     \/ \E w \in Asleep : Wake({w})
  /\ i' = i + 1
  /\ UNCHANGED <<m_tasks, m_bStop, task, completion, m_hIocp, finished>>

RunIOMain ==
  /\ i = N
  /\ MainAt("enqueue", "serve")
  /\ UNCHANGED <<m_tasks, m_bStop, pc, task, completion, i, m_hIocp, finished>>

StopIOThreads ==
  /\ MainAt("serve", "post")
  /\ i' = 0
  /\ UNCHANGED <<m_tasks, m_bStop, pc, task, completion, m_hIocp, finished>>

\* A mutant: one completion for all threads.
PostEmpty_Once ==
  /\ main = "post" /\ i < N
  /\ m_hIocp' = IF i = 0 THEN Append(m_hIocp, Empty) ELSE m_hIocp
  /\ i' = i + 1
  /\ UNCHANGED <<m_tasks, m_bStop, pc, task, completion, main, finished>>

PostEmpty ==
  /\ main = "post" /\ i < N
  /\ m_hIocp' = Append(m_hIocp, Empty)
  /\ i' = i + 1
  /\ UNCHANGED <<m_tasks, m_bStop, pc, task, completion, main, finished>>

\* Lines 37-40.
SetStop ==
  /\ i = N
  /\ MainAt("post", "notifyAll")
  /\ m_bStop' = TRUE
  /\ UNCHANGED <<m_tasks, pc, task, completion, i, m_hIocp, finished>>

\* Line 42.
NotifyAll ==
  /\ MainAt("notifyAll", "join")
  /\ Wake(Asleep)
  /\ i' = 0
  /\ UNCHANGED <<m_tasks, m_bStop, task, completion, m_hIocp, finished>>

\* Lines 43-49: a thread is waited for until it has returned.
JoinThread ==
  /\ main = "join" /\ i < N
  /\ pc[i] = "exited"
  /\ i' = i + 1
  /\ UNCHANGED <<m_tasks, m_bStop, pc, task, completion, main, m_hIocp, finished>>

JoinReturns ==
  /\ i = N
  /\ MainAt("join", "stopped")
  /\ UNCHANGED <<m_tasks, m_bStop, pc, task, completion, i, m_hIocp, finished>>

Owner ==
  \/ Emplace \/ NotifyOne \/ RunIOMain
  \/ PostEmpty \/ SetStop \/ NotifyAll \/ JoinThread \/ JoinReturns

-----------------------------------------------------------------------------
(* The threads of the pool: DoTask and the IOThreadMain it runs. *)

Goto(w, here, next) ==
  /\ pc[w] = here
  /\ pc' = [pc EXCEPT ![w] = next]

\* Line 22: the predicate is false, the thread sleeps and the mutex is free.
Sleep(w) ==
  /\ m_tasks = <<>> /\ ~m_bStop
  /\ Goto(w, "wait", "asleep")
  /\ UNCHANGED <<m_tasks, m_bStop, task, completion, main, i, m_hIocp, finished>>

\* A condition variable may wake a thread that nobody notified.
WakeUnasked(w) ==
  /\ Goto(w, "asleep", "wait")
  /\ UNCHANGED <<m_tasks, m_bStop, task, completion, main, i, m_hIocp, finished>>

\* A mutant: a thread that sees m_bStop leaves its tasks.
Exit_Early(w) ==
  /\ m_bStop
  /\ Goto(w, "wait", "exited")
  /\ UNCHANGED <<m_tasks, m_bStop, task, completion, main, i, m_hIocp, finished>>

\* Lines 23-26.
Exit(w) ==
  /\ m_bStop /\ m_tasks = <<>>
  /\ Goto(w, "wait", "exited")
  /\ UNCHANGED <<m_tasks, m_bStop, task, completion, main, i, m_hIocp, finished>>

\* Lines 28-31.
TakeTask(w) ==
  /\ m_tasks # <<>>
  /\ Goto(w, "wait", "loop")
  /\ task' = [task EXCEPT ![w] = Head(m_tasks)]
  /\ m_tasks' = Tail(m_tasks)
  /\ UNCHANGED <<m_bStop, completion, main, i, m_hIocp, finished>>

\* GetQueuedCompletionStatus gives the oldest completion.
TakeCompletion(w) ==
  /\ m_hIocp # <<>>
  /\ Head(m_hIocp) # Empty
  /\ Goto(w, "loop", "handle")
  /\ completion' = [completion EXCEPT ![w] = Head(m_hIocp)]
  /\ m_hIocp' = Tail(m_hIocp)
  /\ UNCHANGED <<m_tasks, m_bStop, task, main, i, finished>>

\* The handler of the completion returns and the loop goes on.
Handled(w) ==
  /\ Goto(w, "handle", "loop")
  /\ completion' = [completion EXCEPT ![w] = Empty]
  /\ UNCHANGED <<m_tasks, m_bStop, task, main, i, m_hIocp, finished>>

\* A completion without a key ends the loop, and with it the task.
LeaveLoop(w) ==
  /\ m_hIocp # <<>>
  /\ Head(m_hIocp) = Empty
  /\ Goto(w, "loop", "wait")
  /\ finished' = finished \cup {task[w]}
  /\ task' = [task EXCEPT ![w] = 0]
  /\ m_hIocp' = Tail(m_hIocp)
  /\ UNCHANGED <<m_tasks, m_bStop, completion, main, i>>

Worker(w) ==
  \/ Sleep(w) \/ Exit(w) \/ TakeTask(w)
  \/ TakeCompletion(w) \/ Handled(w) \/ LeaveLoop(w)

-----------------------------------------------------------------------------
\* The system reports that an operation of a client has ended.
Complete(r) ==
  /\ \A w \in Workers : completion[w] # r
  /\ r \notin Range(m_hIocp)
  /\ m_hIocp' = Append(m_hIocp, r)
  /\ UNCHANGED <<m_tasks, m_bStop, pc, task, completion, main, i, finished>>

PoolNext ==
  \/ Owner
  \/ StopIOThreads
  \/ \E w \in Workers : Worker(w) \/ WakeUnasked(w)
  \/ \E r \in Requests : Complete(r)

PoolSpec == PoolInit /\ [][PoolNext]_poolVars

\* The scheduler runs every thread; a condition variable need not wake anybody
\* unasked, clients need not send, and nobody need stop the pool.
PoolFairness == WF_poolVars(Owner) /\ \A w \in Workers : WF_poolVars(Worker(w))

PoolFairSpec == PoolSpec /\ PoolFairness

-----------------------------------------------------------------------------
(* Properties. *)

\* While a thread sleeps, every task in the queue has a thread that is awake to
\* look at the predicate, or its notification is still to come: EnqueueTask
\* notifies after it left the mutex, and the notified thread may find that
\* another one was faster.
NoLostWakeup ==
  Asleep # {} =>
    Len(m_tasks) <= Cardinality({w \in Workers : pc[w] = "wait"})
                    + (IF main = "notify" THEN 1 ELSE 0)

\* After notify_all nobody sleeps: a thread that looks at the predicate later
\* sees m_bStop.
StopWakesAll == main \in {"join", "stopped"} => Asleep = {}

\* The pool starts the tasks in order and each once, and Join comes back only
\* when all have returned.
Runner == INSTANCE TaskRunner WITH
  Jobs <- Tasks,
  queued <- m_tasks,
  running <- {task[w] : w \in Workers} \ {0},
  joined <- main = "stopped"

IsTaskRunner == Runner!Spec

\* Once begun, StopIOThreads comes back: every loop gets a completion without a
\* key, every thread then sees m_bStop and returns, asleep or not.
StopEnds == main = "post" ~> main = "stopped"

=============================================================================
