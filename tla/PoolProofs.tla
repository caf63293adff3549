----------------------------- MODULE PoolProofs -----------------------------
(***************************************************************************)
(* Proofs about the server's pools and what is built in their blocks.      *)
(*   ThreadPool, for any number of threads and clients: a notification is  *)
(* never lost, notify_all leaves nobody asleep, and the pool keeps the     *)
(* promise of TaskRunner.                                                  *)
(*   MemoryPool as PacketCodec uses it, for any number of threads and      *)
(* blocks and any messages: a block is in one place at a time, an answer   *)
(* has the length its header and its buffer say, and what either side      *)
(* reads is what the other one wrote.  The way there: sizes and pools;     *)
(* blocks; how long what is written is; what reading gives of it, for the  *)
(* parts, the players and enemies, the lists and the packets; what threads *)
(* and buffers hold, and each step.                                        *)
(*   The proof about ThreadPool and the others do not use each other.      *)
(***************************************************************************)
EXTENDS ThreadPool, PacketCodec, SequenceTheorems, FiniteSetTheorems,
        WellFoundedInduction, TLAPS

-----------------------------------------------------------------------------
(* The pool of threads *)

\* How far the owner is says what i counts and whether m_bStop is set.
OwnerInv ==
  /\ main \in {"enqueue", "notify"} => i \in 1 .. N
  /\ main = "notify" => i < N
  /\ m_bStop <=> main \in {"notifyAll", "join", "stopped"}

\* Nobody leaves while there are tasks; those Join has passed have left.
ExitInv ==
  /\ \A w \in Workers : pc[w] = "exited" => m_bStop /\ m_tasks = <<>>
  /\ main = "join" => \A w \in 0 .. i - 1 : pc[w] = "exited"

Queued == {m_tasks[k] : k \in 1 .. Len(m_tasks)}

\* The tasks that have been in the queue.
Given == {j \in Tasks : (main = "enqueue" => j < i) /\ (main = "notify" => j <= i)}

\* A task is queued once, in one thread, or finished.
TaskInv ==
  /\ Queued \subseteq Given
  /\ \A j, k \in 1 .. Len(m_tasks) : m_tasks[j] = m_tasks[k] => j = k
  /\ \A w \in Workers : task[w] # 0 => task[w] \in Given \ (Queued \cup finished)
  /\ \A v, w \in Workers : task[v] = task[w] /\ v # w => task[v] = 0
  /\ finished \subseteq Given \ Queued
  /\ \A w \in Workers : pc[w] \in {"loop", "handle"} <=> task[w] # 0

PoolInv == PoolTypeOK /\ OwnerInv /\ ExitInv /\ TaskInv

-----------------------------------------------------------------------------
(* Typing *)

LEMMA PoolTypeInit == PoolInit => PoolTypeOK /\ OwnerInv /\ ExitInv /\ TaskInv
  BY PoolAssumption, EmptySeq
  DEF PoolInit, PoolTypeOK, OwnerInv, ExitInv, TaskInv, Queued, Given, Workers, Tasks

LEMMA PoolTypeNext ==
  ASSUME PoolTypeOK, OwnerInv, TaskInv, [PoolNext]_poolVars
  PROVE  PoolTypeOK' /\ OwnerInv'
<1> USE PoolAssumption DEF PoolTypeOK, OwnerInv, Workers, Tasks
<1>1. ASSUME Emplace PROVE PoolTypeOK' /\ OwnerInv'
  <2>1. i \in 1 .. N - 1 /\ m_tasks \in Seq(1 .. N - 1)
    BY <1>1 DEF Emplace, MainAt
  <2>2. m_tasks' \in Seq(1 .. N - 1)
    BY <1>1, <2>1, AppendProperties DEF Emplace
  <2> QED
    BY <1>1, <2>1, <2>2 DEF Emplace, MainAt
<1>2. ASSUME NotifyOne PROVE PoolTypeOK' /\ OwnerInv'
  <2>1. pc' \in [Workers -> {"wait", "asleep", "loop", "handle", "exited"}]
    BY <1>2 DEF NotifyOne, Wake
  <2>2. main = "notify" /\ main' = "enqueue" /\ i \in 1 .. N - 1 /\ i' = i + 1
    BY <1>2 DEF NotifyOne, MainAt
  <2> QED
    BY <1>2, <2>1, <2>2 DEF NotifyOne
<1>3. ASSUME RunIOMain \/ StopIOThreads \/ SetStop \/ JoinThread \/ JoinReturns
      PROVE  PoolTypeOK' /\ OwnerInv'
  <2>1. CASE RunIOMain \/ StopIOThreads
    <3>1. /\ main \in {"enqueue", "serve"} /\ main' \in {"serve", "post"}
          /\ UNCHANGED <<m_tasks, m_bStop, pc, task, completion, m_hIocp, finished>>
          /\ i' \in 0 .. N
      BY <2>1 DEF RunIOMain, StopIOThreads, MainAt
    <3> QED
      BY <3>1
  <2>2. CASE SetStop
    BY <2>2 DEF SetStop, MainAt
  <2>3. CASE JoinThread
    BY <2>3 DEF JoinThread
  <2>4. CASE JoinReturns
    BY <2>4 DEF JoinReturns, MainAt
  <2> QED
    BY <1>3, <2>1, <2>2, <2>3, <2>4
<1>4. ASSUME PostEmpty PROVE PoolTypeOK' /\ OwnerInv'
  <2>1. m_hIocp' \in Seq(Requests \cup {Empty})
    BY <1>4, AppendProperties DEF PostEmpty
  <2> QED
    BY <1>4, <2>1 DEF PostEmpty
<1>5. ASSUME NotifyAll PROVE PoolTypeOK' /\ OwnerInv'
  <2>1. pc' \in [Workers -> {"wait", "asleep", "loop", "handle", "exited"}]
    BY <1>5 DEF NotifyAll, Wake
  <2>2. main = "notifyAll" /\ main' = "join" /\ i' = 0 /\ 0 \in 0 .. N
    BY <1>5 DEF NotifyAll, MainAt
  <2>3. UNCHANGED <<m_tasks, m_bStop, task, completion, m_hIocp, finished>>
    BY <1>5 DEF NotifyAll
  <2> QED
    BY <2>1, <2>2, <2>3
<1>6. ASSUME NEW w \in Workers, Sleep(w) \/ WakeUnasked(w) \/ Exit(w)
      PROVE  PoolTypeOK' /\ OwnerInv'
  <2>1. pc' \in [Workers -> {"wait", "asleep", "loop", "handle", "exited"}]
    BY <1>6 DEF Sleep, WakeUnasked, Exit, Goto
  <2>2. UNCHANGED <<m_tasks, m_bStop, task, completion, main, i, m_hIocp, finished>>
    BY <1>6 DEF Sleep, WakeUnasked, Exit
  <2> QED
    BY <2>1, <2>2
<1>7. ASSUME NEW w \in Workers, TakeTask(w) PROVE PoolTypeOK' /\ OwnerInv'
  <2>1. Head(m_tasks) \in Tasks /\ m_tasks' \in Seq(Tasks)
    BY <1>7, HeadTailProperties DEF TakeTask
  <2> QED
    BY <1>7, <2>1 DEF TakeTask, Goto
<1>8. ASSUME NEW w \in Workers, TakeCompletion(w) \/ LeaveLoop(w)
      PROVE  PoolTypeOK' /\ OwnerInv'
  <2>1. m_hIocp # <<>> /\ m_hIocp' = Tail(m_hIocp)
    BY <1>8 DEF TakeCompletion, LeaveLoop
  <2>2. Head(m_hIocp) \in Requests \cup {Empty} /\ m_hIocp' \in Seq(Requests \cup {Empty})
    BY <2>1, HeadTailProperties
  <2>3. CASE TakeCompletion(w)
    BY <2>2, <2>3 DEF TakeCompletion, Goto
  <2>4. CASE LeaveLoop(w)
    <3>1. task[w] \in Tasks
      BY <2>4 DEF LeaveLoop, Goto, TaskInv
    <3> QED
      BY <2>2, <2>4, <3>1 DEF LeaveLoop, Goto
  <2> QED
    BY <1>8, <2>3, <2>4
<1>9. ASSUME NEW w \in Workers, Handled(w) PROVE PoolTypeOK' /\ OwnerInv'
  BY <1>9 DEF Handled, Goto
<1>10. ASSUME NEW r \in Requests, Complete(r) PROVE PoolTypeOK' /\ OwnerInv'
  <2>1. m_hIocp' \in Seq(Requests \cup {Empty})
    BY <1>10, AppendProperties DEF Complete
  <2> QED
    BY <1>10, <2>1 DEF Complete
<1>11. ASSUME UNCHANGED poolVars PROVE PoolTypeOK' /\ OwnerInv'
  BY <1>11 DEF poolVars
<1> QED
  BY <1>1, <1>2, <1>3, <1>4, <1>5, <1>6, <1>7, <1>8, <1>9, <1>10, <1>11
  DEF PoolNext, Owner, Worker

-----------------------------------------------------------------------------
(* The threads *)

LEMMA ExitNext ==
  ASSUME PoolTypeOK, OwnerInv, ExitInv, [PoolNext]_poolVars
  PROVE  ExitInv'
<1> USE PoolAssumption DEF PoolTypeOK, OwnerInv, ExitInv, Workers
<1>1. ASSUME Emplace PROVE ExitInv'
  BY <1>1 DEF Emplace, MainAt
<1>2. ASSUME NotifyOne PROVE ExitInv'
  BY <1>2 DEF NotifyOne, MainAt, Wake, Asleep
<1>3. ASSUME RunIOMain \/ StopIOThreads \/ PostEmpty PROVE ExitInv'
  BY <1>3 DEF RunIOMain, StopIOThreads, PostEmpty, MainAt
<1>4. ASSUME SetStop PROVE ExitInv'
  BY <1>4 DEF SetStop, MainAt
<1>5. ASSUME NotifyAll PROVE ExitInv'
  BY <1>5 DEF NotifyAll, MainAt, Wake, Asleep
<1>6. ASSUME JoinThread PROVE ExitInv'
  <2>1. \A w \in 0 .. i : pc[w] = "exited"
    BY <1>6 DEF JoinThread
  <2> QED
    BY <1>6, <2>1 DEF JoinThread
<1>7. ASSUME JoinReturns PROVE ExitInv'
  BY <1>7 DEF JoinReturns, MainAt
<1>8. ASSUME NEW w \in Workers, Sleep(w) PROVE ExitInv'
  BY <1>8 DEF Sleep, Goto
<1>9. ASSUME NEW w \in Workers, WakeUnasked(w) PROVE ExitInv'
  BY <1>9 DEF WakeUnasked, Goto
<1>10. ASSUME NEW w \in Workers, Exit(w) PROVE ExitInv'
  BY <1>10 DEF Exit, Goto
<1>11. ASSUME NEW w \in Workers, TakeTask(w) PROVE ExitInv'
  BY <1>11 DEF TakeTask, Goto
<1>12. ASSUME NEW w \in Workers, TakeCompletion(w) \/ Handled(w) \/ LeaveLoop(w)
       PROVE  ExitInv'
  <2>1. UNCHANGED <<m_tasks, m_bStop, main, i>>
    BY <1>12 DEF TakeCompletion, Handled, LeaveLoop
  <2>2. \A v \in Workers : pc'[v] = "exited" <=> pc[v] = "exited"
    <3> HIDE DEF ExitInv, OwnerInv
    <3>1. CASE TakeCompletion(w)
      BY <3>1 DEF TakeCompletion, Goto
    <3>2. CASE Handled(w)
      BY <3>2 DEF Handled, Goto
    <3>3. CASE LeaveLoop(w)
      BY <3>3 DEF LeaveLoop, Goto
    <3> QED
      BY <1>12, <3>1, <3>2, <3>3
  <2>3. main = "join" => \A v \in 0 .. i - 1 : pc'[v] = "exited"
    BY <2>2
  <2> QED
    BY <2>1, <2>2, <2>3
<1>13. ASSUME NEW r \in Requests, Complete(r) PROVE ExitInv'
  BY <1>13 DEF Complete
<1>14. ASSUME UNCHANGED poolVars PROVE ExitInv'
  BY <1>14 DEF poolVars
<1> QED
  BY <1>1, <1>2, <1>3, <1>4, <1>5, <1>6, <1>7, <1>8, <1>9, <1>10, <1>11, <1>12, <1>13, <1>14
  DEF PoolNext, Owner, Worker

\* A step that leaves the queue, the tasks in hand and those finished alone.
LEMMA TaskSame ==
  ASSUME PoolTypeOK, TaskInv, UNCHANGED <<m_tasks, task, finished>>, Given \subseteq Given',
         \A w \in Workers : pc'[w] \in {"loop", "handle"} <=> pc[w] \in {"loop", "handle"}
  PROVE  TaskInv'
<1>1. Queued' = Queued
  BY DEF Queued
<1> QED
  BY <1>1 DEF TaskInv

LEMMA EmplaceTasks ==
  ASSUME PoolTypeOK, OwnerInv, TaskInv, Emplace
  PROVE  TaskInv'
<1>1. /\ i \in Tasks /\ m_tasks \in Seq(Tasks) /\ m_tasks' = Append(m_tasks, i)
      /\ main = "enqueue" /\ main' = "notify" /\ UNCHANGED <<pc, task, i, finished>>
  BY PoolAssumption DEF PoolTypeOK, OwnerInv, Emplace, MainAt, Tasks
<1>2. /\ Len(m_tasks') = Len(m_tasks) + 1
      /\ \A k \in 1 .. Len(m_tasks) : m_tasks'[k] = m_tasks[k]
      /\ m_tasks'[Len(m_tasks) + 1] = i
  BY <1>1, AppendProperties
<1>3. Len(m_tasks) \in Nat
  BY <1>1, LenProperties
<1>4. Queued' = Queued \cup {i}
  BY <1>2, <1>3 DEF Queued
<1>5. Given' = Given \cup {i} /\ i \notin Given
  BY <1>1, PoolAssumption DEF Given, Tasks
<1>6. \A j, k \in 1 .. Len(m_tasks') : m_tasks'[j] = m_tasks'[k] => j = k
  <2>1. \A k \in 1 .. Len(m_tasks) : m_tasks[k] \in Given
    BY DEF TaskInv, Queued
  <2> QED
    BY <1>2, <1>3, <1>5, <2>1 DEF TaskInv
<1> QED
  BY <1>1, <1>4, <1>5, <1>6 DEF TaskInv

LEMMA TakeTasks ==
  ASSUME PoolTypeOK, OwnerInv, TaskInv, NEW w \in Workers, TakeTask(w)
  PROVE  /\ TaskInv'
         /\ Head(m_tasks) \notin finished /\ \A v \in Workers : task[v] # Head(m_tasks)
<1> DEFINE h == Head(m_tasks)
<1>1. /\ m_tasks \in Seq(Tasks) /\ m_tasks # <<>> /\ m_tasks' = Tail(m_tasks)
      /\ task' = [task EXCEPT ![w] = h] /\ pc[w] = "wait" /\ pc' = [pc EXCEPT ![w] = "loop"]
      /\ UNCHANGED <<main, i, finished>>
  BY DEF PoolTypeOK, TakeTask, Goto
<1>2. /\ Len(m_tasks) \in Nat /\ Len(m_tasks) > 0 /\ h = m_tasks[1] /\ h \in Tasks
      /\ Len(m_tasks') = Len(m_tasks) - 1
      /\ \A k \in 1 .. Len(m_tasks') : m_tasks'[k] = m_tasks[k + 1]
  BY <1>1, HeadTailProperties, LenProperties, EmptySeq
<1>3. h \in Queued
  BY <1>2 DEF Queued
<1>4. Queued' = Queued \ {h}
  <2>1. \A k \in 2 .. Len(m_tasks) : m_tasks[k] # h
    BY <1>2 DEF TaskInv
  <2>2. Queued' \subseteq Queued \ {h}
    BY <1>2, <2>1 DEF Queued
  <2>3. ASSUME NEW k \in 2 .. Len(m_tasks) PROVE m_tasks[k] \in Queued'
    <3>1. k - 1 \in 1 .. Len(m_tasks') /\ m_tasks'[k - 1] = m_tasks[k]
      BY <1>2
    <3> QED
      BY <3>1 DEF Queued
  <2>4. ASSUME NEW q \in Queued, q # h PROVE q \in Queued'
    <3>1. PICK k \in 1 .. Len(m_tasks) : q = m_tasks[k]
      BY DEF Queued
    <3>2. k # 1
      BY <1>2, <2>4, <3>1
    <3>3. k \in 2 .. Len(m_tasks)
      BY <1>2, <3>1, <3>2
    <3> QED
      BY <2>3, <3>1, <3>3
  <2> HIDE DEF h
  <2> QED
    BY <2>2, <2>4
<1>5. Given' = Given
  BY <1>1 DEF Given
<1>6. h \in Given \ finished /\ h # 0 /\ \A v \in Workers : task[v] # h
  BY <1>2, <1>3 DEF TaskInv, Tasks
<1>7. \A j, k \in 1 .. Len(m_tasks') : m_tasks'[j] = m_tasks'[k] => j = k
  BY <1>2 DEF TaskInv
<1>8. \A v \in Workers : /\ task'[v] = (IF v = w THEN h ELSE task[v])
                          /\ pc'[v] = (IF v = w THEN "loop" ELSE pc[v])
  BY <1>1 DEF PoolTypeOK
<1> HIDE DEF h
<1>9. TaskInv'
  BY <1>1, <1>4, <1>5, <1>6, <1>7, <1>8 DEF TaskInv
<1> QED
  BY <1>6, <1>9 DEF h

LEMMA LeaveTasks ==
  ASSUME PoolTypeOK, TaskInv, NEW w \in Workers, LeaveLoop(w)
  PROVE  TaskInv'
<1>1. /\ pc[w] = "loop" /\ UNCHANGED <<m_tasks, main, i>>
      /\ finished' = finished \cup {task[w]}
      /\ \A v \in Workers : /\ task'[v] = (IF v = w THEN 0 ELSE task[v])
                             /\ pc'[v] = (IF v = w THEN "wait" ELSE pc[v])
  BY DEF PoolTypeOK, LeaveLoop, Goto
<1>2. Queued' = Queued /\ Given' = Given
  BY <1>1 DEF Queued, Given
<1>3. task[w] # 0 /\ \A v \in Workers : v # w => task[v] # task[w]
  BY <1>1 DEF TaskInv
<1> QED
  BY <1>1, <1>2, <1>3 DEF TaskInv

LEMMA TaskNext ==
  ASSUME PoolTypeOK, OwnerInv, TaskInv, [PoolNext]_poolVars
  PROVE  TaskInv'
<1>1. ASSUME NotifyOne PROVE TaskInv'
  <2>1. Given \subseteq Given'
    BY <1>1, PoolAssumption DEF NotifyOne, MainAt, Given, PoolTypeOK, OwnerInv, Tasks
  <2>2. \A w \in Workers : pc'[w] \in {"loop", "handle"} <=> pc[w] \in {"loop", "handle"}
    BY <1>1 DEF NotifyOne, Wake, Asleep
  <2> QED
    BY <1>1, <2>1, <2>2, TaskSame DEF NotifyOne
<1>2. ASSUME RunIOMain \/ StopIOThreads \/ PostEmpty \/ SetStop \/ JoinThread \/ JoinReturns
      PROVE  TaskInv'
  <2>1. Given \subseteq Given' /\ UNCHANGED <<pc, m_tasks, task, finished>>
    BY <1>2 DEF RunIOMain, StopIOThreads, PostEmpty, SetStop, JoinThread, JoinReturns, MainAt, Given
  <2> QED
    BY <2>1, TaskSame
<1>3. ASSUME NotifyAll PROVE TaskInv'
  <2>1. Given \subseteq Given'
    BY <1>3 DEF NotifyAll, MainAt, Given
  <2>2. \A w \in Workers : pc'[w] \in {"loop", "handle"} <=> pc[w] \in {"loop", "handle"}
    BY <1>3 DEF NotifyAll, Wake, Asleep
  <2> QED
    BY <1>3, <2>1, <2>2, TaskSame DEF NotifyAll
<1>4. ASSUME NEW w \in Workers,
             Sleep(w) \/ WakeUnasked(w) \/ Exit(w) \/ TakeCompletion(w) \/ Handled(w)
      PROVE  TaskInv'
  <2>1. Given \subseteq Given' /\ UNCHANGED <<m_tasks, task, finished>>
    BY <1>4 DEF Sleep, WakeUnasked, Exit, TakeCompletion, Handled, Given
  <2>2. \A v \in Workers : pc'[v] \in {"loop", "handle"} <=> pc[v] \in {"loop", "handle"}
    BY <1>4 DEF Sleep, WakeUnasked, Exit, TakeCompletion, Handled, Goto, PoolTypeOK
  <2> QED
    BY <2>1, <2>2, TaskSame
<1>5. ASSUME NEW r \in Requests, Complete(r) PROVE TaskInv'
  BY <1>5, TaskSame DEF Complete, Given
<1>6. ASSUME UNCHANGED poolVars PROVE TaskInv'
  BY <1>6, TaskSame DEF poolVars, Given
<1> QED
  BY <1>1, <1>2, <1>3, <1>4, <1>5, <1>6, EmplaceTasks, TakeTasks, LeaveTasks
  DEF PoolNext, Owner, Worker

\* PoolInv is inductive.
THEOREM PoolInductive == PoolSpec => []PoolInv
<1>1. PoolInv /\ [PoolNext]_poolVars => PoolInv'
  BY PoolTypeNext, ExitNext, TaskNext DEF PoolInv
<1>2. PoolInit => PoolInv
  BY PoolTypeInit DEF PoolInv
<1> QED
  BY <1>1, <1>2, PTL DEF PoolSpec

\* Every variable of the pool keeps its type.
THEOREM PoolTypeCorrect == PoolSpec => []PoolTypeOK
  BY PoolInductive, PTL DEF PoolInv

-----------------------------------------------------------------------------
(* Notifications *)

Awake == {w \in Workers : pc[w] = "wait"}

LEMMA AwakeFinite ==
  /\ IsFiniteSet(Awake) /\ Cardinality(Awake) \in Nat
  /\ IsFiniteSet(Awake') /\ Cardinality(Awake') \in Nat
<1>1. IsFiniteSet(Workers)
  BY PoolAssumption, FS_Interval DEF Workers
<1> QED
  BY <1>1, FS_Subset, FS_CardinalityType DEF Awake

\* What a step that takes at most one thread out of Awake may do.
LEMMA OneLessAwake ==
  ASSUME NEW w \in Workers, Awake \ {w} \subseteq Awake'
  PROVE  /\ Cardinality(Awake') + 1 >= Cardinality(Awake)
         /\ w \notin Awake => Cardinality(Awake') >= Cardinality(Awake)
         /\ w \notin Awake /\ w \in Awake' => Cardinality(Awake') >= Cardinality(Awake) + 1
<1>1. IsFiniteSet(Awake) /\ Cardinality(Awake) \in Nat
  BY AwakeFinite
<1>2. IsFiniteSet(Awake') /\ Cardinality(Awake') \in Nat
  BY AwakeFinite
<1>3. Cardinality(Awake \ {w}) = IF w \in Awake THEN Cardinality(Awake) - 1 ELSE Cardinality(Awake)
  BY <1>1, FS_RemoveElement
<1>4. Cardinality(Awake \ {w}) <= Cardinality(Awake')
  BY <1>2, FS_Subset
<1>5. ASSUME w \notin Awake, w \in Awake'
      PROVE  Cardinality(Awake') >= Cardinality(Awake) + 1
  <2>1. Cardinality(Awake \cup {w}) = Cardinality(Awake) + 1
    BY <1>1, <1>5, FS_AddElement
  <2>2. Awake \cup {w} \subseteq Awake'
    BY <1>5
  <2>3. Cardinality(Awake \cup {w}) <= Cardinality(Awake')
    BY <1>2, <2>2, FS_Subset
  <2> QED
    BY <2>1, <2>3
<1> QED
  BY <1>1, <1>2, <1>3, <1>4, <1>5

\* Under the invariants, no step loses a notification.
LEMMA WakeupNext ==
  ASSUME PoolTypeOK, OwnerInv, NoLostWakeup, [PoolNext]_poolVars
  PROVE  NoLostWakeup'
<1> DEFINE told == IF main = "notify" THEN 1 ELSE 0
<1> USE AwakeFinite
<1>0. Len(m_tasks) \in Nat /\ (Asleep # {} => Len(m_tasks) <= Cardinality(Awake) + told)
  BY LenProperties DEF PoolTypeOK, NoLostWakeup, Awake
<1>1. SUFFICES ASSUME Asleep' # {} PROVE Len(m_tasks') <= Cardinality(Awake') + told'
  BY DEF NoLostWakeup, Awake
<1>2. ASSUME Emplace PROVE Len(m_tasks') <= Cardinality(Awake') + told'
  <2>1. /\ m_tasks \in Seq(Tasks) /\ i \in Tasks /\ m_tasks' = Append(m_tasks, i)
        /\ main = "enqueue" /\ main' = "notify" /\ pc' = pc
    BY <1>2, PoolAssumption DEF PoolTypeOK, OwnerInv, Emplace, MainAt, Tasks
  <2>2. Len(m_tasks') = Len(m_tasks) + 1
    BY <2>1, AppendProperties
  <2> QED
    BY <1>0, <1>1, <2>1, <2>2 DEF Asleep, Awake
<1>3. ASSUME NotifyOne PROVE Len(m_tasks') <= Cardinality(Awake') + told'
  <2>1. PICK w \in Asleep : Wake({w})
    BY <1>1, <1>3 DEF NotifyOne, Asleep
  <2>2. w \in Workers /\ w \notin Awake /\ w \in Awake' /\ Awake \ {w} \subseteq Awake'
    BY <2>1 DEF Wake, Asleep, Awake
  <2>3. Cardinality(Awake') >= Cardinality(Awake) + 1
    BY <2>2, OneLessAwake
  <2> QED
    BY <1>0, <1>3, <2>1, <2>3 DEF NotifyOne, MainAt
<1>4. ASSUME RunIOMain \/ StopIOThreads \/ PostEmpty \/ SetStop \/ JoinThread \/ JoinReturns
      PROVE  Len(m_tasks') <= Cardinality(Awake') + told'
  <2>1. UNCHANGED <<pc, m_tasks>> /\ main # "notify" /\ main' # "notify"
    BY <1>4 DEF RunIOMain, StopIOThreads, PostEmpty, SetStop, JoinThread, JoinReturns, MainAt
  <2> QED
    BY <1>0, <1>1, <2>1 DEF Asleep, Awake
<1>5. ASSUME NotifyAll PROVE FALSE
  BY <1>1, <1>5 DEF NotifyAll, Wake, Asleep
<1>6. ASSUME NEW w \in Workers, Sleep(w) \/ Exit(w)
      PROVE  Len(m_tasks') <= Cardinality(Awake') + told'
  <2>1. Len(m_tasks') = 0
    BY <1>6, EmptySeq DEF Sleep, Exit
  <2> QED
    BY <2>1
<1>7. ASSUME NEW w \in Workers, WakeUnasked(w)
      PROVE  Len(m_tasks') <= Cardinality(Awake') + told'
  <2>1. /\ w \notin Awake /\ w \in Awake' /\ Awake \ {w} \subseteq Awake' /\ Asleep # {}
        /\ UNCHANGED <<m_tasks, main>>
    BY <1>7 DEF WakeUnasked, Goto, Awake, Asleep, PoolTypeOK
  <2> QED
    BY <1>0, <2>1, OneLessAwake
<1>8. ASSUME NEW w \in Workers, TakeTask(w)
      PROVE  Len(m_tasks') <= Cardinality(Awake') + told'
  <2>1. /\ Awake \ {w} \subseteq Awake' /\ Asleep' = Asleep
        /\ m_tasks \in Seq(Tasks) /\ m_tasks # <<>> /\ m_tasks' = Tail(m_tasks) /\ main' = main
    BY <1>8 DEF TakeTask, Goto, Awake, Asleep, PoolTypeOK
  <2>2. Len(m_tasks') = Len(m_tasks) - 1
    BY <2>1, HeadTailProperties
  <2>3. Cardinality(Awake') + 1 >= Cardinality(Awake)
    BY <2>1, OneLessAwake
  <2> QED
    BY <1>0, <1>1, <2>1, <2>2, <2>3
<1>9. ASSUME NEW w \in Workers, TakeCompletion(w) \/ Handled(w) \/ LeaveLoop(w)
      PROVE  Len(m_tasks') <= Cardinality(Awake') + told'
  <2>1. /\ w \notin Awake /\ Awake \ {w} \subseteq Awake' /\ Asleep' = Asleep
        /\ UNCHANGED <<m_tasks, main>>
    BY <1>9 DEF TakeCompletion, Handled, LeaveLoop, Goto, Awake, Asleep, PoolTypeOK
  <2> QED
    BY <1>0, <1>1, <2>1, OneLessAwake
<1>10. ASSUME (\E r \in Requests : Complete(r)) \/ UNCHANGED poolVars
       PROVE  Len(m_tasks') <= Cardinality(Awake') + told'
  <2>1. UNCHANGED <<pc, m_tasks, main>>
    BY <1>10 DEF Complete, poolVars
  <2> QED
    BY <1>0, <1>1, <2>1 DEF Asleep, Awake
<1> QED
  BY <1>2, <1>3, <1>4, <1>5, <1>6, <1>7, <1>8, <1>9, <1>10 DEF PoolNext, Owner, Worker

\* EnqueueTask notifies outside the mutex and wakes at most one thread, and
\* still no task lies in the queue with nobody on the way to it while a thread
\* sleeps.
THEOREM NoLostWakeupHolds == PoolSpec => []NoLostWakeup
<1>1. PoolInit => NoLostWakeup
  BY DEF PoolInit, NoLostWakeup, Asleep
<1>2. PoolInv /\ NoLostWakeup /\ [PoolNext]_poolVars => NoLostWakeup'
  BY WakeupNext DEF PoolInv
<1> QED
  BY <1>1, <1>2, PoolInductive, PTL DEF PoolSpec

\* After ~ThreadPool's notify_all no thread sleeps, nor falls asleep again:
\* Join waits for threads that run.
THEOREM StopWakesAllHolds == PoolSpec => []StopWakesAll
<1>1. PoolInit => StopWakesAll
  BY DEF PoolInit, StopWakesAll
<1>2. ASSUME PoolInv, StopWakesAll, [PoolNext]_poolVars PROVE StopWakesAll'
  <2>1. ASSUME Owner \/ StopIOThreads PROVE StopWakesAll'
    <3>1. CASE Emplace \/ NotifyOne \/ RunIOMain \/ StopIOThreads \/ PostEmpty \/ SetStop
      <4>1. main' \notin {"join", "stopped"}
        BY <3>1 DEF Emplace, NotifyOne, RunIOMain, StopIOThreads, PostEmpty, SetStop, MainAt
      <4> QED
        BY <4>1 DEF StopWakesAll
    <3>2. CASE NotifyAll
      BY <3>2 DEF NotifyAll, Wake, Asleep, StopWakesAll
    <3>3. CASE JoinThread \/ JoinReturns
      <4>1. main = "join" /\ pc' = pc
        BY <3>3 DEF JoinThread, JoinReturns, MainAt
      <4> QED
        BY <1>2, <4>1 DEF StopWakesAll, Asleep
    <3> QED
      BY <2>1, <3>1, <3>2, <3>3 DEF Owner
  <2>2. ASSUME NEW w \in Workers, Sleep(w) PROVE StopWakesAll'
    BY <1>2, <2>2 DEF Sleep, StopWakesAll, PoolInv, OwnerInv
  <2>3. ASSUME NEW w \in Workers,
               \/ Exit(w) \/ TakeTask(w) \/ WakeUnasked(w)
               \/ TakeCompletion(w) \/ Handled(w) \/ LeaveLoop(w)
        PROVE  StopWakesAll'
    <3>1. Asleep' \subseteq Asleep /\ main' = main
      BY <1>2, <2>3 DEF Exit, TakeTask, WakeUnasked, TakeCompletion, Handled, LeaveLoop,
                        Goto, Asleep, PoolInv, PoolTypeOK
    <3> QED
      BY <1>2, <3>1 DEF StopWakesAll
  <2>4. ASSUME (\E r \in Requests : Complete(r)) \/ UNCHANGED poolVars PROVE StopWakesAll'
    BY <1>2, <2>4 DEF Complete, poolVars, StopWakesAll, Asleep
  <2> QED
    BY <1>2, <2>1, <2>2, <2>3, <2>4 DEF PoolNext, Worker
<1> QED
  BY <1>1, <1>2, PoolInductive, PTL DEF PoolSpec

-----------------------------------------------------------------------------
(* The promise of TaskRunner *)

Running == {task[w] : w \in Workers} \ {0}

LEMMA GiveStep ==
  ASSUME PoolInv, Emplace
  PROVE  Runner!Next
<1>1. i \in Tasks /\ UNCHANGED <<task, finished>> /\ m_tasks' = Append(m_tasks, i)
  BY PoolAssumption DEF PoolInv, OwnerInv, Emplace, MainAt, Tasks
<1>2. main # "stopped" /\ main' # "stopped"
  BY DEF Emplace, MainAt
<1>3. Runner!Give(i)
  BY <1>1, <1>2 DEF Runner!Give
<1> QED
  BY <1>1, <1>3 DEF Runner!Next

LEMMA StartStep ==
  ASSUME PoolInv, NEW w \in Workers, TakeTask(w)
  PROVE  Runner!Next
<1>1. /\ m_tasks # <<>> /\ m_tasks' = Tail(m_tasks) /\ UNCHANGED <<main, finished>>
      /\ pc[w] = "wait"
      /\ task' = [task EXCEPT ![w] = Head(m_tasks)]
  BY DEF TakeTask, Goto
<1>2. Head(m_tasks) \notin finished /\ \A v \in Workers : task[v] # Head(m_tasks)
  BY TakeTasks DEF PoolInv
<1>3. Head(m_tasks) # 0
  BY <1>1, HeadTailProperties, PoolAssumption DEF PoolInv, PoolTypeOK, Tasks
<1>4. task[w] = 0 /\ \A v \in Workers : task'[v] = IF v = w THEN Head(m_tasks) ELSE task[v]
  BY <1>1 DEF PoolInv, PoolTypeOK, TaskInv
<1>5. Running' = Running \cup {Head(m_tasks)}
  BY <1>3, <1>4 DEF Running
<1>6. Runner!Start
  BY <1>1, <1>2, <1>5 DEF Runner!Start, Running
<1> QED
  BY <1>6 DEF Runner!Next

LEMMA FinishStep ==
  ASSUME PoolInv, NEW w \in Workers, LeaveLoop(w)
  PROVE  Runner!Next
<1>1. /\ pc[w] = "loop" /\ UNCHANGED <<m_tasks, main>>
      /\ finished' = finished \cup {task[w]}
      /\ task' = [task EXCEPT ![w] = 0]
  BY DEF LeaveLoop, Goto
<1>2. task[w] \in Tasks /\ task[w] # 0 /\ \A v \in Workers : v # w => task[v] # task[w]
  BY <1>1 DEF PoolInv, PoolTypeOK, TaskInv
<1>3. \A v \in Workers : task'[v] = IF v = w THEN 0 ELSE task[v]
  BY <1>1 DEF PoolInv, PoolTypeOK
<1>4. Running' = Running \ {task[w]} /\ task[w] \in Running
  BY <1>2, <1>3 DEF Running
<1>5. PICK j \in Tasks : j = task[w]
  BY <1>2
<1>6. Runner!Finish(j)
  BY <1>1, <1>4, <1>5 DEF Runner!Finish, Running
<1> QED
  BY <1>6 DEF Runner!Next

LEMMA JoinStep ==
  ASSUME PoolInv, JoinReturns
  PROVE  Runner!Next
<1>1. \A w \in Workers : pc[w] = "exited"
  BY PoolAssumption DEF PoolInv, ExitInv, JoinReturns, MainAt, Workers
<1>2. m_tasks = <<>> /\ Running = {}
  <2>1. 0 \in Workers
    BY PoolAssumption DEF Workers
  <2> QED
    BY <1>1, <2>1 DEF PoolInv, ExitInv, TaskInv, Running
<1>3. Runner!JoinReturns
  BY <1>2 DEF JoinReturns, MainAt, Runner!JoinReturns, Running
<1> QED
  BY <1>3 DEF Runner!Next

LEMMA PoolStutters ==
  ASSUME PoolInv,
         \/ NotifyOne \/ RunIOMain \/ StopIOThreads \/ PostEmpty \/ SetStop \/ NotifyAll \/ JoinThread
         \/ \E w \in Workers : \/ Sleep(w) \/ WakeUnasked(w) \/ Exit(w)
                              \/ TakeCompletion(w) \/ Handled(w)
         \/ \E r \in Requests : Complete(r)
         \/ UNCHANGED poolVars
  PROVE  UNCHANGED Runner!runnerVars
<1>1. UNCHANGED <<m_tasks, task, finished>>
  BY DEF NotifyOne, RunIOMain, StopIOThreads, PostEmpty, SetStop, NotifyAll, JoinThread, Sleep,
         WakeUnasked, Exit, TakeCompletion, Handled, Complete, poolVars
<1>2. main' = "stopped" <=> main = "stopped"
  BY DEF NotifyOne, RunIOMain, StopIOThreads, PostEmpty, SetStop, NotifyAll, JoinThread, Sleep,
         WakeUnasked, Exit, TakeCompletion, Handled, Complete, poolVars, MainAt
<1> QED
  BY <1>1, <1>2 DEF Runner!runnerVars

\* The pool implements TaskRunner: whatever threads are notified, late, early
\* or not at all, tasks start in order and once, and Join comes back when all
\* that were given have returned.
THEOREM PoolRefines == PoolSpec => IsTaskRunner
<1>1. PoolInit => Runner!Init
  <2>1. PoolInit => Running = {} /\ main # "stopped"
    BY DEF PoolInit, Running
  <2> QED
    BY <2>1 DEF PoolInit, Runner!Init, Running
<1>2. PoolInv /\ [PoolNext]_poolVars => [Runner!Next]_(Runner!runnerVars)
  BY GiveStep, StartStep, FinishStep, JoinStep, PoolStutters DEF PoolNext, Owner, Worker
<1> QED
  BY <1>1, <1>2, PoolInductive, PTL DEF PoolSpec, IsTaskRunner, Runner!Spec

-----------------------------------------------------------------------------
(* The pools of memory *)

\* The capacity of a block that was allocated for this size, header included.
CapacityFor(all) == IF all > MAX_ALLOC_SIZE THEN all ELSE m_memoryPoolTable(all)

\* A size, with the header, that some block can have been allocated for.
Sizes ==
  {all \in Nat : all > HeaderSize /\ (all > MAX_ALLOC_SIZE \/ m_memoryPoolTable(all) \in PoolSizes)}

MemoryTypes ==
  /\ capacity \in [Blocks -> Nat]
  /\ m_allocSize \in [Blocks -> Nat]
  /\ m_pHeader \in [PoolSizes -> Seq(Blocks)]
  /\ at \in [Threads -> {"idle", "attach", "own", "push"}]
  /\ held \in [Threads -> Blocks \cup {NoBlock}]
  /\ real \in [Threads -> Nat]
  /\ buffer = [b \in Blocks |-> buffer[b]]

\* Block b lies in a pool, in one place, and nobody has it.
Free(b) == \E p \in PoolSizes : \E k \in 1 .. Len(m_pHeader[p]) : m_pHeader[p][k] = b

PoolSound ==
  \A p \in PoolSizes : \A k \in 1 .. Len(m_pHeader[p]) :
    /\ capacity[m_pHeader[p][k]] = p
    /\ m_allocSize[m_pHeader[p][k]] = 0
    /\ ~Owned(m_pHeader[p][k])
    /\ \A j \in 1 .. Len(m_pHeader[p]) : m_pHeader[p][j] = m_pHeader[p][k] => j = k

\* Thread t has block b in Allocate or Deallocate, or from the one.
Holds(t, b) ==
  /\ ~Owned(b) /\ ~Free(b)
  /\ \A u \in Threads \ {t} : held[u] # b
  /\ real[t] \in Sizes /\ capacity[b] = CapacityFor(real[t])
  /\ m_allocSize[b] = IF at[t] = "own" THEN real[t] ELSE 0
  /\ at[t] = "push" => real[t] <= MAX_ALLOC_SIZE

HeldSound ==
  \A t \in Threads :
    /\ held[t] = NoBlock <=> at[t] = "idle"
    /\ \A b \in Blocks : held[t] = b => Holds(t, b)

OwnedSound ==
  \A b \in Blocks :
    /\ Owned(b) => m_allocSize[b] \in Sizes /\ capacity[b] = CapacityFor(m_allocSize[b])
    /\ capacity[b] = 0 => m_allocSize[b] = 0

BlockInv == MemoryTypes /\ PoolSound /\ HeldSound /\ OwnedSound

-----------------------------------------------------------------------------
(* Sizes and pools *)

LEMMA PoolSizesNat == \A p \in PoolSizes : p \in Nat /\ 32 <= p /\ p <= 3840
BY DEF PoolSizes

\* Of the pools that are large enough there is a smallest one.
LEMMA SmallestPool ==
  ASSUME NEW all \in Nat, NEW r \in PoolSizes, all <= r
  PROVE  \E p \in PoolSizes : all <= p /\ \A q \in PoolSizes : all <= q => p <= q
<1>1. CASE all <= 32
  <2>1. 32 \in PoolSizes
    <3> 32 = 32 * 1 /\ 1 \in 1 .. 31
      OBVIOUS
    <3> QED
      BY DEF PoolSizes
  <2> QED
    BY <1>1, <2>1, PoolSizesNat
<1>2. CASE all \in 33 .. 992
  <2>1. PICK k \in 1 .. 31 : 32 * k >= all /\ 32 * (k - 1) < all
    <3>1. (all + 31) \div 32 \in 1 .. 31
      BY <1>2
    <3>2. 32 * ((all + 31) \div 32) >= all /\ 32 * ((all + 31) \div 32 - 1) < all
      BY <1>2
    <3> QED
      BY <3>1, <3>2
  <2>2. 32 * k \in PoolSizes
    BY DEF PoolSizes
  <2>3. \A q \in PoolSizes : all <= q => 32 * k <= q
    BY <2>1 DEF PoolSizes
  <2> QED
    BY <2>1, <2>2, <2>3
<1>3. CASE all \in 993 .. 1920
  <2>1. PICK k \in 0 .. 7 : 1024 + 128 * k >= all /\ (k = 0 \/ 1024 + 128 * (k - 1) < all)
    <3>1. CASE all <= 1024
      BY <1>3, <3>1
    <3>2. CASE all > 1024
      <4>1. (all - 1024 + 127) \div 128 \in 1 .. 7
        BY <1>3, <3>2
      <4>2. /\ 1024 + 128 * ((all - 1024 + 127) \div 128) >= all
            /\ 1024 + 128 * ((all - 1024 + 127) \div 128 - 1) < all
        BY <1>3, <3>2
      <4> QED
        BY <4>1, <4>2
    <3> QED
      BY <1>3, <3>1, <3>2
  <2>2. 1024 + 128 * k \in PoolSizes
    BY DEF PoolSizes
  <2>3. \A q \in PoolSizes : all <= q => 1024 + 128 * k <= q
    BY <1>3, <2>1 DEF PoolSizes
  <2> QED
    BY <2>1, <2>2, <2>3
<1>4. CASE all \in 1921 .. 3840
  <2>1. PICK k \in 0 .. 7 : 2048 + 256 * k >= all /\ (k = 0 \/ 2048 + 256 * (k - 1) < all)
    <3>1. CASE all <= 2048
      BY <1>4, <3>1
    <3>2. CASE all > 2048
      <4>1. (all - 2048 + 255) \div 256 \in 1 .. 7
        BY <1>4, <3>2
      <4>2. /\ 2048 + 256 * ((all - 2048 + 255) \div 256) >= all
            /\ 2048 + 256 * ((all - 2048 + 255) \div 256 - 1) < all
        BY <1>4, <3>2
      <4> QED
        BY <4>1, <4>2
    <3> QED
      BY <1>4, <3>1, <3>2
  <2>2. 2048 + 256 * k \in PoolSizes
    BY DEF PoolSizes
  <2>3. \A q \in PoolSizes : all <= q => 2048 + 256 * k <= q
    BY <1>4, <2>1 DEF PoolSizes
  <2> QED
    BY <2>1, <2>2, <2>3
<1> QED
  BY <1>1, <1>2, <1>3, <1>4, PoolSizesNat

\* The table gives a size the smallest pool that takes it, or nothing.
LEMMA PoolOf ==
  ASSUME NEW all \in Nat, m_memoryPoolTable(all) # 0
  PROVE  /\ m_memoryPoolTable(all) \in PoolSizes
         /\ all <= m_memoryPoolTable(all)
<1>1. PICK r \in PoolSizes : all <= r
  BY DEF m_memoryPoolTable
<1>2. \E p \in PoolSizes : all <= p /\ \A q \in PoolSizes : all <= q => p <= q
  BY <1>1, SmallestPool
<1>3. m_memoryPoolTable(all) =
        CHOOSE p \in PoolSizes : all <= p /\ \A q \in PoolSizes : all <= q => p <= q
  BY <1>1 DEF m_memoryPoolTable
<1> QED
  BY <1>2, <1>3

\* What is asked for and can be had is of a size that blocks have.
LEMMA AllocableSize ==
  ASSUME NEW size, Allocable(size)
  PROVE  size + HeaderSize \in Sizes
<1>1. size \in Nat \ {0} /\ size + HeaderSize \in Nat
  BY DEF Allocable, HeaderSize
<1>2. \/ size + HeaderSize > MAX_ALLOC_SIZE
      \/ m_memoryPoolTable(size + HeaderSize) # 0
  BY DEF Allocable
<1>3. \/ size + HeaderSize > MAX_ALLOC_SIZE
      \/ m_memoryPoolTable(size + HeaderSize) \in PoolSizes
  BY <1>1, <1>2, PoolOf
<1> QED
  BY <1>1, <1>3 DEF Sizes, HeaderSize

\* A block is as large as what it was allocated for.
LEMMA CapacityLarge ==
  ASSUME NEW all \in Sizes
  PROVE  /\ CapacityFor(all) \in Nat /\ all <= CapacityFor(all) /\ CapacityFor(all) > HeaderSize
         /\ all \in Nat /\ all > HeaderSize
         /\ all <= MAX_ALLOC_SIZE =>
              CapacityFor(all) = m_memoryPoolTable(all) /\ m_memoryPoolTable(all) \in PoolSizes
<1>1. all \in Nat /\ all > HeaderSize
      /\ (all > MAX_ALLOC_SIZE \/ m_memoryPoolTable(all) \in PoolSizes)
  BY DEF Sizes
<1>2. CASE all > MAX_ALLOC_SIZE
  BY <1>1, <1>2 DEF CapacityFor, MAX_ALLOC_SIZE, HeaderSize
<1>3. CASE ~(all > MAX_ALLOC_SIZE)
  <2>1. PICK p \in PoolSizes : p = m_memoryPoolTable(all)
    BY <1>1, <1>3
  <2>2. p \in Nat /\ 32 <= p
    BY PoolSizesNat
  <2>3. all <= m_memoryPoolTable(all)
    <3>1. m_memoryPoolTable(all) # 0
      BY <2>1, <2>2
    <3> QED
      BY <1>1, <3>1, PoolOf
  <2>4. CapacityFor(all) = p
    BY <1>3, <2>1 DEF CapacityFor
  <2>5. all <= p
    BY <2>1, <2>3
  <2>6. p > HeaderSize
    BY <1>1, <2>2, <2>5 DEF HeaderSize
  <2> QED
    BY <1>1, <2>1, <2>2, <2>4, <2>5, <2>6
<1> QED
  BY <1>2, <1>3

-----------------------------------------------------------------------------
(* Blocks *)

LEMMA BlockStart == CodecInit => BlockInv
<1> SUFFICES ASSUME CodecInit
             PROVE  BlockInv
  OBVIOUS
<1>1. MemoryTypes
  BY EmptySeq DEF CodecInit, MemoryInit, MemoryTypes
<1>2. \A q \in PoolSizes : m_pHeader[q] = <<>> /\ Len(m_pHeader[q]) = 0
  BY EmptySeq DEF CodecInit, MemoryInit
<1>3. PoolSound
  BY <1>2 DEF PoolSound
<1>4. HeldSound
  BY BlockAssumption DEF CodecInit, MemoryInit, HeldSound
<1>5. OwnedSound
  BY DEF CodecInit, MemoryInit, OwnedSound, Owned
<1> QED
  BY <1>1, <1>3, <1>4, <1>5 DEF BlockInv

\* What is said of blocks is about the pools and the buffers alone.
LEMMA BlockQuiet ==
  ASSUME BlockInv, UNCHANGED <<memoryVars, buffer>>
  PROVE  BlockInv'
<1>1. \A b : Free(b)' = Free(b) /\ Owned(b)' = Owned(b)
  BY DEF memoryVars, Free, Owned
<1>2. MemoryTypes'
  BY DEF BlockInv, MemoryTypes, memoryVars
<1>3. PoolSound'
  BY <1>1 DEF BlockInv, PoolSound, memoryVars, Owned
<1>4. HeldSound'
  BY <1>1 DEF BlockInv, HeldSound, Holds, memoryVars
<1>5. OwnedSound'
  BY <1>1 DEF BlockInv, OwnedSound, memoryVars, Owned
<1> QED
  BY <1>2, <1>3, <1>4, <1>5 DEF BlockInv

\* A block the heap has not given out is nowhere.
LEMMA Unallocated ==
  ASSUME BlockInv, NEW b \in Blocks, capacity[b] = 0
  PROVE  ~Owned(b) /\ ~Free(b) /\ m_allocSize[b] = 0 /\ \A u \in Threads : held[u] # b
<1>1. ~Owned(b)
  <2> SUFFICES ASSUME Owned(b)
               PROVE  FALSE
    OBVIOUS
  <2>1. m_allocSize[b] \in Sizes /\ capacity[b] = CapacityFor(m_allocSize[b])
    BY DEF BlockInv, OwnedSound
  <2> QED
    BY <2>1, CapacityLarge DEF HeaderSize
<1>2. ~Free(b)
  BY PoolSizesNat DEF BlockInv, PoolSound, Free
<1>3. ASSUME NEW u \in Threads, held[u] = b
      PROVE  FALSE
  <2>1. real[u] \in Sizes /\ capacity[b] = CapacityFor(real[u])
    BY <1>3 DEF BlockInv, HeldSound, Holds
  <2> QED
    BY <2>1, CapacityLarge DEF HeaderSize
<1> QED
  BY <1>1, <1>2, <1>3 DEF BlockInv, OwnedSound

\* Thread t, which has none, gets block b for a size of all bytes; b was
\* nobody's and is in no pool then.
LEMMA TakeBlock ==
  ASSUME BlockInv, NEW t \in Threads, NEW b \in Blocks, NEW all \in Sizes,
         at[t] = "idle", at' = [at EXCEPT ![t] = "attach"],
         real' = [real EXCEPT ![t] = all], held' = [held EXCEPT ![t] = b],
         m_allocSize' = m_allocSize, buffer' = buffer,
         ~Owned(b), m_allocSize[b] = 0, \A u \in Threads : held[u] # b,
         capacity' = [capacity EXCEPT ![b] = CapacityFor(all)],
         ~Free(b)', \A c \in Blocks : Free(c)' => Free(c)
  PROVE  HeldSound' /\ OwnedSound'
<1>1. MemoryTypes /\ HeldSound /\ OwnedSound
  BY DEF BlockInv
<1>2. \A c \in Blocks : Owned(c)' = Owned(c)
  BY DEF Owned
<1>3. \A c \in Blocks : capacity'[c] = IF c = b THEN CapacityFor(all) ELSE capacity[c]
  BY <1>1 DEF MemoryTypes
<1>4. CapacityFor(all) # 0
  BY CapacityLarge DEF HeaderSize
<1>5. OwnedSound'
  <2> SUFFICES ASSUME NEW c \in Blocks
               PROVE  /\ Owned(c)' => /\ m_allocSize'[c] \in Sizes
                                      /\ capacity'[c] = CapacityFor(m_allocSize'[c])
                      /\ capacity'[c] = 0 => m_allocSize'[c] = 0
    BY DEF OwnedSound
  <2>1. CASE c = b
    BY <1>2, <1>3, <1>4, <2>1
  <2>2. CASE c # b
    BY <1>1, <1>2, <1>3, <2>2 DEF OwnedSound
  <2> QED
    BY <2>1, <2>2
<1>6. \A v \in Threads :
        /\ held'[v] = (IF v = t THEN b ELSE held[v]) /\ real'[v] = (IF v = t THEN all ELSE real[v])
        /\ at'[v] = (IF v = t THEN "attach" ELSE at[v])
  BY <1>1 DEF MemoryTypes
<1>7. ASSUME NEW u \in Threads
      PROVE  held'[u] = NoBlock <=> at'[u] = "idle"
  BY <1>1, <1>6, BlockAssumption DEF HeldSound
<1>8. ASSUME NEW u \in Threads, NEW c \in Blocks, held'[u] = c
      PROVE  Holds(u, c)'
  <2>1. CASE u = t
    BY <1>2, <1>3, <1>6, <1>8, <2>1 DEF Holds
  <2>2. CASE u # t
    <3>1. Holds(u, c) /\ c # b
      BY <1>1, <1>6, <1>8, <2>2 DEF HeldSound
    <3> QED
      BY <1>2, <1>3, <1>6, <2>2, <3>1 DEF Holds
  <2> QED
    BY <2>1, <2>2
<1>9. HeldSound'
  BY <1>7, <1>8 DEF HeldSound
<1> QED
  BY <1>5, <1>9

\* Allocate, of a size that can be had.
LEMMA AllocateSound ==
  ASSUME BlockInv, NEW t \in Threads, NEW size, Allocable(size), Allocate(t, size),
         buffer' = buffer
  PROVE  BlockInv'
<1> DEFINE all == size + HeaderSize
           q == m_memoryPoolTable(all)
<1>1. all \in Sizes
  BY AllocableSize
<1>2. /\ at[t] = "idle" /\ at' = [at EXCEPT ![t] = "attach"]
      /\ real' = [real EXCEPT ![t] = all] /\ m_allocSize' = m_allocSize
  BY DEF Allocate, Step
<1>3. /\ CapacityFor(all) \in Nat /\ CapacityFor(all) > 0 /\ all \in Nat
      /\ ~(all > MAX_ALLOC_SIZE) => CapacityFor(all) = q /\ q \in PoolSizes
  BY <1>1, CapacityLarge DEF HeaderSize, MAX_ALLOC_SIZE
<1>4. \/ Malloc(t, CapacityFor(all)) /\ m_pHeader' = m_pHeader
      \/ /\ ~(all > MAX_ALLOC_SIZE) /\ m_pHeader[q] # <<>>
         /\ held' = [held EXCEPT ![t] = Head(m_pHeader[q])]
         /\ m_pHeader' = [m_pHeader EXCEPT ![q] = Tail(@)]
         /\ capacity' = capacity
  BY <1>3 DEF Allocate, CapacityFor
<1>5. MemoryTypes /\ PoolSound /\ HeldSound /\ OwnedSound
  BY DEF BlockInv
<1> HIDE DEF all, q
<1>6. \A c : Owned(c)' = Owned(c)
  BY DEF Owned
<1>7. CASE Malloc(t, CapacityFor(all)) /\ m_pHeader' = m_pHeader
  <2>1. PICK b \in Blocks : /\ capacity[b] = 0
                            /\ capacity' = [capacity EXCEPT ![b] = CapacityFor(all)]
                            /\ held' = [held EXCEPT ![t] = b]
    BY <1>7 DEF Malloc
  <2>2. ~Owned(b) /\ ~Free(b) /\ m_allocSize[b] = 0 /\ \A u \in Threads : held[u] # b
    BY <2>1, Unallocated
  <2>3. \A c : Free(c)' = Free(c)
    BY <1>7 DEF Free
  <2>4. MemoryTypes'
    BY <1>2, <1>3, <1>5, <1>7, <2>1 DEF MemoryTypes
  <2>5. HeldSound' /\ OwnedSound'
    BY <1>1, <1>2, <2>1, <2>2, <2>3, TakeBlock
  <2>6. PoolSound'
    <3> SUFFICES ASSUME NEW r \in PoolSizes, NEW k \in 1 .. Len(m_pHeader[r])
                 PROVE  /\ capacity'[m_pHeader[r][k]] = r
                        /\ m_allocSize'[m_pHeader[r][k]] = 0
                        /\ ~Owned(m_pHeader[r][k])
                        /\ \A j \in 1 .. Len(m_pHeader[r]) :
                             m_pHeader[r][j] = m_pHeader[r][k] => j = k
      BY <1>6, <1>7 DEF PoolSound, Owned
    <3>1. Free(m_pHeader[r][k]) /\ m_pHeader[r][k] \in Blocks
      BY <1>5, ElementOfSeq DEF Free, MemoryTypes
    <3>2. m_pHeader[r][k] # b
      BY <2>2, <3>1
    <3> QED
      BY <1>2, <1>5, <2>1, <3>1, <3>2 DEF PoolSound, MemoryTypes
  <2> QED
    BY <2>4, <2>5, <2>6 DEF BlockInv
<1>8. CASE /\ ~(all > MAX_ALLOC_SIZE) /\ m_pHeader[q] # <<>>
           /\ held' = [held EXCEPT ![t] = Head(m_pHeader[q])]
           /\ m_pHeader' = [m_pHeader EXCEPT ![q] = Tail(@)]
           /\ capacity' = capacity
  <2>1. q \in PoolSizes /\ CapacityFor(all) = q /\ m_pHeader[q] \in Seq(Blocks)
    BY <1>3, <1>5, <1>8 DEF MemoryTypes
  <2>2. PICK n \in Nat : Len(m_pHeader[q]) = n + 1
    <3>1. PICK h \in Nat : h = Len(m_pHeader[q])
      BY <2>1, LenProperties
    <3>2. h # 0
      BY <1>8, <2>1, <3>1, EmptySeq
    <3>3. h - 1 \in Nat /\ h = (h - 1) + 1
      BY <3>2
    <3> QED
      BY <3>1, <3>3
  <2>3. PICK b \in Blocks :
          /\ b = Head(m_pHeader[q]) /\ b = m_pHeader[q][1]
          /\ Tail(m_pHeader[q]) \in Seq(Blocks) /\ Len(Tail(m_pHeader[q])) = n
          /\ \A k \in 1 .. n : Tail(m_pHeader[q])[k] = m_pHeader[q][k + 1]
    BY <1>8, <2>1, <2>2, HeadTailProperties
  <2>4. /\ held' = [held EXCEPT ![t] = b]
        /\ \A r \in PoolSizes : m_pHeader'[r] = IF r = q THEN Tail(m_pHeader[q]) ELSE m_pHeader[r]
    BY <1>5, <1>8, <2>3 DEF MemoryTypes
  <2>5. MemoryTypes'
    BY <1>2, <1>3, <1>5, <1>8, <2>1, <2>3, <2>4 DEF MemoryTypes
  <2>6. 1 \in 1 .. Len(m_pHeader[q]) /\ \A k \in 1 .. n : k + 1 \in 1 .. Len(m_pHeader[q]) /\ k + 1 # 1
    BY <2>2
  <2>7. capacity[b] = q /\ m_allocSize[b] = 0 /\ ~Owned(b) /\ Free(b)
    BY <1>5, <2>1, <2>3, <2>6 DEF PoolSound, Free
  <2>8. \A u \in Threads : held[u] # b
    BY <1>5, <2>3, <2>7 DEF HeldSound, Holds
  <2>9. ASSUME NEW r \in PoolSizes, NEW k \in 1 .. Len(m_pHeader'[r])
        PROVE  /\ \E j \in 1 .. Len(m_pHeader[r]) : m_pHeader[r][j] = m_pHeader'[r][k]
               /\ m_pHeader'[r][k] # b
               /\ capacity[m_pHeader'[r][k]] = r
               /\ m_allocSize[m_pHeader'[r][k]] = 0
               /\ ~Owned(m_pHeader'[r][k])
               /\ \A j \in 1 .. Len(m_pHeader'[r]) : m_pHeader'[r][j] = m_pHeader'[r][k] => j = k
    <3>1. CASE r = q
      <4>1. /\ Len(m_pHeader'[r]) = n
            /\ \A j \in 1 .. n : m_pHeader'[r][j] = m_pHeader[q][j + 1]
        BY <2>3, <2>4, <3>1
      <4>2. k \in 1 .. n /\ m_pHeader'[r][k] = m_pHeader[q][k + 1] /\ k + 1 \in 1 .. Len(m_pHeader[q])
        BY <2>6, <2>9, <4>1
      <4>3. m_pHeader[q][k + 1] # b
        BY <1>5, <2>1, <2>3, <2>6, <4>2 DEF PoolSound
      <4>4. ASSUME NEW j \in 1 .. n, m_pHeader'[r][j] = m_pHeader'[r][k]
            PROVE  j = k
        <5>1. j + 1 \in 1 .. Len(m_pHeader[q]) /\ m_pHeader[q][j + 1] = m_pHeader[q][k + 1]
          BY <2>6, <4>1, <4>2, <4>4
        <5>2. j + 1 = k + 1
          BY <1>5, <2>1, <4>2, <5>1 DEF PoolSound
        <5> QED
          BY <4>2, <5>2
      <4>5. /\ capacity[m_pHeader[q][k + 1]] = q /\ m_allocSize[m_pHeader[q][k + 1]] = 0
            /\ ~Owned(m_pHeader[q][k + 1])
        BY <1>5, <2>1, <4>2 DEF PoolSound
      <4> QED
        BY <3>1, <4>1, <4>2, <4>3, <4>4, <4>5
    <3>2. CASE r # q
      <4>1. m_pHeader'[r] = m_pHeader[r]
        BY <2>4, <3>2
      <4>2. capacity[m_pHeader[r][k]] = r
        BY <1>5, <2>9, <4>1 DEF PoolSound
      <4>3. m_pHeader[r][k] # b
        BY <2>7, <3>2, <4>2
      <4> QED
        BY <1>5, <2>9, <4>1, <4>2, <4>3 DEF PoolSound
    <3> QED
      BY <3>1, <3>2
  <2>10. PoolSound'
    <3> SUFFICES ASSUME NEW r \in PoolSizes, NEW k \in 1 .. Len(m_pHeader'[r])
                 PROVE  /\ capacity'[m_pHeader'[r][k]] = r
                        /\ m_allocSize'[m_pHeader'[r][k]] = 0
                        /\ ~(buffer'[m_pHeader'[r][k]] # None)
                        /\ \A j \in 1 .. Len(m_pHeader'[r]) :
                             m_pHeader'[r][j] = m_pHeader'[r][k] => j = k
      BY DEF PoolSound, Owned
    <3>1. /\ capacity[m_pHeader'[r][k]] = r /\ m_allocSize[m_pHeader'[r][k]] = 0
          /\ ~(buffer[m_pHeader'[r][k]] # None)
          /\ \A j \in 1 .. Len(m_pHeader'[r]) : m_pHeader'[r][j] = m_pHeader'[r][k] => j = k
      BY <2>9 DEF Owned
    <3> QED
      BY <1>2, <1>8, <3>1
  <2>11. ~Free(b)' /\ \A c \in Blocks : Free(c)' => Free(c)
    <3>1. ASSUME NEW c, Free(c)'
          PROVE  c # b /\ Free(c)
      <4>1. PICK r \in PoolSizes : \E k \in 1 .. Len(m_pHeader'[r]) : m_pHeader'[r][k] = c
        BY <3>1 DEF Free
      <4>2. PICK k \in 1 .. Len(m_pHeader'[r]) : m_pHeader'[r][k] = c
        BY <4>1
      <4> QED
        BY <2>9, <4>2 DEF Free
    <3> QED
      BY <3>1
  <2>12. capacity' = [capacity EXCEPT ![b] = CapacityFor(all)]
    <3>1. CapacityFor(all) = capacity[b] /\ capacity \in [Blocks -> Nat] /\ capacity' = capacity
      BY <1>5, <1>8, <2>1, <2>7 DEF MemoryTypes
    <3> QED
      BY <2>3, <3>1
  <2>13. HeldSound' /\ OwnedSound'
    BY <1>1, <1>2, <2>3, <2>4, <2>7, <2>8, <2>11, <2>12, TakeBlock
  <2> QED
    BY <2>5, <2>10, <2>13 DEF BlockInv
<1> QED
  BY <1>4, <1>7, <1>8

\* The header is written.
LEMMA AttachSound ==
  ASSUME BlockInv, NEW t \in Threads, AttachMemoryHeader(t), buffer' = buffer
  PROVE  BlockInv'
<1>1. /\ at[t] = "attach" /\ at' = [at EXCEPT ![t] = "own"]
      /\ m_allocSize' = [m_allocSize EXCEPT ![held[t]] = real[t]]
      /\ capacity' = capacity /\ m_pHeader' = m_pHeader /\ held' = held /\ real' = real
  BY DEF AttachMemoryHeader, Step
<1>2. MemoryTypes /\ PoolSound /\ HeldSound /\ OwnedSound
  BY DEF BlockInv
<1>3. PICK b \in Blocks : held[t] = b
  BY <1>1, <1>2 DEF MemoryTypes, HeldSound
<1>4. Holds(t, b)
  BY <1>2, <1>3 DEF HeldSound
<1>5. \A c : Owned(c)' = Owned(c) /\ Free(c)' = Free(c)
  BY <1>1 DEF Owned, Free
<1>6. \A c \in Blocks : m_allocSize'[c] = IF c = b THEN real[t] ELSE m_allocSize[c]
  BY <1>1, <1>2, <1>3 DEF MemoryTypes
<1>7. MemoryTypes'
  BY <1>1, <1>2, <1>3 DEF MemoryTypes
<1>8. PoolSound'
  <2> SUFFICES ASSUME NEW r \in PoolSizes, NEW k \in 1 .. Len(m_pHeader[r])
               PROVE  m_allocSize'[m_pHeader[r][k]] = 0
    BY <1>1, <1>2 DEF PoolSound, Owned
  <2>1. Free(m_pHeader[r][k]) /\ m_pHeader[r][k] \in Blocks
    BY <1>2, ElementOfSeq DEF Free, MemoryTypes
  <2>2. m_pHeader[r][k] # b
    BY <1>4, <2>1 DEF Holds
  <2> QED
    BY <1>2, <1>6, <2>1, <2>2 DEF PoolSound
<1>9. HeldSound'
  <2>1. ASSUME NEW u \in Threads
        PROVE  held'[u] = NoBlock <=> at'[u] = "idle"
    BY <1>1, <1>2 DEF HeldSound, MemoryTypes
  <2>2. ASSUME NEW u \in Threads, NEW c \in Blocks, held'[u] = c
        PROVE  Holds(u, c)'
    <3>1. Holds(u, c) /\ held[u] = c
      BY <1>1, <1>2, <2>2 DEF HeldSound
    <3>2. at'[u] = IF u = t THEN "own" ELSE at[u]
      BY <1>1, <1>2 DEF MemoryTypes
    <3>3. CASE u = t
      BY <1>1, <1>3, <1>5, <1>6, <3>1, <3>2, <3>3 DEF Holds
    <3>4. CASE u # t
      <4>1. c # b
        BY <1>4, <3>1, <3>4 DEF Holds
      <4> QED
        BY <1>1, <1>5, <1>6, <3>1, <3>2, <3>4, <4>1 DEF Holds
    <3> QED
      BY <3>3, <3>4
  <2> QED
    BY <2>1, <2>2 DEF HeldSound
<1>10. OwnedSound'
  <2> SUFFICES ASSUME NEW c \in Blocks
               PROVE  /\ Owned(c)' => /\ m_allocSize'[c] \in Sizes
                                      /\ capacity'[c] = CapacityFor(m_allocSize'[c])
                      /\ capacity'[c] = 0 => m_allocSize'[c] = 0
    BY DEF OwnedSound
  <2>1. CASE c = b
    <3>1. capacity[b] # 0
      BY <1>4, CapacityLarge DEF Holds, HeaderSize
    <3> QED
      BY <1>1, <1>4, <1>5, <2>1, <3>1 DEF Holds
  <2>2. CASE c # b
    BY <1>1, <1>2, <1>5, <1>6, <2>2 DEF OwnedSound
  <2> QED
    BY <2>1, <2>2
<1> QED
  BY <1>7, <1>8, <1>9, <1>10 DEF BlockInv

\* The thread that called Allocate gives its block to an owner.
LEMMA GiveSound ==
  ASSUME BlockInv, NEW t \in Threads, NEW x, Step(t, "own", "idle"),
         buffer' = [buffer EXCEPT ![held[t]] = x],
         held' = [held EXCEPT ![t] = NoBlock], real' = [real EXCEPT ![t] = 0],
         UNCHANGED <<capacity, m_allocSize, m_pHeader>>
  PROVE  BlockInv'
<1>1. at[t] = "own" /\ at' = [at EXCEPT ![t] = "idle"]
  BY DEF Step
<1>2. MemoryTypes /\ PoolSound /\ HeldSound /\ OwnedSound
  BY DEF BlockInv
<1>3. PICK b \in Blocks : held[t] = b
  BY <1>1, <1>2 DEF MemoryTypes, HeldSound
<1>4. Holds(t, b)
  BY <1>2, <1>3 DEF HeldSound
<1>5. \A c \in Blocks : /\ Free(c)' = Free(c)
                        /\ c # b => Owned(c)' = Owned(c)
  BY <1>2, <1>3 DEF Owned, Free, MemoryTypes
<1>6. \A u \in Threads : /\ held'[u] = (IF u = t THEN NoBlock ELSE held[u])
                         /\ real'[u] = (IF u = t THEN 0 ELSE real[u])
                         /\ at'[u] = (IF u = t THEN "idle" ELSE at[u])
  BY <1>1, <1>2 DEF MemoryTypes
<1>7. MemoryTypes'
  BY <1>1, <1>2, <1>3 DEF MemoryTypes
<1>8. PoolSound'
  <2> SUFFICES ASSUME NEW r \in PoolSizes, NEW k \in 1 .. Len(m_pHeader[r])
               PROVE  ~Owned(m_pHeader[r][k])'
    BY <1>2 DEF PoolSound, Owned
  <2>1. Free(m_pHeader[r][k]) /\ m_pHeader[r][k] \in Blocks /\ ~Owned(m_pHeader[r][k])
    BY <1>2, ElementOfSeq DEF Free, MemoryTypes, PoolSound
  <2>2. m_pHeader[r][k] # b
    BY <1>4, <2>1 DEF Holds
  <2> QED
    BY <1>2, <1>3, <2>1, <2>2 DEF Owned, MemoryTypes
<1>9. HeldSound'
  <2>1. ASSUME NEW u \in Threads
        PROVE  held'[u] = NoBlock <=> at'[u] = "idle"
    BY <1>2, <1>6 DEF HeldSound
  <2>2. ASSUME NEW u \in Threads, NEW c \in Blocks, held'[u] = c
        PROVE  Holds(u, c)'
    <3>1. u # t /\ held[u] = c
      BY <1>6, <2>2, BlockAssumption
    <3>2. Holds(u, c) /\ c # b
      BY <1>2, <1>4, <3>1 DEF HeldSound, Holds
    <3>3. \A v \in Threads \ {u} : held'[v] # c
      BY <1>6, <3>2, BlockAssumption DEF Holds
    <3> QED
      BY <1>5, <1>6, <3>1, <3>2, <3>3 DEF Holds
  <2> QED
    BY <2>1, <2>2 DEF HeldSound
<1>10. OwnedSound'
  <2> SUFFICES ASSUME NEW c \in Blocks
               PROVE  /\ Owned(c)' => /\ m_allocSize[c] \in Sizes
                                      /\ capacity[c] = CapacityFor(m_allocSize[c])
                      /\ capacity[c] = 0 => m_allocSize[c] = 0
    BY DEF OwnedSound
  <2>1. CASE c = b
    BY <1>1, <1>2, <1>4, <2>1 DEF Holds, OwnedSound
  <2>2. CASE c # b
    BY <1>2, <1>5, <2>2 DEF OwnedSound
  <2> QED
    BY <2>1, <2>2
<1> QED
  BY <1>7, <1>8, <1>9, <1>10 DEF BlockInv

\* A block that has an owner is in no pool and with no thread.
LEMMA OwnedAlone ==
  ASSUME BlockInv, NEW b \in Blocks, Owned(b)
  PROVE  /\ ~Free(b) /\ \A u \in Threads : held[u] # b
         /\ m_allocSize[b] \in Sizes /\ capacity[b] = CapacityFor(m_allocSize[b])
BY DEF BlockInv, PoolSound, HeldSound, OwnedSound, Holds, Free

\* Its owner drops it.
LEMMA ReleaseSound ==
  ASSUME BlockInv, NEW t \in Threads, NEW b \in Blocks, at[t] = "idle", Owned(b),
         Deallocate(t, b), buffer' = [buffer EXCEPT ![b] = None]
  PROVE  BlockInv'
<1>1. MemoryTypes /\ PoolSound /\ HeldSound /\ OwnedSound
  BY DEF BlockInv
<1>2. /\ ~Free(b) /\ \A u \in Threads : held[u] # b
      /\ m_allocSize[b] \in Sizes /\ capacity[b] = CapacityFor(m_allocSize[b])
  BY OwnedAlone
<1>3. m_allocSize' = [m_allocSize EXCEPT ![b] = 0] /\ m_pHeader' = m_pHeader
  BY DEF Deallocate
<1>4. \/ /\ capacity' = [capacity EXCEPT ![b] = 0]
         /\ at' = at /\ held' = held /\ real' = real
      \/ /\ m_allocSize[b] <= MAX_ALLOC_SIZE /\ capacity' = capacity
         /\ at' = [at EXCEPT ![t] = "push"] /\ held' = [held EXCEPT ![t] = b]
         /\ real' = [real EXCEPT ![t] = m_allocSize[b]]
  <2>1. m_allocSize[b] \in Nat
    BY <1>1 DEF MemoryTypes
  <2> QED
    BY <2>1 DEF Deallocate, Step, MAX_ALLOC_SIZE
<1>5. \A c \in Blocks :
        /\ m_allocSize'[c] = (IF c = b THEN 0 ELSE m_allocSize[c])
        /\ c # b => capacity'[c] = capacity[c]
        /\ Free(c)' = Free(c)
        /\ Owned(c)' = (c # b /\ Owned(c))
  BY <1>1, <1>3, <1>4 DEF MemoryTypes, Free, Owned
<1>6. MemoryTypes'
  <2>1. m_allocSize[b] \in Nat
    BY <1>1 DEF MemoryTypes
  <2>2. /\ capacity' \in [Blocks -> Nat] /\ at' \in [Threads -> {"idle", "attach", "own", "push"}]
        /\ held' \in [Threads -> Blocks \cup {NoBlock}] /\ real' \in [Threads -> Nat]
    <3> USE DEF MemoryTypes
    <3>1. CASE capacity' = [capacity EXCEPT ![b] = 0] /\ at' = at /\ held' = held /\ real' = real
      BY <1>1, <3>1
    <3>2. CASE /\ capacity' = capacity
               /\ at' = [at EXCEPT ![t] = "push"] /\ held' = [held EXCEPT ![t] = b]
               /\ real' = [real EXCEPT ![t] = m_allocSize[b]]
      BY <1>1, <2>1, <3>2
    <3> QED
      BY <1>4, <3>1, <3>2
  <2>3. m_allocSize' \in [Blocks -> Nat] /\ m_pHeader' \in [PoolSizes -> Seq(Blocks)]
    BY <1>1, <1>3 DEF MemoryTypes
  <2>4. buffer' = [c \in Blocks |-> buffer'[c]]
    BY <1>1 DEF MemoryTypes
  <2> QED
    BY <2>2, <2>3, <2>4 DEF MemoryTypes
<1>7. PoolSound'
  <2> SUFFICES ASSUME NEW r \in PoolSizes, NEW k \in 1 .. Len(m_pHeader[r])
               PROVE  /\ capacity'[m_pHeader[r][k]] = r
                      /\ m_allocSize'[m_pHeader[r][k]] = 0
                      /\ ~Owned(m_pHeader[r][k])'
                      /\ \A j \in 1 .. Len(m_pHeader[r]) :
                           m_pHeader[r][j] = m_pHeader[r][k] => j = k
    BY <1>3 DEF PoolSound, Owned
  <2>1. PICK c \in Blocks : c = m_pHeader[r][k] /\ c # b
    BY <1>1, <1>2, ElementOfSeq DEF Free, MemoryTypes
  <2>2. /\ capacity[c] = r /\ m_allocSize[c] = 0 /\ ~Owned(c)
        /\ \A j \in 1 .. Len(m_pHeader[r]) : m_pHeader[r][j] = c => j = k
    BY <1>1, <2>1 DEF PoolSound
  <2>3. capacity'[c] = r /\ m_allocSize'[c] = 0 /\ buffer'[c] = None
    BY <1>1, <1>5, <2>1, <2>2 DEF Owned, MemoryTypes
  <2> QED
    BY <1>3, <2>1, <2>2, <2>3 DEF Owned
<1>8. ASSUME NEW u \in Threads, NEW c \in Blocks, held[u] = c,
             \A v \in Threads \ {u} : held'[v] # c, at'[u] = at[u], real'[u] = real[u]
      PROVE  Holds(u, c)'
  <2>1. Holds(u, c) /\ c # b
    BY <1>1, <1>2, <1>8 DEF HeldSound
  <2> QED
    BY <1>5, <1>8, <2>1 DEF Holds
<1>9. HeldSound'
  <2>1. CASE at' = at /\ held' = held /\ real' = real
    <3>1. ASSUME NEW u \in Threads
          PROVE  held'[u] = NoBlock <=> at'[u] = "idle"
      BY <1>1, <2>1 DEF HeldSound
    <3>2. ASSUME NEW u \in Threads, NEW c \in Blocks, held'[u] = c
          PROVE  Holds(u, c)'
      <4>1. \A v \in Threads \ {u} : held'[v] # c
        BY <1>1, <2>1, <3>2 DEF HeldSound, Holds
      <4> QED
        BY <1>8, <2>1, <3>2, <4>1
    <3> QED
      BY <3>1, <3>2 DEF HeldSound
  <2>2. CASE /\ m_allocSize[b] <= MAX_ALLOC_SIZE /\ capacity' = capacity
             /\ at' = [at EXCEPT ![t] = "push"] /\ held' = [held EXCEPT ![t] = b]
             /\ real' = [real EXCEPT ![t] = m_allocSize[b]]
    <3>1. \A u \in Threads : /\ held'[u] = (IF u = t THEN b ELSE held[u])
                             /\ real'[u] = (IF u = t THEN m_allocSize[b] ELSE real[u])
                             /\ at'[u] = (IF u = t THEN "push" ELSE at[u])
      BY <1>1, <2>2 DEF MemoryTypes
    <3>2. ASSUME NEW u \in Threads
          PROVE  held'[u] = NoBlock <=> at'[u] = "idle"
      BY <1>1, <3>1, BlockAssumption DEF HeldSound
    <3>3. ASSUME NEW u \in Threads, NEW c \in Blocks, held'[u] = c
          PROVE  Holds(u, c)'
      <4>1. CASE u = t
        <5>1. c = b /\ at'[u] = "push" /\ real'[u] = m_allocSize[b]
          BY <3>1, <3>3, <4>1
        <5>2. \A v \in Threads \ {u} : held'[v] # c
          BY <1>2, <3>1, <4>1, <5>1
        <5>3. m_allocSize'[c] = 0 /\ ~Free(c)' /\ ~Owned(c)'
          BY <1>2, <1>5, <5>1
        <5> QED
          BY <1>2, <2>2, <5>1, <5>2, <5>3 DEF Holds
      <4>2. CASE u # t
        <5>1. held[u] = c /\ at'[u] = at[u] /\ real'[u] = real[u] /\ c # b
          BY <1>2, <3>1, <3>3, <4>2
        <5>2. \A v \in Threads \ {u} : held'[v] # c
          BY <1>1, <3>1, <5>1 DEF HeldSound, Holds
        <5> QED
          BY <1>8, <5>1, <5>2
      <4> QED
        BY <4>1, <4>2
    <3> QED
      BY <3>2, <3>3 DEF HeldSound
  <2> QED
    BY <1>4, <2>1, <2>2
<1>10. OwnedSound'
  <2> SUFFICES ASSUME NEW c \in Blocks
               PROVE  /\ Owned(c)' => /\ m_allocSize'[c] \in Sizes
                                      /\ capacity'[c] = CapacityFor(m_allocSize'[c])
                      /\ capacity'[c] = 0 => m_allocSize'[c] = 0
    BY DEF OwnedSound
  <2>1. CASE c = b
    BY <1>5, <2>1
  <2>2. CASE c # b
    BY <1>1, <1>5, <2>2 DEF OwnedSound
  <2> QED
    BY <2>1, <2>2
<1> QED
  BY <1>6, <1>7, <1>9, <1>10 DEF BlockInv

\* The block is put into the pool of its size.
LEMMA PushSound ==
  ASSUME BlockInv, NEW t \in Threads, PushEntry(t), buffer' = buffer
  PROVE  BlockInv'
<1>1. /\ at[t] = "push" /\ at' = [at EXCEPT ![t] = "idle"]
      /\ held' = [held EXCEPT ![t] = NoBlock] /\ real' = [real EXCEPT ![t] = 0]
      /\ capacity' = capacity /\ m_allocSize' = m_allocSize
  BY DEF PushEntry, Step
<1>2. MemoryTypes /\ PoolSound /\ HeldSound /\ OwnedSound
  BY DEF BlockInv
<1>3. PICK b \in Blocks : held[t] = b
  BY <1>1, <1>2 DEF MemoryTypes, HeldSound
<1>4. Holds(t, b)
  BY <1>2, <1>3 DEF HeldSound
<1>5. PICK q \in PoolSizes : q = m_memoryPoolTable(real[t]) /\ capacity[b] = q
  BY <1>1, <1>4, CapacityLarge DEF Holds
<1>6. m_pHeader' = [m_pHeader EXCEPT ![q] = <<b>> \o m_pHeader[q]]
  BY <1>2, <1>3, <1>5 DEF PushEntry, MemoryTypes
<1>7. m_pHeader[q] \in Seq(Blocks)
  BY <1>2 DEF MemoryTypes
<1>8. PICK n \in Nat : n = Len(m_pHeader[q])
  BY <1>7, LenProperties
<1>9. /\ <<b>> \o m_pHeader[q] \in Seq(Blocks) /\ Len(<<b>> \o m_pHeader[q]) = n + 1
      /\ (<<b>> \o m_pHeader[q])[1] = b
      /\ \A k \in 1 .. n : (<<b>> \o m_pHeader[q])[k + 1] = m_pHeader[q][k]
  <2>1. <<b>> \in Seq(Blocks) /\ Len(<<b>>) = 1 /\ <<b>>[1] = b
    OBVIOUS
  <2> QED
    BY <1>7, <1>8, <2>1, ConcatProperties
<1>10. \A r \in PoolSizes : m_pHeader'[r] = IF r = q THEN <<b>> \o m_pHeader[q] ELSE m_pHeader[r]
  BY <1>2, <1>6 DEF MemoryTypes
<1>11. \A c : Owned(c)' = Owned(c)
  BY DEF Owned
<1>12. \A k \in 1 .. n + 1 : k = 1 \/ (k - 1 \in 1 .. n /\ k = (k - 1) + 1)
  OBVIOUS
\* Each entry was in its pool before or is the block.
<1>13. ASSUME NEW r \in PoolSizes, NEW k \in 1 .. Len(m_pHeader'[r])
       PROVE  \/ r = q /\ k = 1 /\ m_pHeader'[r][k] = b
              \/ /\ r = q /\ k - 1 \in 1 .. Len(m_pHeader[r]) /\ k # 1
                 /\ m_pHeader'[r][k] = m_pHeader[r][k - 1]
              \/ r # q /\ k \in 1 .. Len(m_pHeader[r]) /\ m_pHeader'[r] = m_pHeader[r]
  <2>1. CASE r = q
    <3>1. Len(m_pHeader'[r]) = n + 1 /\ m_pHeader'[r] = <<b>> \o m_pHeader[q]
      BY <1>9, <1>10, <2>1
    <3>2. k \in 1 .. n + 1
      BY <1>13, <3>1
    <3>3. CASE k = 1
      BY <1>9, <2>1, <3>1, <3>3
    <3>4. CASE k # 1
      <4>1. PICK j \in 1 .. n : k = j + 1
        BY <1>12, <3>2, <3>4
      <4>2. k - 1 = j /\ m_pHeader'[r][k] = m_pHeader[q][j]
        BY <1>9, <3>1, <4>1
      <4> QED
        BY <1>8, <2>1, <3>4, <4>2
    <3> QED
      BY <3>3, <3>4
  <2>2. CASE r # q
    BY <1>10, <1>13, <2>2
  <2> QED
    BY <2>1, <2>2
<1>14. /\ ~Owned(b) /\ ~Free(b) /\ m_allocSize[b] = 0
       /\ \A u \in Threads \ {t} : held[u] # b
  BY <1>1, <1>4 DEF Holds
<1>15. MemoryTypes'
  BY <1>1, <1>2, <1>6, <1>9 DEF MemoryTypes
<1>16. PoolSound'
  <2> SUFFICES ASSUME NEW r \in PoolSizes, NEW k \in 1 .. Len(m_pHeader'[r])
               PROVE  /\ capacity[m_pHeader'[r][k]] = r
                      /\ m_allocSize[m_pHeader'[r][k]] = 0
                      /\ ~(buffer[m_pHeader'[r][k]] # None)
                      /\ \A j \in 1 .. Len(m_pHeader'[r]) :
                           m_pHeader'[r][j] = m_pHeader'[r][k] => j = k
    BY <1>1 DEF PoolSound, Owned
  <2>1. ASSUME NEW h \in 1 .. Len(m_pHeader[r])
        PROVE  /\ m_pHeader[r][h] # b
               /\ capacity[m_pHeader[r][h]] = r /\ m_allocSize[m_pHeader[r][h]] = 0
               /\ ~(buffer[m_pHeader[r][h]] # None)
               /\ \A j \in 1 .. Len(m_pHeader[r]) : m_pHeader[r][j] = m_pHeader[r][h] => j = h
    BY <1>2, <1>14 DEF PoolSound, Owned, Free
  <2>2. CASE r = q /\ k = 1 /\ m_pHeader'[r][k] = b
    <3>1. ASSUME NEW j \in 1 .. Len(m_pHeader'[r]), m_pHeader'[r][j] = b
          PROVE  j = k
      BY <1>13, <2>1, <2>2, <3>1
    <3> QED
      BY <1>5, <1>14, <2>2, <3>1 DEF Owned
  <2>3. CASE /\ r = q /\ k - 1 \in 1 .. Len(m_pHeader[r]) /\ k # 1
             /\ m_pHeader'[r][k] = m_pHeader[r][k - 1]
    <3>1. ASSUME NEW j \in 1 .. Len(m_pHeader'[r]), m_pHeader'[r][j] = m_pHeader'[r][k]
          PROVE  j = k
      <4>1. j - 1 \in 1 .. Len(m_pHeader[r]) /\ m_pHeader'[r][j] = m_pHeader[r][j - 1]
        BY <1>13, <2>1, <2>3, <3>1
      <4>2. j - 1 = k - 1
        BY <2>1, <2>3, <3>1, <4>1
      <4>3. j \in Int /\ k \in Int
        OBVIOUS
      <4> QED
        BY <4>2, <4>3
    <3> QED
      BY <2>1, <2>3, <3>1
  <2>4. CASE r # q /\ k \in 1 .. Len(m_pHeader[r]) /\ m_pHeader'[r] = m_pHeader[r]
    BY <2>1, <2>4
  <2> QED
    BY <1>13, <2>2, <2>3, <2>4
<1>17. ASSUME NEW c, Free(c)'
       PROVE  c = b \/ Free(c)
  <2>1. PICK r \in PoolSizes : \E k \in 1 .. Len(m_pHeader'[r]) : m_pHeader'[r][k] = c
    BY <1>17 DEF Free
  <2>2. PICK k \in 1 .. Len(m_pHeader'[r]) : m_pHeader'[r][k] = c
    BY <2>1
  <2> QED
    BY <1>13, <2>2 DEF Free
<1>18. \A u \in Threads : /\ held'[u] = (IF u = t THEN NoBlock ELSE held[u])
                          /\ real'[u] = (IF u = t THEN 0 ELSE real[u])
                          /\ at'[u] = (IF u = t THEN "idle" ELSE at[u])
  BY <1>1, <1>2 DEF MemoryTypes
<1>19. HeldSound'
  <2>1. ASSUME NEW u \in Threads
        PROVE  held'[u] = NoBlock <=> at'[u] = "idle"
    BY <1>2, <1>18 DEF HeldSound
  <2>2. ASSUME NEW u \in Threads, NEW c \in Blocks, held'[u] = c
        PROVE  Holds(u, c)'
    <3>1. u # t /\ held[u] = c
      BY <1>18, <2>2, BlockAssumption
    <3>2. Holds(u, c) /\ c # b
      BY <1>2, <1>14, <3>1 DEF HeldSound
    <3>3. ~Free(c)' /\ ~Owned(c)'
      BY <1>11, <1>17, <3>2 DEF Holds
    <3>4. \A v \in Threads \ {u} : held'[v] # c
      BY <1>18, <3>2, BlockAssumption DEF Holds
    <3> QED
      BY <1>1, <1>18, <3>1, <3>2, <3>3, <3>4 DEF Holds
  <2> QED
    BY <2>1, <2>2 DEF HeldSound
<1>20. OwnedSound'
  BY <1>1, <1>2, <1>11 DEF OwnedSound
<1> QED
  BY <1>15, <1>16, <1>19, <1>20 DEF BlockInv

-----------------------------------------------------------------------------

LEMMA BlockStep ==
  ASSUME BlockInv, SizesAllocable, [Next]_allVars
  PROVE  BlockInv'
<1>1. ASSUME UNCHANGED <<memoryVars, buffer>>
      PROVE  BlockInv'
  BY <1>1, BlockQuiet
<1>2. CASE BrodcastS_Move \/ BrodcastS_EnemyMove \/ Deliver
  BY <1>1, <1>2 DEF BrodcastS_Move, BrodcastS_EnemyMove, Deliver, Broadcast
<1>3. ASSUME NEW t \in Threads,
             \/ ProcessC_Login(t) \/ ProcessC_Spawn(t) \/ ProcessC_Despawn(t)
             \/ ProcessC_Move(t) \/ ProcessC_Chat(t) \/ ProcessC_Attack(t)
      PROVE  BlockInv'
  BY <1>1, <1>3
  DEF ProcessC_Login, ProcessC_Spawn, ProcessC_Despawn, ProcessC_Move, ProcessC_Chat,
      ProcessC_Attack, Process
<1>4. ASSUME NEW t \in Threads, NewSendBuffer(t)
      PROVE  BlockInv'
  <2>1. PICK size : size = Head(todo[t]).size
    OBVIOUS
  <2>2. Allocable(size) /\ Allocate(t, size) /\ buffer' = buffer
    BY <1>4, <2>1 DEF NewSendBuffer, SizesAllocable, codecVars
  <2> QED
    BY <2>2, AllocateSound
<1>5. ASSUME NEW t \in Threads, xnew(t)
      PROVE  BlockInv'
  <2>1. PICK size \in Objects : Allocate(t, size)
    BY <1>5 DEF xnew
  <2>2. Allocable(size) /\ buffer' = buffer
    BY <1>5, ObjectAssumption DEF xnew, codecVars
  <2> QED
    BY <2>1, <2>2, AllocateSound
<1>6. ASSUME NEW t \in Threads, Attach(t)
      PROVE  BlockInv'
  BY <1>6, AttachSound DEF Attach, codecVars
<1>7. ASSUME NEW t \in Threads, WriteAnswer(t)
      PROVE  BlockInv'
  <2>1. PICK x : x = Head(todo[t])
    OBVIOUS
  <2> QED
    BY <1>7, <2>1, GiveSound DEF WriteAnswer
<1>8. ASSUME NEW t \in Threads, Construct(t)
      PROVE  BlockInv'
  <2>1. PICK x : x = Answer(None, TRUE, None, real[t] - HeaderSize)
    OBVIOUS
  <2> QED
    BY <1>8, <2>1, GiveSound DEF Construct
<1>9. ASSUME NEW t \in Threads, Release(t)
      PROVE  BlockInv'
  BY <1>9, ReleaseSound DEF Release, Owned
<1>10. ASSUME NEW t \in Threads, Push(t)
       PROVE  BlockInv'
  BY <1>10, PushSound DEF Push, codecVars
<1>11. CASE UNCHANGED allVars
  BY <1>1, <1>11 DEF allVars, codecVars
<1> QED
  BY <1>2, <1>3, <1>4, <1>5, <1>6, <1>7, <1>8, <1>9, <1>10, <1>11 DEF Next

LEMMA BlockInvSound ==
  ASSUME BlockInv
  PROVE  BlocksSound
<1>1. MemoryTypes /\ PoolSound /\ HeldSound /\ OwnedSound
  BY DEF BlockInv
<1>2. ASSUME NEW q \in PoolSizes, NEW k \in 1 .. Len(m_pHeader[q])
      PROVE  /\ capacity[m_pHeader[q][k]] = q /\ m_allocSize[m_pHeader[q][k]] = 0
             /\ ~Owned(m_pHeader[q][k])
             /\ m_pHeader[q][k] \notin {held[t] : t \in Threads}
             /\ \A r \in PoolSizes : \A j \in 1 .. Len(m_pHeader[r]) :
                  m_pHeader[r][j] = m_pHeader[q][k] => q = r /\ k = j
  <2>1. /\ capacity[m_pHeader[q][k]] = q /\ m_allocSize[m_pHeader[q][k]] = 0
        /\ ~Owned(m_pHeader[q][k])
    BY <1>1 DEF PoolSound
  <2>2. ASSUME NEW t \in Threads, held[t] = m_pHeader[q][k]
        PROVE  FALSE
    <3>1. m_pHeader[q][k] \in Blocks /\ Free(m_pHeader[q][k])
      BY <1>1, ElementOfSeq DEF Free, MemoryTypes
    <3>2. Holds(t, m_pHeader[q][k])
      BY <1>1, <2>2, <3>1 DEF HeldSound
    <3> QED
      BY <3>1, <3>2 DEF Holds
  <2>3. ASSUME NEW r \in PoolSizes, NEW j \in 1 .. Len(m_pHeader[r]),
               m_pHeader[r][j] = m_pHeader[q][k]
        PROVE  q = r /\ k = j
    <3>1. q = r
      BY <1>1, <2>1, <2>3 DEF PoolSound
    <3> QED
      BY <1>1, <2>3, <3>1 DEF PoolSound
  <2> QED
    BY <2>1, <2>2, <2>3
<1>3. \A q \in PoolSizes : DOMAIN m_pHeader[q] = 1 .. Len(m_pHeader[q])
  BY <1>1, LenProperties DEF MemoryTypes
<1>4. ASSUME NEW t \in Threads, held[t] # NoBlock
      PROVE  /\ ~Owned(held[t])
             /\ \A u \in Threads \ {t} : held[u] # held[t]
             /\ at[t] \in {"attach", "push"} <=> m_allocSize[held[t]] = 0
  <2>1. held[t] \in Blocks /\ at[t] \in {"attach", "own", "push"}
    BY <1>1, <1>4 DEF MemoryTypes, HeldSound
  <2>2. Holds(t, held[t])
    BY <1>1, <2>1 DEF HeldSound
  <2>3. real[t] # 0
    BY <2>2, CapacityLarge DEF Holds, HeaderSize
  <2> QED
    BY <2>1, <2>2, <2>3 DEF Holds
<1>5. ASSUME NEW b \in Blocks, Owned(b)
      PROVE  m_allocSize[b] \in HeaderSize + 1 .. capacity[b]
  <2>1. m_allocSize[b] \in Sizes /\ capacity[b] = CapacityFor(m_allocSize[b])
    BY <1>1, <1>5 DEF OwnedSound
  <2> QED
    BY <2>1, CapacityLarge DEF HeaderSize
<1> QED
  BY <1>2, <1>3, <1>4, <1>5 DEF BlocksSound

-----------------------------------------------------------------------------
(* What Total adds up.  Total is a sum over a sequence, a function recursive in  *)
(* its length: SetInduction on the lengths gives what it does at either end.   *)

\* Induction over a set of numbers: one that has 0, and with a number the
\* next one, has them all, since the least one outside it would follow one
\* that is inside.
LEMMA SetInduction ==
  ASSUME NEW S, 0 \in S, \A n \in Nat : n \in S => n + 1 \in S
  PROVE  Nat \subseteq S
<1>1. ASSUME Nat \ S # {}
      PROVE  FALSE
  <2>1. PICK n \in Nat \ S : \A k \in Nat \ S : <<k, n>> \notin OpToRel(<, Nat)
    BY <1>1, NatLessThanWellFounded, WFMin, Zenon
  <2>2. n - 1 \in Nat /\ (n - 1) + 1 = n
    OBVIOUS
  <2>3. <<n - 1, n>> \in OpToRel(<, Nat)
    BY <2>2 DEF OpToRel
  <2> QED
    BY <2>1, <2>2, <2>3, Zenon
<1> QED
  BY <1>1

\* f[k] is the sum of the first k of the n numbers in s, as Total adds them.
Sums(f, s, n) == f = [k \in 0 .. n |-> IF k = 0 THEN 0 ELSE f[k - 1] + s[k]]

LEMMA SumsAt ==
  ASSUME NEW n \in Nat, NEW s, NEW f, Sums(f, s, n)
  PROVE  f[0] = 0 /\ \A k \in Nat : k < n => f[k + 1] = f[k] + s[k + 1]
<1>1. \A k \in 0 .. n : f[k] = IF k = 0 THEN 0 ELSE f[k - 1] + s[k]
  BY DEF Sums
<1>2. ASSUME NEW k \in Nat, k < n
      PROVE  f[k + 1] = f[k] + s[k + 1]
  <2>1. k + 1 \in 0 .. n /\ k + 1 # 0 /\ (k + 1) - 1 = k
    BY <1>2
  <2> QED
    BY <1>1, <2>1
<1> QED
  BY <1>1, <1>2

LEMMA SumsExist ==
  ASSUME NEW n \in Nat, NEW s
  PROVE  \E f : Sums(f, s, n)
<1> DEFINE S == {m \in Nat : \E f : Sums(f, s, m)}
<1>1. 0 \in S
  <2>1. Sums([k \in 0 .. 0 |-> 0], s, 0)
    BY DEF Sums
  <2> QED
    BY <2>1
<1>2. ASSUME NEW m \in Nat, m \in S
      PROVE  m + 1 \in S
  <2>1. PICK f : Sums(f, s, m)
    BY <1>2
  <2> DEFINE g == [k \in 0 .. m + 1 |-> IF k = 0 THEN 0 ELSE f[k - 1] + s[k]]
  <2>2. \A k \in 0 .. m : g[k] = f[k]
    <3>1. \A k \in 0 .. m : f[k] = IF k = 0 THEN 0 ELSE f[k - 1] + s[k]
      BY <2>1 DEF Sums
    <3> QED
      BY <3>1
  <2>3. \A k \in 0 .. m + 1 : k # 0 => k - 1 \in 0 .. m
    OBVIOUS
  <2>4. Sums(g, s, m + 1)
    BY <2>2, <2>3 DEF Sums
  <2> QED
    BY <2>4
<1>3. n \in S
  <2> HIDE DEF S
  <2> QED
    BY <1>1, <1>2, SetInduction
<1> QED
  BY <1>3

\* Sums of numbers are numbers, and of sizes up to 96 no more than that each.
LEMMA SumsNat ==
  ASSUME NEW n \in Nat, NEW s, \A k \in 1 .. n : s[k] \in Nat, NEW f, Sums(f, s, n)
  PROVE  \A k \in 0 .. n : f[k] \in Nat
<1>1. f[0] = 0 /\ \A k \in Nat : k < n => f[k + 1] = f[k] + s[k + 1]
  BY SumsAt
<1> DEFINE S == {k \in Nat : k <= n => f[k] \in Nat}
<1>2. 0 \in S
  BY <1>1
<1>3. ASSUME NEW k \in Nat, k \in S
      PROVE  k + 1 \in S
  BY <1>1, <1>3
<1>4. Nat \subseteq S
  <2> HIDE DEF S
  <2> QED
    BY <1>2, <1>3, SetInduction
<1> QED
  BY <1>4

LEMMA SumsBound ==
  ASSUME NEW n \in Nat, NEW s, \A k \in 1 .. n : s[k] \in 0 .. 96, NEW f, Sums(f, s, n)
  PROVE  \A k \in 0 .. n : f[k] \in 0 .. 96 * k
<1>1. f[0] = 0 /\ \A k \in Nat : k < n => f[k + 1] = f[k] + s[k + 1]
  BY SumsAt
<1> DEFINE S == {k \in Nat : k <= n => f[k] \in 0 .. 96 * k}
<1>2. 0 \in S
  BY <1>1
<1>3. ASSUME NEW k \in Nat, k \in S
      PROVE  k + 1 \in S
  BY <1>1, <1>3
<1>4. Nat \subseteq S
  <2> HIDE DEF S
  <2> QED
    BY <1>2, <1>3, SetInduction
<1> QED
  BY <1>4

LEMMA TotalIs ==
  ASSUME NEW n \in Nat, NEW s, Len(s) = n
  PROVE  \E f : Sums(f, s, n) /\ Total(s) = f[n]
<1> DEFINE f == CHOOSE h : Sums(h, s, n)
<1>1. Sums(f, s, n)
  BY SumsExist
<1>2. Total(s) = f[n]
  BY Zenon DEF Total, Sums
<1> QED
  BY <1>1, <1>2, Zenon

LEMMA TotalNat ==
  ASSUME NEW n \in Nat, NEW s, Len(s) = n, \A k \in 1 .. n : s[k] \in Nat
  PROVE  Total(s) \in Nat
<1>1. PICK f : Sums(f, s, n) /\ Total(s) = f[n]
  BY TotalIs
<1>2. \A k \in 0 .. n : f[k] \in Nat
  BY <1>1, SumsNat
<1> QED
  BY <1>1, <1>2

LEMMA TotalBound ==
  ASSUME NEW n \in Nat, NEW s, Len(s) = n, \A k \in 1 .. n : s[k] \in 0 .. 96
  PROVE  Total(s) \in 0 .. 96 * n
<1>1. PICK f : Sums(f, s, n) /\ Total(s) = f[n]
  BY TotalIs
<1>2. \A k \in 0 .. n : f[k] \in 0 .. 96 * k
  BY <1>1, SumsBound
<1>3. n \in 0 .. n
  OBVIOUS
<1> QED
  BY <1>1, <1>2, <1>3, Zenon

\* c is a and then b: its sums go on from those of a as those of b.
LEMMA TotalJoined ==
  ASSUME NEW n \in Nat, NEW m \in Nat, NEW a, NEW b, NEW c,
         Len(a) = n, Len(b) = m, Len(c) = n + m,
         \A k \in 1 .. n : a[k] \in Nat, \A k \in 1 .. n : c[k] = a[k],
         \A k \in 1 .. m : b[k] \in Nat, \A k \in 1 .. m : c[n + k] = b[k]
  PROVE  Total(c) = Total(a) + Total(b)
<1>1. PICK f : Sums(f, a, n) /\ Total(a) = f[n]
  BY TotalIs
<1>2. PICK g : Sums(g, b, m) /\ Total(b) = g[m]
  BY TotalIs
<1>3. PICK h : Sums(h, c, n + m) /\ Total(c) = h[n + m]
  <2>1. n + m \in Nat
    OBVIOUS
  <2> QED
    BY <2>1, TotalIs
<1>4. f[0] = 0 /\ \A k \in Nat : k < n => f[k + 1] = f[k] + a[k + 1]
  BY ONLY n \in Nat, <1>1, SumsAt
<1>5. g[0] = 0 /\ \A k \in Nat : k < m => g[k + 1] = g[k] + b[k + 1]
  BY ONLY m \in Nat, <1>2, SumsAt
<1>6. h[0] = 0 /\ \A k \in Nat : k < n + m => h[k + 1] = h[k] + c[k + 1]
  <2>1. n + m \in Nat
    OBVIOUS
  <2> QED
    BY ONLY <2>1, <1>3, SumsAt
<1>7. (\A k \in 0 .. n : f[k] \in Nat) /\ (\A k \in 0 .. m : g[k] \in Nat)
  BY <1>1, <1>2, SumsNat
<1>8. h[n] = f[n]
  <2> DEFINE S == {k \in Nat : k <= n => h[k] = f[k]}
  <2>1. 0 \in S
    BY <1>4, <1>6
  <2>2. ASSUME NEW k \in Nat, k \in S
        PROVE  k + 1 \in S
    <3> SUFFICES ASSUME k + 1 <= n PROVE h[k + 1] = f[k + 1]
      OBVIOUS
    <3>1. k < n /\ k < n + m /\ k + 1 \in 1 .. n /\ h[k] = f[k]
      BY <2>2
    <3> QED
      BY <1>4, <1>6, <3>1
  <2>3. Nat \subseteq S
    <3> HIDE DEF S
    <3> QED
      BY <2>1, <2>2, SetInduction
  <2> QED
    BY <2>3
<1>9. \A k \in 0 .. m : h[n + k] = f[n] + g[k]
  <2> DEFINE S == {k \in Nat : k <= m => h[n + k] = f[n] + g[k]}
  <2>1. 0 \in S
    BY <1>5, <1>7, <1>8
  <2>2. ASSUME NEW k \in Nat, k \in S
        PROVE  k + 1 \in S
    <3> SUFFICES ASSUME k + 1 <= m PROVE h[n + (k + 1)] = f[n] + g[k + 1]
      OBVIOUS
    <3>1. /\ k < m /\ n + k \in Nat /\ n + k < n + m /\ k + 1 \in 1 .. m
          /\ n + (k + 1) = (n + k) + 1 /\ h[n + k] = f[n] + g[k]
      BY <2>2
    <3>2. g[k + 1] = g[k] + b[k + 1] /\ b[k + 1] \in Nat /\ g[k] \in Nat /\ f[n] \in Nat
      BY <1>5, <1>7, <3>1
    <3>3. h[n + (k + 1)] = (f[n] + g[k]) + b[k + 1]
      BY <1>6, <3>1
    <3> QED
      BY <3>2, <3>3
  <2>3. Nat \subseteq S
    <3> HIDE DEF S
    <3> QED
      BY <2>1, <2>2, SetInduction
  <2> QED
    BY <2>3
<1> QED
  BY <1>9, <1>1, <1>2, <1>3

-----------------------------------------------------------------------------
(* How long what is written is *)

\* s is a sequence of tokens that take n bytes.
Written(s, n) ==
  /\ \E A : s \in Seq(A)
  /\ \A k \in 1 .. Len(s) : s[k].size \in Nat
  /\ Bytes(s) = n

LEMMA WrittenNat ==
  ASSUME NEW s, NEW n, Written(s, n)
  PROVE  n \in Nat
<1>1. PICK l \in Nat : l = Len(s)
  BY LenProperties DEF Written
<1>2. PICK z : z = [k \in 1 .. Len(s) |-> s[k].size]
  OBVIOUS
<1>3. Len(z) = l /\ \A k \in 1 .. l : z[k] \in Nat
  BY <1>1, <1>2 DEF Written
<1>4. Total(z) \in Nat
  BY <1>3, TotalNat
<1> QED
  BY <1>2, <1>4, Zenon DEF Written, Bytes

LEMMA WrittenNothing == Written(<<>>, 0)
<1>1. PICK z : z = [k \in 1 .. Len(<<>>) |-> <<>>[k].size]
  OBVIOUS
<1>2. Len(z) = 0 /\ Len(<<>>) = 0 /\ <<>> \in Seq({})
  BY <1>1, EmptySeq
<1>3. Total(z) \in 0 .. 96 * 0
  <2>1. \A k \in 1 .. 0 : z[k] \in 0 .. 96
    OBVIOUS
  <2> QED
    BY <1>2, <2>1, TotalBound
<1>4. Total(z) = 0
  BY <1>3
<1>5. Bytes(<<>>) = 0
  BY <1>1, <1>4, Zenon DEF Bytes
<1> QED
  BY <1>2, <1>5 DEF Written

LEMMA WrittenToken ==
  ASSUME NEW t, t.size \in Nat
  PROVE  Written(<<t>>, t.size)
<1>1. PICK z : z = [k \in 1 .. Len(<<t>>) |-> <<t>>[k].size]
  OBVIOUS
<1>2. Len(<<t>>) = 1 /\ <<t>>[1] = t /\ <<t>> \in Seq({t})
  OBVIOUS
<1>3. Len(z) = 1 /\ z[1] = t.size
  BY <1>1, <1>2
<1>4. Total(z) = t.size
  <2>1. PICK f : Sums(f, z, 1) /\ Total(z) = f[1]
    BY <1>3, TotalIs
  <2>2. f[0] = 0 /\ f[0 + 1] = f[0] + z[0 + 1]
    BY <2>1, SumsAt
  <2> QED
    BY <1>3, <2>1, <2>2
<1>5. Bytes(<<t>>) = t.size
  BY <1>1, <1>4, Zenon DEF Bytes
<1>6. \A k \in 1 .. Len(<<t>>) : <<t>>[k].size \in Nat
  BY <1>2
<1> QED
  BY <1>2, <1>5, <1>6, Zenon DEF Written

LEMMA WrittenJoined ==
  ASSUME NEW s, NEW t, NEW n, NEW m, Written(s, n), Written(t, m)
  PROVE  Written(s \o t, n + m)
<1>1. PICK A, B : s \in Seq(A) /\ t \in Seq(B)
  BY DEF Written
<1>2. PICK C : C = A \cup B
  OBVIOUS
<1>3. s \in Seq(C) /\ t \in Seq(C)
  BY <1>1, <1>2
<1>4. PICK l \in Nat, r \in Nat : l = Len(s) /\ r = Len(t)
  BY <1>3, LenProperties
<1>5. PICK st : st = s \o t
  OBVIOUS
<1>6. /\ st \in Seq(C) /\ Len(st) = l + r
      /\ \A k \in 1 .. l + r : st[k] = IF k <= l THEN s[k] ELSE t[k - l]
  BY <1>3, <1>4, <1>5, ConcatProperties
<1>7. (\A k \in 1 .. l : st[k] = s[k]) /\ (\A k \in 1 .. r : st[l + k] = t[k])
  BY <1>6
<1>8. PICK a, b, c : /\ a = [k \in 1 .. Len(s) |-> s[k].size]
                     /\ b = [k \in 1 .. Len(t) |-> t[k].size]
                     /\ c = [k \in 1 .. Len(st) |-> st[k].size]
  BY Zenon
<1>9. /\ Len(a) = l /\ Len(b) = r /\ Len(c) = l + r
      /\ \A k \in 1 .. l : a[k] \in Nat /\ a[k] = s[k].size
      /\ \A k \in 1 .. r : b[k] \in Nat /\ b[k] = t[k].size
      /\ \A k \in 1 .. l + r : c[k] = st[k].size
  BY <1>4, <1>6, <1>8 DEF Written
<1>10. /\ \A k \in 1 .. l : a[k] \in Nat
       /\ \A k \in 1 .. l : c[k] = a[k]
       /\ \A k \in 1 .. r : b[k] \in Nat
       /\ \A k \in 1 .. r : c[l + k] = b[k]
  <2>1. (\A k \in 1 .. l : k \in 1 .. l + r) /\ (\A k \in 1 .. r : l + k \in 1 .. l + r)
    OBVIOUS
  <2>2. ASSUME NEW k \in 1 .. l
        PROVE  a[k] \in Nat /\ c[k] = a[k]
    <3>1. a[k] \in Nat /\ a[k] = s[k].size
      BY <1>9
    <3>2. c[k] = st[k].size /\ st[k] = s[k]
      BY <1>7, <1>9, <2>1
    <3> QED
      BY <3>1, <3>2
  <2>3. ASSUME NEW k \in 1 .. r
        PROVE  b[k] \in Nat /\ c[l + k] = b[k]
    <3>1. b[k] \in Nat /\ b[k] = t[k].size
      BY <1>9
    <3>2. c[l + k] = st[l + k].size /\ st[l + k] = t[k]
      BY <1>7, <1>9, <2>1
    <3> QED
      BY <3>1, <3>2
  <2> QED
    BY <2>2, <2>3
<1>11. Total(c) = Total(a) + Total(b)
  BY <1>9, <1>10, TotalJoined
<1>12. Bytes(st) = n + m
  BY <1>8, <1>11, Zenon DEF Written, Bytes
<1>13. \A k \in 1 .. Len(st) : st[k].size \in Nat
  <2> SUFFICES ASSUME NEW k \in 1 .. l + r PROVE st[k].size \in Nat
    BY <1>6
  <2>1. (\A j \in 1 .. l : s[j].size \in Nat) /\ (\A j \in 1 .. r : t[j].size \in Nat)
    BY <1>4 DEF Written
  <2>2. k \in 1 .. l \/ (~(k <= l) /\ k - l \in 1 .. r)
    OBVIOUS
  <2> QED
    BY <2>1, <2>2, <1>6
<1> QED
  BY <1>5, <1>6, <1>12, <1>13 DEF Written

-----------------------------------------------------------------------------
(* The fields *)

LEMMA VarintSizes ==
  /\ \A v \in Int : VarintSize(v) \in 1 .. 10
  /\ \A v \in Nat : VarintSize(v) \in 1 .. 5
  /\ \A v \in 0 .. 127 : VarintSize(v) = 1
<1> DEFINE Fits(v, n) == /\ n = 5 \/ v < VarintLimit[n]
                         /\ n = 1 \/ v >= VarintLimit[n - 1]
<1>1. ASSUME NEW v \in Nat
      PROVE  (\E n \in 1 .. 5 : Fits(v, n)) /\ (v < 128 => \A n \in 1 .. 5 : Fits(v, n) => n = 1)
  <2>1. /\ VarintLimit[1] = 128 /\ VarintLimit[2] = 16384
        /\ VarintLimit[3] = 2097152 /\ VarintLimit[4] = 268435456
    BY DEF VarintLimit
  <2>2. /\ v < 128 => Fits(v, 1)
        /\ v >= 128 /\ v < 16384 => Fits(v, 2)
        /\ v >= 16384 /\ v < 2097152 => Fits(v, 3)
        /\ v >= 2097152 /\ v < 268435456 => Fits(v, 4)
        /\ v >= 268435456 => Fits(v, 5)
    BY <2>1
  <2>3. v < 128 => \A n \in 1 .. 5 : Fits(v, n) => n = 1
    BY <2>1
  <2> HIDE DEF Fits
  <2> QED
    BY <2>2, <2>3
<1>2. ASSUME NEW v \in Nat
      PROVE  VarintSize(v) \in 1 .. 5 /\ (v < 128 => VarintSize(v) = 1)
  <2>1. VarintSize(v) = CHOOSE n \in 1 .. 5 : Fits(v, n)
    BY DEF VarintSize
  <2> HIDE DEF Fits
  <2> QED
    BY <1>1, <2>1
<1>3. \A v \in Int : v < 0 => VarintSize(v) = 10
  BY DEF VarintSize
<1> QED
  BY <1>2, <1>3

LEMMA TokenWritten ==
  ASSUME NEW n, NEW type, NEW v, NEW size \in Nat
  PROVE  Written(<<Token(n, type, v, size)>>, 1 + size)
<1>1. Token(n, type, v, size).size = 1 + size /\ 1 + size \in Nat
  BY DEF Token
<1>2. PICK t : t = Token(n, type, v, size)
  OBVIOUS
<1>3. Written(<<t>>, t.size)
  BY <1>1, <1>2, WrittenToken
<1> QED
  BY <1>1, <1>2, <1>3, Zenon

LEMMA Int32Written ==
  ASSUME NEW m, NEW f, NEW n, f \in DOMAIN m => m[f] \in Int
  PROVE  Written(WriteInt32(m, f, n), Int32SizePlusOne(m, f))
<1>1. CASE f \in DOMAIN m
  <2>1. VarintSize(m[f]) \in Nat
    BY <1>1, VarintSizes
  <2>2. Written(<<Token(n, "varint", m[f], VarintSize(m[f]))>>, 1 + VarintSize(m[f]))
    BY <2>1, TokenWritten
  <2> QED
    BY <1>1, <2>2, Zenon DEF WriteInt32, Int32SizePlusOne
<1>2. CASE f \notin DOMAIN m
  BY <1>2, WrittenNothing, Zenon DEF WriteInt32, Int32SizePlusOne
<1> QED
  BY <1>1, <1>2

LEMMA BoolWritten ==
  ASSUME NEW m, NEW f, NEW n
  PROVE  Written(WriteBool(m, f, n), FixedSize(m, f, 2))
<1>1. CASE f \in DOMAIN m
  <2>1. PICK v : v = IF m[f] THEN 1 ELSE 0
    OBVIOUS
  <2>2. Written(<<Token(n, "varint", v, 1)>>, 2)
    <3>1. Written(<<Token(n, "varint", v, 1)>>, 1 + 1)
      BY TokenWritten
    <3> QED
      BY <3>1
  <2> QED
    BY <1>1, <2>1, <2>2, Zenon DEF WriteBool, FixedSize
<1>2. CASE f \notin DOMAIN m
  BY <1>2, WrittenNothing, Zenon DEF WriteBool, FixedSize
<1> QED
  BY <1>1, <1>2

LEMMA FloatWritten ==
  ASSUME NEW m, NEW f, NEW n
  PROVE  Written(WriteFloat(m, f, n), FixedSize(m, f, 5)) /\ FixedSize(m, f, 5) \in 0 .. 5
<1>1. CASE f \in DOMAIN m
  <2>1. Written(<<Token(n, "fixed32", m[f], 4)>>, 5)
    <3>1. Written(<<Token(n, "fixed32", m[f], 4)>>, 1 + 4)
      BY TokenWritten
    <3> QED
      BY <3>1
  <2> QED
    BY <1>1, <2>1 DEF WriteFloat, FixedSize
<1>2. CASE f \notin DOMAIN m
  BY <1>2, WrittenNothing DEF WriteFloat, FixedSize
<1> QED
  BY <1>1, <1>2

LEMMA StringWritten ==
  ASSUME NEW m, NEW f, NEW n, f \in DOMAIN m => m[f] \in Nat
  PROVE  Written(WriteString(m, f, n), StringSize(m, f))
<1>1. CASE f \in DOMAIN m
  <2>1. VarintSize(m[f]) + m[f] \in Nat
    BY <1>1, VarintSizes
  <2>2. Written(<<Token(n, "delimited", m[f], VarintSize(m[f]) + m[f])>>,
                1 + (VarintSize(m[f]) + m[f]))
    BY <2>1, TokenWritten
  <2> QED
    BY <1>1, <2>2, Zenon DEF WriteString, StringSize, LengthDelimitedSize
<1>2. CASE f \notin DOMAIN m
  BY <1>2, WrittenNothing, Zenon DEF WriteString, StringSize
<1> QED
  BY <1>1, <1>2

\* A message inside another one, of which b is what it writes itself.
LEMMA PartWritten ==
  ASSUME NEW m, NEW f, NEW n, NEW b, NEW size, f \in DOMAIN m => Written(b, size)
  PROVE  Written(IF f \in DOMAIN m
                 THEN <<Token(n, "delimited", b, VarintSize(size) + Bytes(b))>> ELSE <<>>,
                 IF f \in DOMAIN m THEN 1 + LengthDelimitedSize(size) ELSE 0)
<1>1. CASE f \in DOMAIN m
  <2>1. size \in Nat /\ Bytes(b) = size
    BY <1>1, WrittenNat DEF Written
  <2>2. VarintSize(size) + Bytes(b) \in Nat
    BY <2>1, VarintSizes
  <2>3. Written(<<Token(n, "delimited", b, VarintSize(size) + Bytes(b))>>,
                1 + (VarintSize(size) + Bytes(b)))
    BY <2>2, TokenWritten
  <2> QED
    BY <1>1, <2>1, <2>3, Zenon DEF LengthDelimitedSize
<1>2. CASE f \notin DOMAIN m
  BY <1>2, WrittenNothing, Zenon
<1> QED
  BY <1>1, <1>2

LEMMA CoordianteWritten ==
  ASSUME NEW m
  PROVE  /\ Written(CoordianteSerialize(m), CoordianteByteSizeLong(m))
         /\ CoordianteByteSizeLong(m) \in 0 .. 15
<1>1. /\ Written(WriteFloat(m, "x", 1), FixedSize(m, "x", 5)) /\ FixedSize(m, "x", 5) \in 0 .. 5
      /\ Written(WriteFloat(m, "y", 2), FixedSize(m, "y", 5)) /\ FixedSize(m, "y", 5) \in 0 .. 5
      /\ Written(WriteFloat(m, "z", 3), FixedSize(m, "z", 5)) /\ FixedSize(m, "z", 5) \in 0 .. 5
  BY FloatWritten
<1>2. Written(WriteFloat(m, "x", 1) \o WriteFloat(m, "y", 2),
              FixedSize(m, "x", 5) + FixedSize(m, "y", 5))
  BY <1>1, WrittenJoined, Zenon
<1>3. Written(CoordianteSerialize(m), CoordianteByteSizeLong(m))
  BY <1>1, <1>2, WrittenJoined, Zenon DEF CoordianteSerialize, CoordianteByteSizeLong
<1> QED
  BY <1>1, <1>3 DEF CoordianteByteSizeLong

LEMMA RotationWritten ==
  ASSUME NEW m
  PROVE  /\ Written(RotationSerialize(m), RotationByteSizeLong(m))
         /\ RotationByteSizeLong(m) \in 0 .. 15
  BY CoordianteWritten
  DEF CoordianteSerialize, CoordianteByteSizeLong, RotationSerialize, RotationByteSizeLong

LEMMA VelocityWritten ==
  ASSUME NEW m
  PROVE  /\ Written(VelocitySerialize(m), VelocityByteSizeLong(m))
         /\ VelocityByteSizeLong(m) \in 0 .. 15
  BY CoordianteWritten
  DEF CoordianteSerialize, CoordianteByteSizeLong, VelocitySerialize, VelocityByteSizeLong

\* A part as it is written and as it is counted, with names of their own.
CoordField(m, f, n) == WriteMessage(m, f, n, CoordianteSerialize, CoordianteByteSizeLong)
CoordSize(m, f) == MessageSize(m, f, CoordianteByteSizeLong)

LEMMA CoordFieldWritten ==
  ASSUME NEW m, NEW f, NEW n
  PROVE  Written(CoordField(m, f, n), CoordSize(m, f)) /\ CoordSize(m, f) \in 0 .. 17
<1>1. /\ Written(CoordianteSerialize(m[f]), CoordianteByteSizeLong(m[f]))
      /\ CoordianteByteSizeLong(m[f]) \in 0 .. 15
  BY CoordianteWritten
<1>2. VarintSize(CoordianteByteSizeLong(m[f])) = 1
  BY <1>1, VarintSizes
<1>3. CoordSize(m, f) \in 0 .. 17
  BY <1>1, <1>2 DEF CoordSize, MessageSize, LengthDelimitedSize
<1>4. Written(CoordField(m, f, n), CoordSize(m, f))
  BY <1>1, PartWritten, Zenon DEF CoordField, CoordSize, WriteMessage, MessageToken, MessageSize
<1> QED
  BY <1>3, <1>4

RotField(m, f, n) == WriteMessage(m, f, n, RotationSerialize, RotationByteSizeLong)
RotSize(m, f) == MessageSize(m, f, RotationByteSizeLong)

LEMMA RotFieldWritten ==
  ASSUME NEW m, NEW f, NEW n
  PROVE  Written(RotField(m, f, n), RotSize(m, f)) /\ RotSize(m, f) \in 0 .. 17
<1>1. /\ Written(RotationSerialize(m[f]), RotationByteSizeLong(m[f]))
      /\ RotationByteSizeLong(m[f]) \in 0 .. 15
  BY RotationWritten
<1>2. VarintSize(RotationByteSizeLong(m[f])) = 1
  BY <1>1, VarintSizes
<1>3. RotSize(m, f) \in 0 .. 17
  BY <1>1, <1>2 DEF RotSize, MessageSize, LengthDelimitedSize
<1>4. Written(RotField(m, f, n), RotSize(m, f))
  BY <1>1, PartWritten, Zenon DEF RotField, RotSize, WriteMessage, MessageToken, MessageSize
<1> QED
  BY <1>3, <1>4

VelField(m, f, n) == WriteMessage(m, f, n, VelocitySerialize, VelocityByteSizeLong)
VelSize(m, f) == MessageSize(m, f, VelocityByteSizeLong)

LEMMA VelFieldWritten ==
  ASSUME NEW m, NEW f, NEW n
  PROVE  Written(VelField(m, f, n), VelSize(m, f)) /\ VelSize(m, f) \in 0 .. 17
<1>1. /\ Written(VelocitySerialize(m[f]), VelocityByteSizeLong(m[f]))
      /\ VelocityByteSizeLong(m[f]) \in 0 .. 15
  BY VelocityWritten
<1>2. VarintSize(VelocityByteSizeLong(m[f])) = 1
  BY <1>1, VarintSizes
<1>3. VelSize(m, f) \in 0 .. 17
  BY <1>1, <1>2 DEF VelSize, MessageSize, LengthDelimitedSize
<1>4. Written(VelField(m, f, n), VelSize(m, f))
  BY <1>1, PartWritten, Zenon DEF VelField, VelSize, WriteMessage, MessageToken, MessageSize
<1> QED
  BY <1>3, <1>4

\* How long the fields of a player and of an enemy are.
LEMMA Int32Size ==
  ASSUME NEW m, NEW f, f \in DOMAIN m => m[f] \in Int
  PROVE  /\ Int32SizePlusOne(m, f) \in 0 .. 11
         /\ (f \in DOMAIN m => m[f] \in MoveState) => Int32SizePlusOne(m, f) \in 0 .. 2
  BY VarintSizes DEF Int32SizePlusOne, MoveState, IDLE

LEMMA BoolSize == \A m, f : FixedSize(m, f, 2) \in 0 .. 2
  BY DEF FixedSize

LEMMA Int32Int == \A v \in Int32 : v \in Int
  BY DEF Int32

LEMMA PlayerTypes ==
  ASSUME NEW m, Player(m)
  PROVE  /\ "id" \in DOMAIN m => m["id"] \in Int32
         /\ "hp" \in DOMAIN m => m["hp"] \in Int32
         /\ "battack" \in DOMAIN m => m["battack"] \in BOOLEAN
         /\ "movestate" \in DOMAIN m => m["movestate"] \in MoveState
<1>1. PICK r : r = [f \in {"id", "hp", "battack", "movestate"} \cap DOMAIN m |-> m[f]]
  OBVIOUS
<1>2. PICK types : types = [id |-> Int32, hp |-> Int32, battack |-> BOOLEAN, movestate |-> MoveState]
  OBVIOUS
<1>3. \A f \in DOMAIN r : r[f] \in types[f]
  BY <1>1, <1>2 DEF Player, HasFields, Restrict
<1> QED
  BY <1>1, <1>2, <1>3

LEMMA PlayerFields ==
  ASSUME NEW m, Player(m)
  PROVE  /\ "id" \in DOMAIN m => m["id"] \in Int
         /\ "hp" \in DOMAIN m => m["hp"] \in Int
         /\ "battack" \in DOMAIN m => m["battack"] \in BOOLEAN
         /\ "movestate" \in DOMAIN m => m["movestate"] \in Int /\ m["movestate"] \in MoveState
BY PlayerTypes, Int32Int DEF MoveState, IDLE

LEMMA EnemyTypes ==
  ASSUME NEW m, Enemy(m)
  PROVE  /\ "id" \in DOMAIN m => m["id"] \in Int32
         /\ "hp" \in DOMAIN m => m["hp"] \in Int32
         /\ "bnewdest" \in DOMAIN m => m["bnewdest"] \in BOOLEAN
         /\ "movestate" \in DOMAIN m => m["movestate"] \in MoveState
<1>1. PICK r : r = [f \in {"id", "hp", "movestate", "bnewdest"} \cap DOMAIN m |-> m[f]]
  OBVIOUS
<1>2. PICK types : types = [id |-> Int32, hp |-> Int32, movestate |-> MoveState, bnewdest |-> BOOLEAN]
  OBVIOUS
<1>3. \A f \in DOMAIN r : r[f] \in types[f]
  BY <1>1, <1>2 DEF Enemy, HasFields, Restrict
<1> QED
  BY <1>1, <1>2, <1>3

LEMMA EnemyFields ==
  ASSUME NEW m, Enemy(m)
  PROVE  /\ "id" \in DOMAIN m => m["id"] \in Int
         /\ "hp" \in DOMAIN m => m["hp"] \in Int
         /\ "bnewdest" \in DOMAIN m => m["bnewdest"] \in BOOLEAN
         /\ "movestate" \in DOMAIN m => m["movestate"] \in Int /\ m["movestate"] \in MoveState
BY EnemyTypes, Int32Int DEF MoveState, IDLE

LEMMA PlayerWritten ==
  ASSUME NEW m, Player(m)
  PROVE  /\ Written(PlayerSerialize(m), PlayerByteSizeLong(m))
         /\ PlayerByteSizeLong(m) \in 0 .. 94
<1>1. PICK s1, s2, s3, s4, s5, s6, s7, s8 :
        /\ s1 = WriteInt32(m, "id", 1) /\ s2 = WriteInt32(m, "hp", 2)
        /\ s3 = WriteBool(m, "battack", 3)
        /\ s4 = CoordField(m, "coord", 4)
        /\ s5 = RotField(m, "rot", 5)
        /\ s6 = VelField(m, "vel", 6)
        /\ s7 = CoordField(m, "dir", 7)
        /\ s8 = WriteEnum(m, "movestate", 8)
  BY Zenon
<1>2. PICK n1, n2, n3, n4, n5, n6, n7, n8 :
        /\ n1 = Int32SizePlusOne(m, "id") /\ n2 = Int32SizePlusOne(m, "hp")
        /\ n3 = FixedSize(m, "battack", 2)
        /\ n4 = CoordSize(m, "coord")
        /\ n5 = RotSize(m, "rot")
        /\ n6 = VelSize(m, "vel")
        /\ n7 = CoordSize(m, "dir")
        /\ n8 = Int32SizePlusOne(m, "movestate")
  BY Zenon
<1>3. /\ Written(s1, n1) /\ n1 \in 0 .. 11 /\ Written(s2, n2) /\ n2 \in 0 .. 11
  BY <1>1, <1>2, PlayerFields, Int32Written, Int32Size
<1>4. /\ Written(s3, n3) /\ n3 \in 0 .. 2
  BY <1>1, <1>2, BoolWritten, BoolSize
<1>5. /\ Written(s4, n4) /\ n4 \in 0 .. 17 /\ Written(s7, n7) /\ n7 \in 0 .. 17
  BY <1>1, <1>2, CoordFieldWritten, Zenon
<1>6. /\ Written(s5, n5) /\ n5 \in 0 .. 17 /\ Written(s6, n6) /\ n6 \in 0 .. 17
  BY <1>1, <1>2, RotFieldWritten, VelFieldWritten, Zenon
<1>7. /\ Written(s8, n8) /\ n8 \in 0 .. 2
  BY <1>1, <1>2, PlayerFields, Int32Written, Int32Size DEF WriteEnum
<1>8. Written(s1 \o s2 \o s3 \o s4, n1 + n2 + n3 + n4)
  BY <1>3, <1>4, <1>5, WrittenJoined, Zenon
<1>9. Written(s1 \o s2 \o s3 \o s4 \o s5 \o s6 \o s7 \o s8,
              n1 + n2 + n3 + n4 + n5 + n6 + n7 + n8)
  BY <1>5, <1>6, <1>7, <1>8, WrittenJoined, Zenon
<1>10. PlayerByteSizeLong(m) = n4 + n5 + n6 + n7 + n1 + n2 + n3 + n8
  BY <1>2, Zenon DEF PlayerByteSizeLong, CoordSize, RotSize, VelSize, MessageSize
<1>11. /\ PlayerByteSizeLong(m) = n1 + n2 + n3 + n4 + n5 + n6 + n7 + n8
       /\ PlayerByteSizeLong(m) \in 0 .. 94
  BY ONLY <1>3, <1>4, <1>5, <1>6, <1>7, <1>10
<1>12. PlayerSerialize(m) = s1 \o s2 \o s3 \o s4 \o s5 \o s6 \o s7 \o s8
  BY <1>1, Zenon DEF PlayerSerialize, CoordField, RotField, VelField,
                      WriteMessage, MessageToken
<1> QED
  BY <1>9, <1>11, <1>12, Zenon

LEMMA EnemyWritten ==
  ASSUME NEW m, Enemy(m)
  PROVE  /\ Written(EnemySerialize(m), EnemyByteSizeLong(m))
         /\ EnemyByteSizeLong(m) \in 0 .. 94
<1>1. PICK s1, s2, s3, s4, s5, s6, s7 :
        /\ s1 = WriteInt32(m, "id", 1) /\ s2 = WriteInt32(m, "hp", 2)
        /\ s3 = CoordField(m, "coord", 3)
        /\ s4 = RotField(m, "rot", 4)
        /\ s5 = CoordField(m, "dir", 5)
        /\ s6 = WriteEnum(m, "movestate", 6)
        /\ s7 = WriteBool(m, "bnewdest", 7)
  BY Zenon
<1>2. PICK n1, n2, n3, n4, n5, n6, n7 :
        /\ n1 = Int32SizePlusOne(m, "id") /\ n2 = Int32SizePlusOne(m, "hp")
        /\ n3 = CoordSize(m, "coord")
        /\ n4 = RotSize(m, "rot")
        /\ n5 = CoordSize(m, "dir")
        /\ n6 = Int32SizePlusOne(m, "movestate")
        /\ n7 = FixedSize(m, "bnewdest", 2)
  BY Zenon
<1>3. /\ Written(s1, n1) /\ n1 \in 0 .. 11 /\ Written(s2, n2) /\ n2 \in 0 .. 11
  BY <1>1, <1>2, EnemyFields, Int32Written, Int32Size
<1>4. /\ Written(s3, n3) /\ n3 \in 0 .. 17 /\ Written(s5, n5) /\ n5 \in 0 .. 17
  BY <1>1, <1>2, CoordFieldWritten, Zenon
<1>5. /\ Written(s4, n4) /\ n4 \in 0 .. 17
  BY <1>1, <1>2, RotFieldWritten, Zenon
<1>6. /\ Written(s6, n6) /\ n6 \in 0 .. 2
  BY <1>1, <1>2, EnemyFields, Int32Written, Int32Size DEF WriteEnum
<1>7. /\ Written(s7, n7) /\ n7 \in 0 .. 2
  BY <1>1, <1>2, BoolWritten, BoolSize
<1>8. Written(s1 \o s2 \o s3 \o s4, n1 + n2 + n3 + n4)
  BY <1>3, <1>4, <1>5, WrittenJoined, Zenon
<1>9. Written(s1 \o s2 \o s3 \o s4 \o s5 \o s6 \o s7, n1 + n2 + n3 + n4 + n5 + n6 + n7)
  BY <1>4, <1>6, <1>7, <1>8, WrittenJoined, Zenon
<1>10. EnemyByteSizeLong(m) = n3 + n4 + n5 + n1 + n2 + n6 + n7
  BY <1>2, Zenon DEF EnemyByteSizeLong, CoordSize, RotSize, MessageSize
<1>11. /\ EnemyByteSizeLong(m) = n1 + n2 + n3 + n4 + n5 + n6 + n7
       /\ EnemyByteSizeLong(m) \in 0 .. 94
  BY ONLY <1>3, <1>4, <1>5, <1>6, <1>7, <1>10
<1>12. EnemySerialize(m) = s1 \o s2 \o s3 \o s4 \o s5 \o s6 \o s7
  BY <1>1, Zenon DEF EnemySerialize, CoordField, RotField,
                      WriteMessage, MessageToken
<1> QED
  BY <1>9, <1>11, <1>12, Zenon

-----------------------------------------------------------------------------
(* The lists *)

LEMMA PartOfList ==
  ASSUME NEW b, NEW size, Written(b, size), size \in 0 .. 94
  PROVE  /\ Token(1, "delimited", b, VarintSize(size) + Bytes(b)).size
              = 1 + LengthDelimitedSize(size)
         /\ 1 + LengthDelimitedSize(size) \in 0 .. 96
<1>1. Bytes(b) = size
  BY Zenon DEF Written
<1>2. VarintSize(size) = 1
  <2>1. size \in 0 .. 127
    BY ONLY size \in 0 .. 94
  <2> QED
    BY <2>1, VarintSizes, Zenon
<1>3. Token(1, "delimited", b, VarintSize(size) + Bytes(b)).size
        = 1 + (VarintSize(size) + Bytes(b))
  BY DEF Token
<1> QED
  BY <1>1, <1>2, <1>3 DEF LengthDelimitedSize

\* Parts that each write b[k] and have counted z[k] for it.
LEMMA PartsWritten ==
  ASSUME NEW n \in Nat, NEW b, NEW z,
         \A k \in 1 .. n : Written(b[k], z[k]), \A k \in 1 .. n : z[k] \in 0 .. 94,
         NEW s, s = [k \in 1 .. n |-> Token(1, "delimited", b[k], VarintSize(z[k]) + Bytes(b[k]))],
         NEW c, c = [k \in 1 .. n |-> 1 + LengthDelimitedSize(z[k])]
  PROVE  Written(s, Total(c)) /\ Total(c) \in 0 .. 96 * n
<1>1. \A k \in 1 .. n : s[k].size = c[k] /\ c[k] \in 0 .. 96
  <2> SUFFICES ASSUME NEW k \in 1 .. n PROVE s[k].size = c[k] /\ c[k] \in 0 .. 96
    OBVIOUS
  <2>1. Written(b[k], z[k]) /\ z[k] \in 0 .. 94
    OBVIOUS
  <2>2. /\ s[k] = Token(1, "delimited", b[k], VarintSize(z[k]) + Bytes(b[k]))
        /\ c[k] = 1 + LengthDelimitedSize(z[k])
    OBVIOUS
  <2> QED
    <3>1. /\ Token(1, "delimited", b[k], VarintSize(z[k]) + Bytes(b[k])).size
                = 1 + LengthDelimitedSize(z[k])
          /\ 1 + LengthDelimitedSize(z[k]) \in 0 .. 96
      BY ONLY <2>1, PartOfList
    <3> QED
      BY ONLY <2>2, <3>1, Zenon
<1>2. DOMAIN s = 1 .. n /\ DOMAIN c = 1 .. n
  OBVIOUS
<1>3. s = [k \in 1 .. n |-> s[k]] /\ c = [k \in 1 .. n |-> c[k]]
  BY ONLY s = [k \in 1 .. n |-> Token(1, "delimited", b[k], VarintSize(z[k]) + Bytes(b[k]))],
          c = [k \in 1 .. n |-> 1 + LengthDelimitedSize(z[k])], Zenon
<1>4. \E A : s \in Seq(A)
  <2>1. PICK A : A = {s[k] : k \in 1 .. n}
    BY Zenon
  <2>2. \A k \in 1 .. n : s[k] \in A
    BY ONLY <2>1, Zenon
  <2>3. s \in [1 .. n -> A]
    BY ONLY <1>3, <2>2, Zenon
  <2>4. s \in Seq(A)
    BY ONLY n \in Nat, <2>3, SeqDef
  <2> QED
    BY <2>4, Zenon
<1>5. Len(s) = n /\ Len(c) = n
  <2>1. s \in Seq({s[k] : k \in 1 .. n}) /\ c \in Seq({c[k] : k \in 1 .. n})
    BY ONLY n \in Nat, <1>3, SeqDef
  <2> QED
    BY ONLY n \in Nat, <1>2, <2>1, LenProperties
<1>6. Bytes(s) = Total(c)
  <2>1. [k \in 1 .. n |-> s[k].size] = c
    BY ONLY <1>1, <1>3, Zenon
  <2> QED
    BY ONLY <1>5, <2>1, Zenon DEF Bytes
<1>7. Total(c) \in 0 .. 96 * n
  BY ONLY n \in Nat, <1>1, <1>5, TotalBound
<1>8. \A k \in 1 .. n : s[k].size \in Nat
  BY ONLY n \in Nat, <1>1
<1> QED
  BY ONLY <1>4, <1>5, <1>6, <1>7, <1>8, Zenon DEF Written

\* The lists of players and of enemies, with names of their own.
PlayersField(parts) == WriteRepeated(parts, 1, PlayerSerialize, PlayerByteSizeLong)
PlayersSize(parts) == RepeatedSize(parts, PlayerByteSizeLong)
EnemiesField(parts) == WriteRepeated(parts, 1, EnemySerialize, EnemyByteSizeLong)
EnemiesSize(parts) == RepeatedSize(parts, EnemyByteSizeLong)

LEMMA PlayersWritten ==
  ASSUME NEW n \in Nat, NEW parts, Len(parts) = n, \A k \in 1 .. n : Player(parts[k])
  PROVE  Written(PlayersField(parts), PlayersSize(parts)) /\ PlayersSize(parts) \in 0 .. 96 * n
<1>1. PICK b, z : /\ b = [k \in 1 .. n |-> PlayerSerialize(parts[k])]
                  /\ z = [k \in 1 .. n |-> PlayerByteSizeLong(parts[k])]
  BY Zenon
<1>2. /\ \A k \in 1 .. n : Written(b[k], z[k])
      /\ \A k \in 1 .. n : z[k] \in 0 .. 94
  BY <1>1, PlayerWritten
<1>3. PICK s, c :
        /\ s = [k \in 1 .. n |-> Token(1, "delimited", b[k], VarintSize(z[k]) + Bytes(b[k]))]
        /\ c = [k \in 1 .. n |-> 1 + LengthDelimitedSize(z[k])]
  BY Zenon
<1>4. Written(s, Total(c)) /\ Total(c) \in 0 .. 96 * n
  BY ONLY n \in Nat, <1>2, <1>3, PartsWritten
<1>5. PlayersField(parts) = s
  BY <1>1, <1>3 DEF PlayersField, WriteRepeated, MessageToken
<1>6. PlayersSize(parts) = Total(c)
  <2>1. c = [k \in 1 .. n |-> 1 + LengthDelimitedSize(PlayerByteSizeLong(parts[k]))]
    BY <1>1, <1>3
  <2> QED
    BY <2>1, Zenon DEF PlayersSize, RepeatedSize
<1> QED
  BY <1>4, <1>5, <1>6, Zenon

LEMMA EnemiesWritten ==
  ASSUME NEW n \in Nat, NEW parts, Len(parts) = n, \A k \in 1 .. n : Enemy(parts[k])
  PROVE  Written(EnemiesField(parts), EnemiesSize(parts)) /\ EnemiesSize(parts) \in 0 .. 96 * n
<1>1. PICK b, z : /\ b = [k \in 1 .. n |-> EnemySerialize(parts[k])]
                  /\ z = [k \in 1 .. n |-> EnemyByteSizeLong(parts[k])]
  BY Zenon
<1>2. /\ \A k \in 1 .. n : Written(b[k], z[k])
      /\ \A k \in 1 .. n : z[k] \in 0 .. 94
  BY <1>1, EnemyWritten
<1>3. PICK s, c :
        /\ s = [k \in 1 .. n |-> Token(1, "delimited", b[k], VarintSize(z[k]) + Bytes(b[k]))]
        /\ c = [k \in 1 .. n |-> 1 + LengthDelimitedSize(z[k])]
  BY Zenon
<1>4. Written(s, Total(c)) /\ Total(c) \in 0 .. 96 * n
  BY ONLY n \in Nat, <1>2, <1>3, PartsWritten
<1>5. EnemiesField(parts) = s
  BY <1>1, <1>3 DEF EnemiesField, WriteRepeated, MessageToken
<1>6. EnemiesSize(parts) = Total(c)
  <2>1. c = [k \in 1 .. n |-> 1 + LengthDelimitedSize(EnemyByteSizeLong(parts[k]))]
    BY <1>1, <1>3
  <2> QED
    BY <2>1, Zenon DEF EnemiesSize, RepeatedSize
<1> QED
  BY <1>4, <1>5, <1>6, Zenon

-----------------------------------------------------------------------------
(* Copies: the server reads a player or an enemy into a message of its own,   *)
(* which CopyFrom and MergeFrom make from the other one's fields.              *)

\* f over g, the one that is asked first.
LEMMA Over ==
  ASSUME NEW f, NEW g
  PROVE  f ++ g = [x \in DOMAIN f \cup DOMAIN g |-> IF x \in DOMAIN f THEN f[x] ELSE g[x]]
BY Zenon DEF ++

LEMMA OverNothing ==
  ASSUME NEW f
  PROVE  f ++ Unset = [x \in DOMAIN f |-> f[x]]
BY Over DEF Unset

LEMMA UnderNothing ==
  ASSUME NEW f, NEW g, DOMAIN f = {}
  PROVE  f ++ g = [x \in DOMAIN g |-> g[x]]
BY Over

LEMMA PlayerCopy ==
  ASSUME NEW to, NEW from
  PROVE  PlayerCopyFrom(to, from) = [f \in DOMAIN from |-> from[f]]
<1>1. PICK h : h = [f \in {"coord", "rot", "vel", "dir"} \cap DOMAIN Unset \cap DOMAIN from |->
                      from[f] ++ Unset[f]]
  BY Zenon
<1>2. DOMAIN h = {}
  BY <1>1 DEF Unset
<1>3. PlayerCopyFrom(to, from) = (h ++ from) ++ Unset
  BY <1>1, Zenon DEF PlayerCopyFrom, PlayerMergeImpl
<1>4. PICK g : g = [f \in DOMAIN from |-> from[f]]
  BY Zenon
<1>5. h ++ from = g
  BY <1>2, <1>4, UnderNothing, Zenon
<1>6. g ++ Unset = [f \in DOMAIN g |-> g[f]]
  BY OverNothing, Zenon
<1> QED
  BY <1>3, <1>4, <1>5, <1>6

LEMMA EnemyCopy ==
  ASSUME NEW to, NEW from
  PROVE  EnemyCopyFrom(to, from) = [f \in DOMAIN from |-> from[f]]
<1>1. PICK h : h = [f \in {"coord", "rot", "dir"} \cap DOMAIN Unset \cap DOMAIN from |->
                      from[f] ++ Unset[f]]
  BY Zenon
<1>2. DOMAIN h = {}
  BY <1>1 DEF Unset
<1>3. EnemyCopyFrom(to, from) = (h ++ from) ++ Unset
  BY <1>1, Zenon DEF EnemyCopyFrom, EnemyMergeImpl
<1>4. PICK g : g = [f \in DOMAIN from |-> from[f]]
  BY Zenon
<1>5. h ++ from = g
  BY <1>2, <1>4, UnderNothing, Zenon
<1>6. g ++ Unset = [f \in DOMAIN g |-> g[f]]
  BY OverNothing, Zenon
<1> QED
  BY <1>3, <1>4, <1>5, <1>6

PlayerCopies(players) == Each(players, LAMBDA p : PlayerCopyFrom(PlayerDefault, p))
EnemyCopies(enemies) == Each(enemies, LAMBDA e : EnemyCopyFrom(EnemyDefault, e))

\* A list of n players or enemies, as the server may hold it.
PlayerList(ps, n) == Len(ps) = n /\ DOMAIN ps = 1 .. n /\ \A k \in 1 .. n : Player(ps[k])
EnemyList(es, n) == Len(es) = n /\ DOMAIN es = 1 .. n /\ \A k \in 1 .. n : Enemy(es[k])

LEMMA PlayersCopied ==
  ASSUME NEW n \in Nat, NEW ps, PlayerList(ps, n)
  PROVE  PlayerList(PlayerCopies(ps), n) /\ \A k \in 1 .. n : PlayerCopies(ps)[k] = ps[k]
<1>1. PlayerCopies(ps) = [k \in 1 .. n |-> PlayerCopyFrom(PlayerDefault, ps[k])]
  BY DEF PlayerCopies, Each, PlayerList
<1>2. \A k \in 1 .. n : PlayerCopyFrom(PlayerDefault, ps[k]) = ps[k]
  BY PlayerCopy DEF PlayerList, Player, IsMessage
<1>3. PlayerCopies(ps) = [k \in 1 .. n |-> ps[k]]
  BY <1>1, <1>2
<1> QED
  BY <1>3 DEF PlayerList

LEMMA EnemiesCopied ==
  ASSUME NEW n \in Nat, NEW es, EnemyList(es, n)
  PROVE  EnemyList(EnemyCopies(es), n) /\ \A k \in 1 .. n : EnemyCopies(es)[k] = es[k]
<1>1. EnemyCopies(es) = [k \in 1 .. n |-> EnemyCopyFrom(EnemyDefault, es[k])]
  BY DEF EnemyCopies, Each, EnemyList
<1>2. \A k \in 1 .. n : EnemyCopyFrom(EnemyDefault, es[k]) = es[k]
  BY EnemyCopy DEF EnemyList, Enemy, IsMessage
<1>3. EnemyCopies(es) = [k \in 1 .. n |-> es[k]]
  BY <1>1, <1>2
<1> QED
  BY <1>3 DEF EnemyList

-----------------------------------------------------------------------------
(* What Merged makes of reads *)

\* f[k] is the first k of the n reads in s, the later over the earlier.
Merges(f, s, n) == f = [k \in 0 .. n |-> IF k = 0 THEN Unset ELSE s[k] ++ f[k - 1]]

LEMMA MergesAt ==
  ASSUME NEW n \in Nat, NEW s, NEW f, Merges(f, s, n)
  PROVE  f[0] = Unset /\ \A k \in Nat : k < n => f[k + 1] = s[k + 1] ++ f[k]
<1>1. \A k \in 0 .. n : f[k] = IF k = 0 THEN Unset ELSE s[k] ++ f[k - 1]
  BY DEF Merges
<1>2. ASSUME NEW k \in Nat, k < n
      PROVE  f[k + 1] = s[k + 1] ++ f[k]
  <2>1. k + 1 \in 0 .. n /\ k + 1 # 0 /\ (k + 1) - 1 = k
    BY <1>2
  <2> QED
    BY <1>1, <2>1
<1> QED
  BY <1>1, <1>2

LEMMA MergesExist ==
  ASSUME NEW n \in Nat, NEW s
  PROVE  \E f : Merges(f, s, n)
<1> DEFINE S == {m \in Nat : \E f : Merges(f, s, m)}
<1>1. 0 \in S
  <2>1. Merges([k \in 0 .. 0 |-> Unset], s, 0)
    BY DEF Merges
  <2> QED
    BY <2>1
<1>2. ASSUME NEW m \in Nat, m \in S
      PROVE  m + 1 \in S
  <2>1. PICK f : Merges(f, s, m)
    BY <1>2
  <2> DEFINE g == [k \in 0 .. m + 1 |-> IF k = 0 THEN Unset ELSE s[k] ++ f[k - 1]]
  <2>2. \A k \in 0 .. m : g[k] = f[k]
    <3>1. \A k \in 0 .. m : f[k] = IF k = 0 THEN Unset ELSE s[k] ++ f[k - 1]
      BY <2>1 DEF Merges
    <3> QED
      BY <3>1
  <2>3. \A k \in 0 .. m + 1 : k # 0 => k - 1 \in 0 .. m
    OBVIOUS
  <2>4. Merges(g, s, m + 1)
    BY <2>2, <2>3 DEF Merges
  <2> QED
    BY <2>4
<1>3. n \in S
  <2> HIDE DEF S
  <2> QED
    BY <1>1, <1>2, SetInduction
<1> QED
  BY <1>3

LEMMA MergedIs ==
  ASSUME NEW n \in Nat, NEW s, Len(s) = n
  PROVE  \E f : Merges(f, s, n) /\ Merged(s) = f[n]
<1> DEFINE f == CHOOSE h : Merges(h, s, n)
<1>1. Merges(f, s, n)
  BY MergesExist
<1>2. Merged(s) = f[n]
  BY Zenon DEF Merged, Merges
<1> QED
  BY <1>1, <1>2, Zenon

LEMMA MessageOver ==
  /\ IsMessage(Unset)
  /\ \A f, v : IsMessage(Field(f, v))
  /\ \A f, g : IsMessage(f ++ g)
BY DEF IsMessage, Unset, Field, ++

LEMMA OverAssociates ==
  ASSUME NEW f, NEW g, NEW h
  PROVE  (f ++ g) ++ h = f ++ (g ++ h)
BY DEF ++

LEMMA UnsetOver ==
  ASSUME NEW f, IsMessage(f)
  PROVE  Unset ++ f = f /\ f ++ Unset = f
BY DEF ++, Unset, IsMessage

LEMMA MergesMessages ==
  ASSUME NEW n \in Nat, NEW s, NEW f, Merges(f, s, n)
  PROVE  \A k \in 0 .. n : IsMessage(f[k])
<1>1. \A k \in 0 .. n : f[k] = IF k = 0 THEN Unset ELSE s[k] ++ f[k - 1]
  BY DEF Merges
<1> QED
  BY <1>1, MessageOver, SMTT(20)

LEMMA MergedMessage ==
  ASSUME NEW n \in Nat, NEW s, Len(s) = n
  PROVE  IsMessage(Merged(s))
<1>1. PICK f : Merges(f, s, n) /\ Merged(s) = f[n]
  BY MergedIs
<1>2. \A k \in 0 .. n : IsMessage(f[k])
  BY <1>1, MergesMessages
<1>3. n \in 0 .. n
  OBVIOUS
<1> QED
  BY <1>1, <1>2, <1>3, Zenon

LEMMA MergedNothing ==
  ASSUME NEW s, Len(s) = 0
  PROVE  Merged(s) = Unset
<1>1. PICK f : Merges(f, s, 0) /\ Merged(s) = f[0]
  BY MergedIs
<1>2. f[0] = Unset
  BY <1>1, MergesAt
<1> QED
  BY <1>1, <1>2

LEMMA MergedOne ==
  ASSUME NEW s, Len(s) = 1, IsMessage(s[1])
  PROVE  Merged(s) = s[1]
<1>1. PICK f : Merges(f, s, 1) /\ Merged(s) = f[1]
  BY MergedIs
<1>2. f[0] = Unset /\ f[0 + 1] = s[0 + 1] ++ f[0]
  BY <1>1, MergesAt
<1> QED
  BY <1>1, <1>2, UnsetOver

\* c is a and then b: its reads go over those of a as those of b do.
LEMMA MergedJoined ==
  ASSUME NEW n \in Nat, NEW m \in Nat, NEW a, NEW b, NEW c,
         Len(a) = n, Len(b) = m, Len(c) = n + m,
         \A k \in 1 .. n : c[k] = a[k], \A k \in 1 .. m : c[n + k] = b[k]
  PROVE  Merged(c) = Merged(b) ++ Merged(a)
<1>1. PICK f : Merges(f, a, n) /\ Merged(a) = f[n]
  BY MergedIs
<1>2. PICK g : Merges(g, b, m) /\ Merged(b) = g[m]
  BY MergedIs
<1>3. PICK h : Merges(h, c, n + m) /\ Merged(c) = h[n + m]
  <2>1. n + m \in Nat
    OBVIOUS
  <2> QED
    BY <2>1, MergedIs
<1>4. f[0] = Unset /\ \A k \in Nat : k < n => f[k + 1] = a[k + 1] ++ f[k]
  BY ONLY n \in Nat, <1>1, MergesAt
<1>5. g[0] = Unset /\ \A k \in Nat : k < m => g[k + 1] = b[k + 1] ++ g[k]
  BY ONLY m \in Nat, <1>2, MergesAt
<1>6. h[0] = Unset /\ \A k \in Nat : k < n + m => h[k + 1] = c[k + 1] ++ h[k]
  <2>1. n + m \in Nat
    OBVIOUS
  <2> QED
    BY ONLY <2>1, <1>3, MergesAt
<1>7. IsMessage(f[n])
  <2>1. n \in 0 .. n
    OBVIOUS
  <2> QED
    BY ONLY n \in Nat, <1>1, <2>1, MergesMessages
<1>8. h[n] = f[n]
  <2> DEFINE S == {k \in Nat : k <= n => h[k] = f[k]}
  <2>1. 0 \in S
    BY <1>4, <1>6
  <2>2. ASSUME NEW k \in Nat, k \in S
        PROVE  k + 1 \in S
    <3> SUFFICES ASSUME k + 1 <= n PROVE h[k + 1] = f[k + 1]
      OBVIOUS
    <3>1. k < n /\ k < n + m /\ k + 1 \in 1 .. n /\ h[k] = f[k]
      BY <2>2
    <3> QED
      BY <1>4, <1>6, <3>1
  <2>3. Nat \subseteq S
    <3> HIDE DEF S
    <3> QED
      BY <2>1, <2>2, SetInduction
  <2> QED
    BY <2>3
<1>9. \A k \in 0 .. m : h[n + k] = g[k] ++ f[n]
  <2> DEFINE S == {k \in Nat : k <= m => h[n + k] = g[k] ++ f[n]}
  <2>1. 0 \in S
    <3>1. g[0] ++ f[n] = f[n] /\ n + 0 = n
      BY <1>5, <1>7, UnsetOver
    <3> QED
      BY <1>8, <3>1
  <2>2. ASSUME NEW k \in Nat, k \in S
        PROVE  k + 1 \in S
    <3> SUFFICES ASSUME k + 1 <= m PROVE h[n + (k + 1)] = g[k + 1] ++ f[n]
      OBVIOUS
    <3>1. /\ k < m /\ n + k \in Nat /\ n + k < n + m /\ k + 1 \in 1 .. m
          /\ n + (k + 1) = (n + k) + 1 /\ h[n + k] = g[k] ++ f[n]
      BY <2>2
    <3>2. g[k + 1] = b[k + 1] ++ g[k]
      BY <1>5, <3>1
    <3>3. h[n + (k + 1)] = b[k + 1] ++ (g[k] ++ f[n])
      BY <1>6, <3>1
    <3> QED
      BY <3>2, <3>3, OverAssociates
  <2>3. Nat \subseteq S
    <3> HIDE DEF S
    <3> QED
      BY <2>1, <2>2, SetInduction
  <2> QED
    BY <2>3
<1>10. m \in 0 .. m
  OBVIOUS
<1> QED
  BY <1>9, <1>10, <1>1, <1>2, <1>3, Zenon

-----------------------------------------------------------------------------
(* Reading what was written *)

\* The fields of m that are in F.
Only(m, F) == [f \in F \cap DOMAIN m |-> m[f]]

LEMMA OnlyOver ==
  ASSUME NEW m, NEW F, NEW G
  PROVE  Only(m, G) ++ Only(m, F) = Only(m, F \cup G)
BY DEF ++, Only

LEMMA OnlyAll ==
  ASSUME NEW m, NEW F, IsMessage(m), DOMAIN m \subseteq F
  PROVE  Only(m, F) = m
<1>1. F \cap DOMAIN m = DOMAIN m
  OBVIOUS
<1> QED
  BY <1>1, Zenon DEF Only, IsMessage

LEMMA OnlyField ==
  ASSUME NEW m, NEW f
  PROVE  Only(m, {f}) = IF f \in DOMAIN m THEN Field(f, m[f]) ELSE Unset
BY DEF Only, Field, Unset

LEMMA OnlyMessage ==
  ASSUME NEW m, NEW F
  PROVE  IsMessage(Only(m, F))
BY DEF Only, IsMessage

Tokens(s) == \E A : s \in Seq(A)

\* The tokens of s, read as R says.
ReadAll(s, R) == Merged([k \in 1 .. Len(s) |-> R[s[k]]])

LEMMA ReadJoined ==
  ASSUME NEW A, NEW s \in Seq(A), NEW t \in Seq(A), NEW R
  PROVE  ReadAll(s \o t, R) = ReadAll(t, R) ++ ReadAll(s, R)
<1>1. PICK l \in Nat, r \in Nat : l = Len(s) /\ r = Len(t)
  BY LenProperties
<1>2. PICK st : st = s \o t
  OBVIOUS
<1>3. /\ Len(st) = l + r
      /\ \A k \in 1 .. l + r : st[k] = IF k <= l THEN s[k] ELSE t[k - l]
  BY <1>1, <1>2, ConcatProperties
<1>4. PICK a, b, c : /\ a = [k \in 1 .. Len(s) |-> R[s[k]]]
                     /\ b = [k \in 1 .. Len(t) |-> R[t[k]]]
                     /\ c = [k \in 1 .. Len(st) |-> R[st[k]]]
  BY Zenon
<1>5. Len(a) = l /\ Len(b) = r /\ Len(c) = l + r
  BY <1>1, <1>3, <1>4
<1>6. (\A k \in 1 .. l : c[k] = a[k]) /\ (\A k \in 1 .. r : c[l + k] = b[k])
  <2>1. ASSUME NEW k \in 1 .. l
        PROVE  c[k] = a[k]
    <3>1. k \in 1 .. l + r /\ k <= l
      OBVIOUS
    <3> QED
      BY <1>1, <1>3, <1>4, <3>1
  <2>2. ASSUME NEW k \in 1 .. r
        PROVE  c[l + k] = b[k]
    <3>1. l + k \in 1 .. l + r /\ ~(l + k <= l) /\ (l + k) - l = k
      OBVIOUS
    <3> QED
      BY <1>1, <1>3, <1>4, <3>1
  <2> QED
    BY <2>1, <2>2
<1>7. Merged(c) = Merged(b) ++ Merged(a)
  BY <1>5, <1>6, MergedJoined
<1> QED
  BY <1>2, <1>4, <1>7, Zenon DEF ReadAll

LEMMA ReadNothing == \A R : ReadAll(<<>>, R) = Unset
<1> TAKE R
<1>1. PICK z : z = [k \in 1 .. Len(<<>>) |-> R[<<>>[k]]]
  BY Zenon
<1>2. Len(z) = 0
  BY <1>1
<1> QED
  BY <1>1, <1>2, MergedNothing, Zenon DEF ReadAll

LEMMA ReadOne ==
  ASSUME NEW t, NEW R, IsMessage(R[t])
  PROVE  ReadAll(<<t>>, R) = R[t]
<1>1. PICK z : z = [k \in 1 .. Len(<<t>>) |-> R[<<t>>[k]]]
  BY Zenon
<1>2. Len(z) = 1 /\ z[1] = R[t]
  BY <1>1
<1> QED
  BY <1>1, <1>2, MergedOne DEF ReadAll

LEMMA TokensNothing == Tokens(<<>>)
<1>1. <<>> \in Seq({})
  BY EmptySeq
<1> QED
  BY <1>1, Zenon DEF Tokens

LEMMA TokensOne == \A t : Tokens(<<t>>)
<1> TAKE t
<1>1. <<t>> \in Seq({t})
  OBVIOUS
<1> QED
  BY <1>1, Zenon DEF Tokens

LEMMA TokensTogether ==
  ASSUME NEW s, NEW t, Tokens(s), Tokens(t)
  PROVE  \E A : s \in Seq(A) /\ t \in Seq(A)
<1>1. PICK A, B : s \in Seq(A) /\ t \in Seq(B)
  BY DEF Tokens
<1>2. PICK C : C = A \cup B
  OBVIOUS
<1>3. s \in Seq(C) /\ t \in Seq(C)
  BY <1>1, <1>2
<1> QED
  BY <1>3, Zenon

LEMMA TokensJoined ==
  ASSUME NEW s, NEW t, Tokens(s), Tokens(t)
  PROVE  Tokens(s \o t)
<1>1. PICK A : s \in Seq(A) /\ t \in Seq(A)
  BY TokensTogether
<1>2. s \o t \in Seq(A)
  BY <1>1, ConcatProperties
<1> QED
  BY <1>2, Zenon DEF Tokens

\* What the entries of a table make of a token.
LEMMA TokenAt ==
  ASSUME NEW n, NEW type, NEW v, NEW size, NEW k, NEW f
  PROVE  /\ Int32At(Token(n, type, v, size), k, f) =
              IF n = k /\ type = "varint" THEN Field(f, v) ELSE Unset
         /\ BoolAt(Token(n, type, v, size), k, f) =
              IF n = k /\ type = "varint" THEN Field(f, v # 0) ELSE Unset
         /\ FloatAt(Token(n, type, v, size), k, f) =
              IF n = k /\ type = "fixed32" THEN Field(f, v) ELSE Unset
         /\ StringAt(Token(n, type, v, size), k, f) =
              IF n = k /\ type = "delimited" THEN Field(f, v) ELSE Unset
<1>1. /\ Token(n, type, v, size).number = n /\ Token(n, type, v, size).type = type
      /\ Token(n, type, v, size).value = v
  BY DEF Token
<1> QED
  BY <1>1, Zenon DEF Int32At, BoolAt, FloatAt, StringAt, Is

-----------------------------------------------------------------------------
(* Coordinates, rotations and velocities, which are written the same way. *)

CoordRead(t) == FloatAt(t, 1, "x") ++ FloatAt(t, 2, "y") ++ FloatAt(t, 3, "z")

LEMMA CoordReadAll ==
  ASSUME NEW A, NEW s \in Seq(A), NEW R, R = [t \in A |-> CoordRead(t)]
  PROVE  CoordianteParse(s) = ReadAll(s, R)
<1>1. \A k \in 1 .. Len(s) : R[s[k]] = CoordRead(s[k])
  BY ElementOfSeq
<1>2. [k \in 1 .. Len(s) |-> CoordRead(s[k])] = [k \in 1 .. Len(s) |-> R[s[k]]]
  BY <1>1, Zenon
<1> QED
  BY <1>2, Zenon DEF CoordianteParse, ParseFields, ReadAll, CoordRead

LEMMA CoordJoined ==
  ASSUME NEW s, NEW t, Tokens(s), Tokens(t)
  PROVE  CoordianteParse(s \o t) = CoordianteParse(t) ++ CoordianteParse(s)
<1>1. PICK A : s \in Seq(A) /\ t \in Seq(A)
  BY TokensTogether
<1>2. PICK R : R = [x \in A |-> CoordRead(x)]
  BY Zenon
<1>3. s \o t \in Seq(A)
  BY <1>1, ConcatProperties
<1>4. /\ CoordianteParse(s) = ReadAll(s, R) /\ CoordianteParse(t) = ReadAll(t, R)
      /\ CoordianteParse(s \o t) = ReadAll(s \o t, R)
  BY <1>1, <1>2, <1>3, CoordReadAll, Zenon
<1>5. ReadAll(s \o t, R) = ReadAll(t, R) ++ ReadAll(s, R)
  BY ONLY <1>1, ReadJoined
<1> QED
  BY ONLY <1>4, <1>5, Zenon

LEMMA CoordOne ==
  /\ CoordianteParse(<<>>) = Unset
  /\ \A t : CoordianteParse(<<t>>) = CoordRead(t)
<1>1. CoordianteParse(<<>>) = Unset
  <2>1. <<>> \in Seq({})
    BY EmptySeq
  <2>2. PICK R : R = [x \in {} |-> CoordRead(x)]
    BY Zenon
  <2> QED
    BY <2>1, <2>2, CoordReadAll, ReadNothing, Zenon
<1>2. ASSUME NEW t
      PROVE  CoordianteParse(<<t>>) = CoordRead(t)
  <2>1. <<t>> \in Seq({t})
    OBVIOUS
  <2>2. PICK R : R = [x \in {t} |-> CoordRead(x)]
    BY Zenon
  <2>3. R[t] = CoordRead(t)
    BY <2>2
  <2>4. IsMessage(R[t])
    BY <2>3, MessageOver, Zenon DEF CoordRead
  <2> QED
    BY <2>1, <2>2, <2>3, <2>4, CoordReadAll, ReadOne, Zenon
<1> QED
  BY <1>1, <1>2

LEMMA CoordParts ==
  ASSUME NEW m
  PROVE  /\ \A f, n : Tokens(WriteFloat(m, f, n))
         /\ CoordianteParse(WriteFloat(m, "x", 1)) = Only(m, {"x"})
         /\ CoordianteParse(WriteFloat(m, "y", 2)) = Only(m, {"y"})
         /\ CoordianteParse(WriteFloat(m, "z", 3)) = Only(m, {"z"})
<1>1. \A f, n : Tokens(WriteFloat(m, f, n))
  BY TokensNothing, TokensOne, Zenon DEF WriteFloat
<1>2. ASSUME NEW v, NEW size
      PROVE  /\ CoordRead(Token(1, "fixed32", v, size)) = Field("x", v)
             /\ CoordRead(Token(2, "fixed32", v, size)) = Field("y", v)
             /\ CoordRead(Token(3, "fixed32", v, size)) = Field("z", v)
  BY TokenAt, UnsetOver, MessageOver DEF CoordRead
<1>3. ASSUME NEW f, NEW n,
             \A v, size : CoordRead(Token(n, "fixed32", v, size)) = Field(f, v)
      PROVE  CoordianteParse(WriteFloat(m, f, n)) = Only(m, {f})
  BY <1>3, CoordOne, OnlyField, Zenon DEF WriteFloat
<1> QED
  BY <1>1, <1>2, <1>3, Zenon

LEMMA CoordRoundtrip ==
  ASSUME NEW m, IsMessage(m), DOMAIN m \subseteq {"x", "y", "z"}
  PROVE  CoordianteParse(CoordianteSerialize(m)) = m
<1>1. PICK x, y, z : x = WriteFloat(m, "x", 1) /\ y = WriteFloat(m, "y", 2) /\ z = WriteFloat(m, "z", 3)
  BY Zenon
<1>2. /\ Tokens(x) /\ Tokens(y) /\ Tokens(z)
      /\ CoordianteParse(x) = Only(m, {"x"}) /\ CoordianteParse(y) = Only(m, {"y"})
      /\ CoordianteParse(z) = Only(m, {"z"})
  BY <1>1, CoordParts, Zenon
<1>3. Tokens(x \o y) /\ CoordianteParse(x \o y) = Only(m, {"x"} \cup {"y"})
  BY ONLY <1>2, CoordJoined, TokensJoined, OnlyOver
<1>4. CoordianteParse((x \o y) \o z) = Only(m, ({"x"} \cup {"y"}) \cup {"z"})
  BY ONLY <1>2, <1>3, CoordJoined, OnlyOver
<1>5. DOMAIN m \subseteq ({"x"} \cup {"y"}) \cup {"z"}
  OBVIOUS
<1> QED
  BY <1>1, <1>4, <1>5, OnlyAll, Zenon DEF CoordianteSerialize

LEMMA RotationRoundtrip ==
  ASSUME NEW m, IsMessage(m), DOMAIN m \subseteq {"x", "y", "z"}
  PROVE  RotationParse(RotationSerialize(m)) = m
<1>1. RotationSerialize(m) = CoordianteSerialize(m)
  BY Zenon DEF RotationSerialize, CoordianteSerialize
<1>2. \A b : RotationParse(b) = CoordianteParse(b)
  BY Zenon DEF RotationParse, CoordianteParse, ParseFields
<1> QED
  BY <1>1, <1>2, CoordRoundtrip, Zenon

LEMMA VelocityRoundtrip ==
  ASSUME NEW m, IsMessage(m), DOMAIN m \subseteq {"x", "y", "z"}
  PROVE  VelocityParse(VelocitySerialize(m)) = m
<1>1. VelocitySerialize(m) = CoordianteSerialize(m)
  BY Zenon DEF VelocitySerialize, CoordianteSerialize
<1>2. \A b : VelocityParse(b) = CoordianteParse(b)
  BY Zenon DEF VelocityParse, CoordianteParse, ParseFields
<1> QED
  BY <1>1, <1>2, CoordRoundtrip, Zenon

CoordAt(t, n, f) == MessageAt(t, n, f, CoordianteParse)
RotAt(t, n, f) == MessageAt(t, n, f, RotationParse)
VelAt(t, n, f) == MessageAt(t, n, f, VelocityParse)
MoveAt(t, n, f) == EnumAt(t, n, f, MoveState)

LEMMA PartAt ==
  ASSUME NEW n, NEW type, NEW v, NEW size, NEW k, NEW f
  PROVE  /\ CoordAt(Token(n, type, v, size), k, f) =
              IF n = k /\ type = "delimited" THEN Field(f, CoordianteParse(v)) ELSE Unset
         /\ RotAt(Token(n, type, v, size), k, f) =
              IF n = k /\ type = "delimited" THEN Field(f, RotationParse(v)) ELSE Unset
         /\ VelAt(Token(n, type, v, size), k, f) =
              IF n = k /\ type = "delimited" THEN Field(f, VelocityParse(v)) ELSE Unset
         /\ MoveAt(Token(n, type, v, size), k, f) =
              IF n = k /\ type = "varint" /\ v \in MoveState THEN Field(f, v) ELSE Unset
<1>1. /\ Token(n, type, v, size).number = n /\ Token(n, type, v, size).type = type
      /\ Token(n, type, v, size).value = v
  BY DEF Token
<1> QED
  BY <1>1, Zenon DEF CoordAt, RotAt, VelAt, MoveAt, MessageAt, EnumAt, Is

LEMMA TokensField ==
  ASSUME NEW m, NEW f, NEW n
  PROVE  /\ Tokens(WriteInt32(m, f, n)) /\ Tokens(WriteEnum(m, f, n)) /\ Tokens(WriteBool(m, f, n))
         /\ Tokens(WriteString(m, f, n)) /\ Tokens(CoordField(m, f, n))
         /\ Tokens(RotField(m, f, n)) /\ Tokens(VelField(m, f, n))
BY TokensNothing, TokensOne, Zenon
DEF WriteInt32, WriteEnum, WriteBool, WriteString, CoordField, RotField, VelField, WriteMessage

LEMMA CoordFieldIs ==
  ASSUME NEW m, NEW f, NEW n
  PROVE  \E size : CoordField(m, f, n) =
           IF f \in DOMAIN m
           THEN <<Token(n, "delimited", CoordianteSerialize(m[f]), size)>> ELSE <<>>
BY Zenon DEF CoordField, WriteMessage, MessageToken

LEMMA RotFieldIs ==
  ASSUME NEW m, NEW f, NEW n
  PROVE  \E size : RotField(m, f, n) =
           IF f \in DOMAIN m
           THEN <<Token(n, "delimited", RotationSerialize(m[f]), size)>> ELSE <<>>
BY Zenon DEF RotField, WriteMessage, MessageToken

LEMMA VelFieldIs ==
  ASSUME NEW m, NEW f, NEW n
  PROVE  \E size : VelField(m, f, n) =
           IF f \in DOMAIN m
           THEN <<Token(n, "delimited", VelocitySerialize(m[f]), size)>> ELSE <<>>
BY Zenon DEF VelField, WriteMessage, MessageToken

-----------------------------------------------------------------------------
(* Players *)

PlayerRead(t) ==
  Int32At(t, 1, "id") ++ Int32At(t, 2, "hp") ++ BoolAt(t, 3, "battack")
  ++ CoordAt(t, 4, "coord") ++ RotAt(t, 5, "rot") ++ VelAt(t, 6, "vel")
  ++ CoordAt(t, 7, "dir") ++ MoveAt(t, 8, "movestate")

LEMMA PlayerReadAll ==
  ASSUME NEW A, NEW s \in Seq(A), NEW R, R = [t \in A |-> PlayerRead(t)]
  PROVE  PlayerParse(s) = ReadAll(s, R)
<1>1. \A k \in 1 .. Len(s) : R[s[k]] = PlayerRead(s[k])
  BY ElementOfSeq
<1>2. [k \in 1 .. Len(s) |-> PlayerRead(s[k])] = [k \in 1 .. Len(s) |-> R[s[k]]]
  BY <1>1, Zenon
<1> QED
  BY <1>2, Zenon
  DEF PlayerParse, ParseFields, ReadAll, PlayerRead, CoordAt, RotAt, VelAt, MoveAt

\* s are the tokens of the fields in F of m.
PlayerMade(s, m, F) == Tokens(s) /\ PlayerParse(s) = Only(m, F)

LEMMA PlayerMadeJoined ==
  ASSUME NEW m, NEW s, NEW t, NEW F, NEW G, PlayerMade(s, m, F), PlayerMade(t, m, G)
  PROVE  PlayerMade(s \o t, m, F \cup G)
<1>1. PICK A : s \in Seq(A) /\ t \in Seq(A)
  BY TokensTogether DEF PlayerMade
<1>2. PICK R : R = [x \in A |-> PlayerRead(x)]
  BY Zenon
<1>3. s \o t \in Seq(A)
  BY <1>1, ConcatProperties
<1>4. /\ PlayerParse(s) = ReadAll(s, R) /\ PlayerParse(t) = ReadAll(t, R)
      /\ PlayerParse(s \o t) = ReadAll(s \o t, R)
  BY <1>1, <1>2, <1>3, PlayerReadAll, Zenon
<1>5. ReadAll(s \o t, R) = ReadAll(t, R) ++ ReadAll(s, R)
  BY ONLY <1>1, ReadJoined
<1>6. Only(m, G) ++ Only(m, F) = Only(m, F \cup G)
  BY OnlyOver, Zenon
<1> QED
  BY <1>3, <1>4, <1>5, <1>6, Zenon DEF PlayerMade, Tokens

LEMMA PlayerOne ==
  /\ PlayerParse(<<>>) = Unset
  /\ \A t : PlayerParse(<<t>>) = PlayerRead(t)
<1>1. PlayerParse(<<>>) = Unset
  <2>1. <<>> \in Seq({})
    BY EmptySeq
  <2>2. PICK R : R = [x \in {} |-> PlayerRead(x)]
    BY Zenon
  <2> QED
    BY <2>1, <2>2, PlayerReadAll, ReadNothing, Zenon
<1>2. ASSUME NEW t
      PROVE  PlayerParse(<<t>>) = PlayerRead(t)
  <2>1. <<t>> \in Seq({t})
    OBVIOUS
  <2>2. PICK R : R = [x \in {t} |-> PlayerRead(x)]
    BY Zenon
  <2>3. R[t] = PlayerRead(t)
    BY <2>2
  <2>4. IsMessage(R[t])
    BY <2>3, MessageOver, Zenon DEF PlayerRead
  <2> QED
    BY <2>1, <2>2, <2>3, <2>4, PlayerReadAll, ReadOne, Zenon
<1> QED
  BY <1>1, <1>2

\* Each field has a number of its own.
LEMMA PlayerTokens ==
  ASSUME NEW v, NEW size
  PROVE  /\ PlayerRead(Token(1, "varint", v, size)) = Field("id", v)
         /\ PlayerRead(Token(2, "varint", v, size)) = Field("hp", v)
         /\ PlayerRead(Token(3, "varint", v, size)) = Field("battack", v # 0)
         /\ PlayerRead(Token(4, "delimited", v, size)) = Field("coord", CoordianteParse(v))
         /\ PlayerRead(Token(5, "delimited", v, size)) = Field("rot", RotationParse(v))
         /\ PlayerRead(Token(6, "delimited", v, size)) = Field("vel", VelocityParse(v))
         /\ PlayerRead(Token(7, "delimited", v, size)) = Field("dir", CoordianteParse(v))
         /\ v \in MoveState =>
              PlayerRead(Token(8, "varint", v, size)) = Field("movestate", v)
BY TokenAt, PartAt, UnsetOver, MessageOver DEF PlayerRead
LEMMA PlayerFieldMade ==
  ASSUME NEW m, NEW f, NEW t, f \in DOMAIN m => PlayerRead(t) = Field(f, m[f])
  PROVE  PlayerMade(IF f \in DOMAIN m THEN <<t>> ELSE <<>>, m, {f})
<1>1. CASE f \in DOMAIN m
  <2>1. PlayerParse(<<t>>) = Only(m, {f})
    BY <1>1, PlayerOne, OnlyField, Zenon
  <2>2. PlayerMade(<<t>>, m, {f})
    BY <2>1, TokensOne, Zenon DEF PlayerMade
  <2> QED
    BY <1>1, <2>2, Zenon
<1>2. CASE f \notin DOMAIN m
  <2>1. PlayerParse(<<>>) = Only(m, {f})
    BY <1>2, PlayerOne, OnlyField, Zenon
  <2>2. PlayerMade(<<>>, m, {f})
    BY <2>1, TokensNothing, Zenon DEF PlayerMade
  <2> QED
    BY <1>2, <2>2, Zenon
<1> QED
  BY <1>1, <1>2

LEMMA PlayerFieldsMade ==
  ASSUME NEW m, Player(m)
  PROVE  /\ PlayerMade(WriteInt32(m, "id", 1), m, {"id"})
         /\ PlayerMade(WriteInt32(m, "hp", 2), m, {"hp"})
         /\ PlayerMade(WriteBool(m, "battack", 3), m, {"battack"})
         /\ PlayerMade(CoordField(m, "coord", 4), m, {"coord"})
         /\ PlayerMade(RotField(m, "rot", 5), m, {"rot"})
         /\ PlayerMade(VelField(m, "vel", 6), m, {"vel"})
         /\ PlayerMade(CoordField(m, "dir", 7), m, {"dir"})
         /\ PlayerMade(WriteEnum(m, "movestate", 8), m, {"movestate"})
<1>1. /\ PlayerMade(WriteInt32(m, "id", 1), m, {"id"})
      /\ PlayerMade(WriteInt32(m, "hp", 2), m, {"hp"})
  <2>1. \A size : /\ PlayerRead(Token(1, "varint", m["id"], size)) = Field("id", m["id"])
                  /\ PlayerRead(Token(2, "varint", m["hp"], size)) = Field("hp", m["hp"])
    BY PlayerTokens
  <2> QED
    BY <2>1, PlayerFieldMade, Zenon DEF WriteInt32
<1>2. PlayerMade(WriteBool(m, "battack", 3), m, {"battack"})
  <2>1. "battack" \in DOMAIN m => m["battack"] \in BOOLEAN
    BY PlayerFields
  <2>2. PICK v : v = IF m["battack"] THEN 1 ELSE 0
    OBVIOUS
  <2>3. PlayerRead(Token(3, "varint", v, 1)) = Field("battack", v # 0)
    <3>1. \A w, size : PlayerRead(Token(3, "varint", w, size)) = Field("battack", w # 0)
      BY PlayerTokens
    <3> QED
      BY <3>1, Zenon
  <2>4. ASSUME "battack" \in DOMAIN m
        PROVE  Field("battack", v # 0) = Field("battack", m["battack"])
    <3>1. CASE m["battack"] = TRUE
      <4>1. (v # 0) = TRUE
        BY <2>2, <3>1
      <4> QED
        BY <3>1, <4>1, Zenon
    <3>2. CASE m["battack"] = FALSE
      <4>1. (v # 0) = FALSE
        BY <2>2, <3>2
      <4> QED
        BY <3>2, <4>1, Zenon
    <3> QED
      BY <2>1, <2>4, <3>1, <3>2, Zenon
  <2>5. WriteBool(m, "battack", 3) =
          IF "battack" \in DOMAIN m THEN <<Token(3, "varint", v, 1)>> ELSE <<>>
    BY <2>2, Zenon DEF WriteBool
  <2>6. "battack" \in DOMAIN m =>
          PlayerRead(Token(3, "varint", v, 1)) = Field("battack", m["battack"])
    BY <2>3, <2>4, Zenon
  <2> QED
    BY <2>5, <2>6, PlayerFieldMade, Zenon
<1>3. PlayerMade(WriteEnum(m, "movestate", 8), m, {"movestate"})
  <2>1. "movestate" \in DOMAIN m =>
          \A size : PlayerRead(Token(8, "varint", m["movestate"], size))
                      = Field("movestate", m["movestate"])
    BY PlayerFields, PlayerTokens, Zenon
  <2> QED
    BY <2>1, PlayerFieldMade, Zenon DEF WriteEnum, WriteInt32
<1>4. /\ "coord" \in DOMAIN m => CoordianteParse(CoordianteSerialize(m["coord"])) = m["coord"]
      /\ "dir" \in DOMAIN m => CoordianteParse(CoordianteSerialize(m["dir"])) = m["dir"]
      /\ "rot" \in DOMAIN m => RotationParse(RotationSerialize(m["rot"])) = m["rot"]
      /\ "vel" \in DOMAIN m => VelocityParse(VelocitySerialize(m["vel"])) = m["vel"]
  BY CoordRoundtrip, RotationRoundtrip, VelocityRoundtrip
  DEF Player, Coordiante, Rotation, Velocity, HasFields
<1>5. PlayerMade(CoordField(m, "coord", 4), m, {"coord"})
  <2>1. PICK size : CoordField(m, "coord", 4) =
          IF "coord" \in DOMAIN m
          THEN <<Token(4, "delimited", CoordianteSerialize(m["coord"]), size)>> ELSE <<>>
    BY CoordFieldIs
  <2>2. PICK t : t = Token(4, "delimited", CoordianteSerialize(m["coord"]), size)
    OBVIOUS
  <2>3. PlayerRead(t) = Field("coord", CoordianteParse(CoordianteSerialize(m["coord"])))
    BY <2>2, PlayerTokens, Zenon
  <2>4. "coord" \in DOMAIN m => PlayerRead(t) = Field("coord", m["coord"])
    BY <1>4, <2>3, Zenon
  <2>5. PlayerMade(IF "coord" \in DOMAIN m THEN <<t>> ELSE <<>>, m, {"coord"})
    BY <2>4, PlayerFieldMade, Zenon
  <2> QED
    BY <2>1, <2>2, <2>5, Zenon
<1>6. PlayerMade(RotField(m, "rot", 5), m, {"rot"})
  <2>1. PICK size : RotField(m, "rot", 5) =
          IF "rot" \in DOMAIN m
          THEN <<Token(5, "delimited", RotationSerialize(m["rot"]), size)>> ELSE <<>>
    BY RotFieldIs
  <2>2. PICK t : t = Token(5, "delimited", RotationSerialize(m["rot"]), size)
    OBVIOUS
  <2>3. PlayerRead(t) = Field("rot", RotationParse(RotationSerialize(m["rot"])))
    BY <2>2, PlayerTokens, Zenon
  <2>4. "rot" \in DOMAIN m => PlayerRead(t) = Field("rot", m["rot"])
    BY <1>4, <2>3, Zenon
  <2>5. PlayerMade(IF "rot" \in DOMAIN m THEN <<t>> ELSE <<>>, m, {"rot"})
    BY <2>4, PlayerFieldMade, Zenon
  <2> QED
    BY <2>1, <2>2, <2>5, Zenon
<1>7. PlayerMade(VelField(m, "vel", 6), m, {"vel"})
  <2>1. PICK size : VelField(m, "vel", 6) =
          IF "vel" \in DOMAIN m
          THEN <<Token(6, "delimited", VelocitySerialize(m["vel"]), size)>> ELSE <<>>
    BY VelFieldIs
  <2>2. PICK t : t = Token(6, "delimited", VelocitySerialize(m["vel"]), size)
    OBVIOUS
  <2>3. PlayerRead(t) = Field("vel", VelocityParse(VelocitySerialize(m["vel"])))
    BY <2>2, PlayerTokens, Zenon
  <2>4. "vel" \in DOMAIN m => PlayerRead(t) = Field("vel", m["vel"])
    BY <1>4, <2>3, Zenon
  <2>5. PlayerMade(IF "vel" \in DOMAIN m THEN <<t>> ELSE <<>>, m, {"vel"})
    BY <2>4, PlayerFieldMade, Zenon
  <2> QED
    BY <2>1, <2>2, <2>5, Zenon
<1>8. PlayerMade(CoordField(m, "dir", 7), m, {"dir"})
  <2>1. PICK size : CoordField(m, "dir", 7) =
          IF "dir" \in DOMAIN m
          THEN <<Token(7, "delimited", CoordianteSerialize(m["dir"]), size)>> ELSE <<>>
    BY CoordFieldIs
  <2>2. PICK t : t = Token(7, "delimited", CoordianteSerialize(m["dir"]), size)
    OBVIOUS
  <2>3. PlayerRead(t) = Field("dir", CoordianteParse(CoordianteSerialize(m["dir"])))
    BY <2>2, PlayerTokens, Zenon
  <2>4. "dir" \in DOMAIN m => PlayerRead(t) = Field("dir", m["dir"])
    BY <1>4, <2>3, Zenon
  <2>5. PlayerMade(IF "dir" \in DOMAIN m THEN <<t>> ELSE <<>>, m, {"dir"})
    BY <2>4, PlayerFieldMade, Zenon
  <2> QED
    BY <2>1, <2>2, <2>5, Zenon
<1> QED
  BY <1>1, <1>2, <1>3, <1>5, <1>6, <1>7, <1>8

\* A player is read as it was written.
LEMMA PlayerRoundtrip ==
  ASSUME NEW m, Player(m)
  PROVE  PlayerParse(PlayerSerialize(m)) = m
<1>1. PICK s1, s2, s3, s4, s5, s6, s7, s8 :
        /\ s1 = WriteInt32(m, "id", 1) /\ s2 = WriteInt32(m, "hp", 2)
        /\ s3 = WriteBool(m, "battack", 3)
        /\ s4 = CoordField(m, "coord", 4)
        /\ s5 = RotField(m, "rot", 5)
        /\ s6 = VelField(m, "vel", 6)
        /\ s7 = CoordField(m, "dir", 7)
        /\ s8 = WriteEnum(m, "movestate", 8)
  BY Zenon
<1>2. PICK F : F = {"id"} \cup {"hp"} \cup {"battack"} \cup {"coord"} \cup {"rot"}
                   \cup {"vel"} \cup {"dir"} \cup {"movestate"}
  BY Zenon
<1>3. /\ PlayerMade(s1, m, {"id"}) /\ PlayerMade(s2, m, {"hp"})
      /\ PlayerMade(s3, m, {"battack"}) /\ PlayerMade(s4, m, {"coord"})
      /\ PlayerMade(s5, m, {"rot"}) /\ PlayerMade(s6, m, {"vel"})
      /\ PlayerMade(s7, m, {"dir"}) /\ PlayerMade(s8, m, {"movestate"})
  BY <1>1, PlayerFieldsMade, Zenon
<1>4. PlayerMade(s1 \o s2 \o s3 \o s4, m,
                 {"id"} \cup {"hp"} \cup {"battack"} \cup {"coord"})
  BY <1>3, PlayerMadeJoined, Zenon
<1>5. PlayerMade(s1 \o s2 \o s3 \o s4 \o s5 \o s6 \o s7 \o s8, m, F)
  BY <1>2, <1>3, <1>4, PlayerMadeJoined, Zenon
<1>6. PlayerSerialize(m) = s1 \o s2 \o s3 \o s4 \o s5 \o s6 \o s7 \o s8
  BY <1>1, Zenon DEF PlayerSerialize, CoordField, RotField, VelField,
                      WriteMessage, MessageToken
<1>7. DOMAIN m \subseteq F /\ IsMessage(m)
  BY <1>2 DEF Player, PlayerDefault
<1>8. Only(m, F) = m
  BY <1>7, OnlyAll, Zenon
<1> QED
  BY <1>5, <1>6, <1>8, Zenon DEF PlayerMade

-----------------------------------------------------------------------------
(* Enemies, in the same way. *)

EnemyRead(t) ==
  Int32At(t, 1, "id") ++ Int32At(t, 2, "hp") ++ CoordAt(t, 3, "coord")
  ++ RotAt(t, 4, "rot") ++ CoordAt(t, 5, "dir") ++ MoveAt(t, 6, "movestate")
  ++ BoolAt(t, 7, "bnewdest")

LEMMA EnemyReadAll ==
  ASSUME NEW A, NEW s \in Seq(A), NEW R, R = [t \in A |-> EnemyRead(t)]
  PROVE  EnemyParse(s) = ReadAll(s, R)
<1>1. \A k \in 1 .. Len(s) : R[s[k]] = EnemyRead(s[k])
  BY ElementOfSeq
<1>2. [k \in 1 .. Len(s) |-> EnemyRead(s[k])] = [k \in 1 .. Len(s) |-> R[s[k]]]
  BY <1>1, Zenon
<1> QED
  BY <1>2, Zenon
  DEF EnemyParse, ParseFields, ReadAll, EnemyRead, CoordAt, RotAt, MoveAt

\* s are the tokens of the fields in F of m.
EnemyMade(s, m, F) == Tokens(s) /\ EnemyParse(s) = Only(m, F)

LEMMA EnemyMadeJoined ==
  ASSUME NEW m, NEW s, NEW t, NEW F, NEW G, EnemyMade(s, m, F), EnemyMade(t, m, G)
  PROVE  EnemyMade(s \o t, m, F \cup G)
<1>1. PICK A : s \in Seq(A) /\ t \in Seq(A)
  BY TokensTogether DEF EnemyMade
<1>2. PICK R : R = [x \in A |-> EnemyRead(x)]
  BY Zenon
<1>3. s \o t \in Seq(A)
  BY <1>1, ConcatProperties
<1>4. /\ EnemyParse(s) = ReadAll(s, R) /\ EnemyParse(t) = ReadAll(t, R)
      /\ EnemyParse(s \o t) = ReadAll(s \o t, R)
  BY <1>1, <1>2, <1>3, EnemyReadAll, Zenon
<1>5. ReadAll(s \o t, R) = ReadAll(t, R) ++ ReadAll(s, R)
  BY ONLY <1>1, ReadJoined
<1>6. Only(m, G) ++ Only(m, F) = Only(m, F \cup G)
  BY OnlyOver, Zenon
<1> QED
  BY <1>3, <1>4, <1>5, <1>6, Zenon DEF EnemyMade, Tokens

LEMMA EnemyOne ==
  /\ EnemyParse(<<>>) = Unset
  /\ \A t : EnemyParse(<<t>>) = EnemyRead(t)
<1>1. EnemyParse(<<>>) = Unset
  <2>1. <<>> \in Seq({})
    BY EmptySeq
  <2>2. PICK R : R = [x \in {} |-> EnemyRead(x)]
    BY Zenon
  <2> QED
    BY <2>1, <2>2, EnemyReadAll, ReadNothing, Zenon
<1>2. ASSUME NEW t
      PROVE  EnemyParse(<<t>>) = EnemyRead(t)
  <2>1. <<t>> \in Seq({t})
    OBVIOUS
  <2>2. PICK R : R = [x \in {t} |-> EnemyRead(x)]
    BY Zenon
  <2>3. R[t] = EnemyRead(t)
    BY <2>2
  <2>4. IsMessage(R[t])
    BY <2>3, MessageOver, Zenon DEF EnemyRead
  <2> QED
    BY <2>1, <2>2, <2>3, <2>4, EnemyReadAll, ReadOne, Zenon
<1> QED
  BY <1>1, <1>2

\* Each field has a number of its own.
LEMMA EnemyTokens ==
  ASSUME NEW v, NEW size
  PROVE  /\ EnemyRead(Token(1, "varint", v, size)) = Field("id", v)
         /\ EnemyRead(Token(2, "varint", v, size)) = Field("hp", v)
         /\ EnemyRead(Token(3, "delimited", v, size)) = Field("coord", CoordianteParse(v))
         /\ EnemyRead(Token(4, "delimited", v, size)) = Field("rot", RotationParse(v))
         /\ EnemyRead(Token(5, "delimited", v, size)) = Field("dir", CoordianteParse(v))
         /\ v \in MoveState =>
              EnemyRead(Token(6, "varint", v, size)) = Field("movestate", v)
         /\ EnemyRead(Token(7, "varint", v, size)) = Field("bnewdest", v # 0)
BY TokenAt, PartAt, UnsetOver, MessageOver DEF EnemyRead

LEMMA EnemyFieldMade ==
  ASSUME NEW m, NEW f, NEW t, f \in DOMAIN m => EnemyRead(t) = Field(f, m[f])
  PROVE  EnemyMade(IF f \in DOMAIN m THEN <<t>> ELSE <<>>, m, {f})
<1>1. CASE f \in DOMAIN m
  <2>1. EnemyParse(<<t>>) = Only(m, {f})
    BY <1>1, EnemyOne, OnlyField, Zenon
  <2>2. EnemyMade(<<t>>, m, {f})
    BY <2>1, TokensOne, Zenon DEF EnemyMade
  <2> QED
    BY <1>1, <2>2, Zenon
<1>2. CASE f \notin DOMAIN m
  <2>1. EnemyParse(<<>>) = Only(m, {f})
    BY <1>2, EnemyOne, OnlyField, Zenon
  <2>2. EnemyMade(<<>>, m, {f})
    BY <2>1, TokensNothing, Zenon DEF EnemyMade
  <2> QED
    BY <1>2, <2>2, Zenon
<1> QED
  BY <1>1, <1>2

LEMMA EnemyFieldsMade ==
  ASSUME NEW m, Enemy(m)
  PROVE  /\ EnemyMade(WriteInt32(m, "id", 1), m, {"id"})
         /\ EnemyMade(WriteInt32(m, "hp", 2), m, {"hp"})
         /\ EnemyMade(CoordField(m, "coord", 3), m, {"coord"})
         /\ EnemyMade(RotField(m, "rot", 4), m, {"rot"})
         /\ EnemyMade(CoordField(m, "dir", 5), m, {"dir"})
         /\ EnemyMade(WriteEnum(m, "movestate", 6), m, {"movestate"})
         /\ EnemyMade(WriteBool(m, "bnewdest", 7), m, {"bnewdest"})
<1>1. /\ EnemyMade(WriteInt32(m, "id", 1), m, {"id"})
      /\ EnemyMade(WriteInt32(m, "hp", 2), m, {"hp"})
  <2>1. \A size : /\ EnemyRead(Token(1, "varint", m["id"], size)) = Field("id", m["id"])
                  /\ EnemyRead(Token(2, "varint", m["hp"], size)) = Field("hp", m["hp"])
    BY EnemyTokens
  <2> QED
    BY <2>1, EnemyFieldMade, Zenon DEF WriteInt32
<1>2. EnemyMade(WriteBool(m, "bnewdest", 7), m, {"bnewdest"})
  <2>1. "bnewdest" \in DOMAIN m => m["bnewdest"] \in BOOLEAN
    BY EnemyFields
  <2>2. PICK v : v = IF m["bnewdest"] THEN 1 ELSE 0
    OBVIOUS
  <2>3. EnemyRead(Token(7, "varint", v, 1)) = Field("bnewdest", v # 0)
    <3>1. \A w, size : EnemyRead(Token(7, "varint", w, size)) = Field("bnewdest", w # 0)
      BY EnemyTokens
    <3> QED
      BY <3>1, Zenon
  <2>4. ASSUME "bnewdest" \in DOMAIN m
        PROVE  Field("bnewdest", v # 0) = Field("bnewdest", m["bnewdest"])
    <3>1. CASE m["bnewdest"] = TRUE
      <4>1. (v # 0) = TRUE
        BY <2>2, <3>1
      <4> QED
        BY <3>1, <4>1, Zenon
    <3>2. CASE m["bnewdest"] = FALSE
      <4>1. (v # 0) = FALSE
        BY <2>2, <3>2
      <4> QED
        BY <3>2, <4>1, Zenon
    <3> QED
      BY <2>1, <2>4, <3>1, <3>2, Zenon
  <2>5. WriteBool(m, "bnewdest", 7) =
          IF "bnewdest" \in DOMAIN m THEN <<Token(7, "varint", v, 1)>> ELSE <<>>
    BY <2>2, Zenon DEF WriteBool
  <2>6. "bnewdest" \in DOMAIN m =>
          EnemyRead(Token(7, "varint", v, 1)) = Field("bnewdest", m["bnewdest"])
    BY <2>3, <2>4, Zenon
  <2> QED
    BY <2>5, <2>6, EnemyFieldMade, Zenon
<1>3. EnemyMade(WriteEnum(m, "movestate", 6), m, {"movestate"})
  <2>1. "movestate" \in DOMAIN m =>
          \A size : EnemyRead(Token(6, "varint", m["movestate"], size))
                      = Field("movestate", m["movestate"])
    BY EnemyFields, EnemyTokens, Zenon
  <2> QED
    BY <2>1, EnemyFieldMade, Zenon DEF WriteEnum, WriteInt32
<1>4. /\ "coord" \in DOMAIN m => CoordianteParse(CoordianteSerialize(m["coord"])) = m["coord"]
      /\ "dir" \in DOMAIN m => CoordianteParse(CoordianteSerialize(m["dir"])) = m["dir"]
      /\ "rot" \in DOMAIN m => RotationParse(RotationSerialize(m["rot"])) = m["rot"]
  BY CoordRoundtrip, RotationRoundtrip
  DEF Enemy, Coordiante, Rotation, HasFields
<1>5. EnemyMade(CoordField(m, "coord", 3), m, {"coord"})
  <2>1. PICK size : CoordField(m, "coord", 3) =
          IF "coord" \in DOMAIN m
          THEN <<Token(3, "delimited", CoordianteSerialize(m["coord"]), size)>> ELSE <<>>
    BY CoordFieldIs
  <2>2. PICK t : t = Token(3, "delimited", CoordianteSerialize(m["coord"]), size)
    OBVIOUS
  <2>3. EnemyRead(t) = Field("coord", CoordianteParse(CoordianteSerialize(m["coord"])))
    BY <2>2, EnemyTokens, Zenon
  <2>4. "coord" \in DOMAIN m => EnemyRead(t) = Field("coord", m["coord"])
    BY <1>4, <2>3, Zenon
  <2>5. EnemyMade(IF "coord" \in DOMAIN m THEN <<t>> ELSE <<>>, m, {"coord"})
    BY <2>4, EnemyFieldMade, Zenon
  <2> QED
    BY <2>1, <2>2, <2>5, Zenon
<1>6. EnemyMade(RotField(m, "rot", 4), m, {"rot"})
  <2>1. PICK size : RotField(m, "rot", 4) =
          IF "rot" \in DOMAIN m
          THEN <<Token(4, "delimited", RotationSerialize(m["rot"]), size)>> ELSE <<>>
    BY RotFieldIs
  <2>2. PICK t : t = Token(4, "delimited", RotationSerialize(m["rot"]), size)
    OBVIOUS
  <2>3. EnemyRead(t) = Field("rot", RotationParse(RotationSerialize(m["rot"])))
    BY <2>2, EnemyTokens, Zenon
  <2>4. "rot" \in DOMAIN m => EnemyRead(t) = Field("rot", m["rot"])
    BY <1>4, <2>3, Zenon
  <2>5. EnemyMade(IF "rot" \in DOMAIN m THEN <<t>> ELSE <<>>, m, {"rot"})
    BY <2>4, EnemyFieldMade, Zenon
  <2> QED
    BY <2>1, <2>2, <2>5, Zenon
<1>7. EnemyMade(CoordField(m, "dir", 5), m, {"dir"})
  <2>1. PICK size : CoordField(m, "dir", 5) =
          IF "dir" \in DOMAIN m
          THEN <<Token(5, "delimited", CoordianteSerialize(m["dir"]), size)>> ELSE <<>>
    BY CoordFieldIs
  <2>2. PICK t : t = Token(5, "delimited", CoordianteSerialize(m["dir"]), size)
    OBVIOUS
  <2>3. EnemyRead(t) = Field("dir", CoordianteParse(CoordianteSerialize(m["dir"])))
    BY <2>2, EnemyTokens, Zenon
  <2>4. "dir" \in DOMAIN m => EnemyRead(t) = Field("dir", m["dir"])
    BY <1>4, <2>3, Zenon
  <2>5. EnemyMade(IF "dir" \in DOMAIN m THEN <<t>> ELSE <<>>, m, {"dir"})
    BY <2>4, EnemyFieldMade, Zenon
  <2> QED
    BY <2>1, <2>2, <2>5, Zenon
<1> QED
  BY <1>1, <1>2, <1>3, <1>5, <1>6, <1>7

\* An enemy is read as it was written.
LEMMA EnemyRoundtrip ==
  ASSUME NEW m, Enemy(m)
  PROVE  EnemyParse(EnemySerialize(m)) = m
<1>1. PICK s1, s2, s3, s4, s5, s6, s7 :
        /\ s1 = WriteInt32(m, "id", 1) /\ s2 = WriteInt32(m, "hp", 2)
        /\ s3 = CoordField(m, "coord", 3)
        /\ s4 = RotField(m, "rot", 4)
        /\ s5 = CoordField(m, "dir", 5)
        /\ s6 = WriteEnum(m, "movestate", 6)
        /\ s7 = WriteBool(m, "bnewdest", 7)
  BY Zenon
<1>2. PICK F : F = {"id"} \cup {"hp"} \cup {"coord"} \cup {"rot"} \cup {"dir"}
                   \cup {"movestate"} \cup {"bnewdest"}
  BY Zenon
<1>3. /\ EnemyMade(s1, m, {"id"}) /\ EnemyMade(s2, m, {"hp"})
      /\ EnemyMade(s3, m, {"coord"}) /\ EnemyMade(s4, m, {"rot"})
      /\ EnemyMade(s5, m, {"dir"}) /\ EnemyMade(s6, m, {"movestate"})
      /\ EnemyMade(s7, m, {"bnewdest"})
  BY <1>1, EnemyFieldsMade, Zenon
<1>4. EnemyMade(s1 \o s2 \o s3 \o s4, m,
                {"id"} \cup {"hp"} \cup {"coord"} \cup {"rot"})
  BY <1>3, EnemyMadeJoined, Zenon
<1>5. EnemyMade(s1 \o s2 \o s3 \o s4 \o s5 \o s6 \o s7, m, F)
  BY <1>2, <1>3, <1>4, EnemyMadeJoined, Zenon
<1>6. EnemySerialize(m) = s1 \o s2 \o s3 \o s4 \o s5 \o s6 \o s7
  BY <1>1, Zenon DEF EnemySerialize, CoordField, RotField, WriteMessage, MessageToken
<1>7. DOMAIN m \subseteq F /\ IsMessage(m)
  BY <1>2 DEF Enemy, EnemyDefault
<1>8. Only(m, F) = m
  BY <1>7, OnlyAll, Zenon
<1> QED
  BY <1>5, <1>6, <1>8, Zenon DEF EnemyMade

-----------------------------------------------------------------------------
(* Repeated fields *)

\* f[k] are the entries among the first k of the l tokens in s.
Enters(f, s, n, l) ==
  f = [k \in 0 .. l |->
         IF k = 0 THEN <<>>
         ELSE IF Is(s[k], n, "delimited") THEN Append(f[k - 1], s[k])
         ELSE f[k - 1]]

LEMMA EntersAt ==
  ASSUME NEW l \in Nat, NEW s, NEW n, NEW f, Enters(f, s, n, l)
  PROVE  /\ f[0] = <<>>
         /\ \A k \in Nat : k < l =>
              f[k + 1] = IF Is(s[k + 1], n, "delimited") THEN Append(f[k], s[k + 1]) ELSE f[k]
<1>1. \A k \in 0 .. l :
        f[k] = IF k = 0 THEN <<>>
               ELSE IF Is(s[k], n, "delimited") THEN Append(f[k - 1], s[k])
               ELSE f[k - 1]
  BY Zenon DEF Enters
<1>2. ASSUME NEW k \in Nat, k < l
      PROVE  f[k + 1] = IF Is(s[k + 1], n, "delimited") THEN Append(f[k], s[k + 1]) ELSE f[k]
  <2>1. k + 1 \in 0 .. l /\ k + 1 # 0 /\ (k + 1) - 1 = k
    BY <1>2
  <2>2. f[k + 1] = IF k + 1 = 0 THEN <<>>
               ELSE IF Is(s[k + 1], n, "delimited") THEN Append(f[(k + 1) - 1], s[k + 1])
               ELSE f[(k + 1) - 1]
    BY <1>1, <2>1, Zenon
  <2> QED
    BY <2>1, <2>2, Zenon
<1>3. 0 \in 0 .. l
  OBVIOUS
<1> QED
  BY <1>1, <1>2, <1>3, Zenon

LEMMA EntersExist ==
  ASSUME NEW l \in Nat, NEW s, NEW n
  PROVE  \E f : Enters(f, s, n, l)
<1> DEFINE S == {m \in Nat : \E f : Enters(f, s, n, m)}
<1>1. 0 \in S
  <2>1. Enters([k \in 0 .. 0 |-> <<>>], s, n, 0)
    BY DEF Enters
  <2> QED
    BY <2>1
<1>2. ASSUME NEW m \in Nat, m \in S
      PROVE  m + 1 \in S
  <2>1. PICK f : Enters(f, s, n, m)
    BY <1>2
  <2> DEFINE g == [k \in 0 .. m + 1 |->
                     IF k = 0 THEN <<>>
                     ELSE IF Is(s[k], n, "delimited") THEN Append(f[k - 1], s[k])
                     ELSE f[k - 1]]
  <2>2. \A k \in 0 .. m : g[k] = f[k]
    <3>1. \A k \in 0 .. m :
            f[k] = IF k = 0 THEN <<>>
                   ELSE IF Is(s[k], n, "delimited") THEN Append(f[k - 1], s[k])
                   ELSE f[k - 1]
      BY <2>1, Zenon DEF Enters
    <3>2. \A k \in 0 .. m : k \in 0 .. m + 1
      OBVIOUS
    <3> QED
      BY <3>1, <3>2, Zenon
  <2>3. \A k \in 0 .. m + 1 : k # 0 => k - 1 \in 0 .. m
    OBVIOUS
  <2>4. Enters(g, s, n, m + 1)
    <3>1. \A k \in 0 .. m + 1 :
            (IF k = 0 THEN <<>>
             ELSE IF Is(s[k], n, "delimited") THEN Append(f[k - 1], s[k]) ELSE f[k - 1])
            = (IF k = 0 THEN <<>>
               ELSE IF Is(s[k], n, "delimited") THEN Append(g[k - 1], s[k]) ELSE g[k - 1])
      <4> HIDE DEF g
      <4> QED
        BY <2>2, <2>3, Zenon
    <3> QED
      BY <3>1, Zenon DEF Enters
  <2> QED
    BY <2>4
<1>3. l \in S
  <2> HIDE DEF S
  <2> QED
    BY <1>1, <1>2, SetInduction
<1> QED
  BY <1>3

LEMMA EntriesAre ==
  ASSUME NEW l \in Nat, NEW s, Len(s) = l, NEW n
  PROVE  \E f : Enters(f, s, n, l) /\ Entries(s, n) = f[l]
<1> DEFINE f == CHOOSE h : Enters(h, s, n, l)
<1>1. Enters(f, s, n, l)
  BY EntersExist
<1>2. Entries(s, n) = f[l]
  BY Zenon DEF Entries, Enters
<1> QED
  BY <1>1, <1>2, Zenon

LEMMA AppendedNext ==
  ASSUME NEW k \in Nat, NEW s
  PROVE  Append([j \in 1 .. k |-> s[j]], s[k + 1]) = [j \in 1 .. k + 1 |-> s[j]]
<1>1. PICK A : A = {s[j] : j \in 1 .. k + 1}
  BY Zenon
<1>2. PICK e : e = [j \in 1 .. k |-> s[j]]
  BY Zenon
<1>3. e \in [1 .. k -> A]
  BY <1>1, <1>2
<1>4. e \in Seq(A) /\ Len(e) = k
  <2>1. e \in Seq(A)
    BY ONLY k \in Nat, <1>3, SeqDef
  <2> QED
    BY ONLY k \in Nat, <1>3, <2>1, LenProperties
<1>5. s[k + 1] \in A
  BY <1>1
<1>6. PICK x : x = s[k + 1]
  OBVIOUS
<1>7. PICK a : a = Append(e, x)
  OBVIOUS
<1>8. /\ a \in Seq(A) /\ Len(a) = k + 1
      /\ \A j \in 1 .. k : a[j] = e[j]
      /\ a[k + 1] = x
  BY ONLY k \in Nat, <1>4, <1>5, <1>6, <1>7, AppendProperties
<1>9. a = [j \in 1 .. k + 1 |-> a[j]]
  BY ONLY k \in Nat, <1>8, SeqDef, LenProperties
<1>10. \A j \in 1 .. k + 1 : a[j] = s[j]
  <2> SUFFICES ASSUME NEW j \in 1 .. k + 1
               PROVE  a[j] = s[j]
    OBVIOUS
  <2>1. j \in 1 .. k \/ j = k + 1
    OBVIOUS
  <2>2. j \in 1 .. k => e[j] = s[j]
    BY <1>2
  <2> QED
    BY <2>1, <2>2, <1>6, <1>8, Zenon
<1>11. a = [j \in 1 .. k + 1 |-> s[j]]
  BY ONLY <1>9, <1>10, Zenon
<1> QED
  BY <1>2, <1>6, <1>7, <1>11, Zenon

\* If every token is an entry, the entries are the tokens.
LEMMA EntriesAll ==
  ASSUME NEW l \in Nat, NEW s, Len(s) = l, NEW n, \A k \in 1 .. l : Is(s[k], n, "delimited")
  PROVE  Entries(s, n) = [k \in 1 .. l |-> s[k]]
<1>1. PICK f : Enters(f, s, n, l) /\ Entries(s, n) = f[l]
  BY EntriesAre
<1>2. /\ f[0] = <<>>
      /\ \A k \in Nat : k < l =>
           f[k + 1] = IF Is(s[k + 1], n, "delimited") THEN Append(f[k], s[k + 1]) ELSE f[k]
  BY ONLY l \in Nat, <1>1, EntersAt
<1> DEFINE S == {k \in Nat : k <= l => f[k] = [j \in 1 .. k |-> s[j]]}
<1>3. 0 \in S
  <2>1. [j \in 1 .. 0 |-> s[j]] = <<>>
    OBVIOUS
  <2> QED
    BY <1>2, <2>1
<1>4. ASSUME NEW k \in Nat, k \in S
      PROVE  k + 1 \in S
  <2> SUFFICES ASSUME k + 1 <= l PROVE f[k + 1] = [j \in 1 .. k + 1 |-> s[j]]
    OBVIOUS
  <2>1. k < l /\ k <= l /\ k + 1 \in 1 .. l
    OBVIOUS
  <2>2. f[k] = [j \in 1 .. k |-> s[j]]
    BY <1>4, <2>1
  <2>3. f[k + 1] = Append(f[k], s[k + 1])
    BY ONLY <1>2, <2>1, k \in Nat, \A j \in 1 .. l : Is(s[j], n, "delimited"), Zenon
  <2>4. Append([j \in 1 .. k |-> s[j]], s[k + 1]) = [j \in 1 .. k + 1 |-> s[j]]
    BY AppendedNext
  <2> QED
    BY ONLY <2>2, <2>3, <2>4, Zenon
<1>5. Nat \subseteq S
  <2> HIDE DEF S
  <2> QED
    BY <1>3, <1>4, SetInduction
<1>6. l \in S /\ l <= l
  BY <1>5
<1> QED
  BY <1>1, <1>6

LEMMA EntriesNone ==
  ASSUME NEW s, Len(s) = 1, NEW n, ~Is(s[1], n, "delimited")
  PROVE  Entries(s, n) = <<>>
<1>1. PICK f : Enters(f, s, n, 1) /\ Entries(s, n) = f[1]
  BY EntriesAre
<1>2. /\ f[0] = <<>>
      /\ f[0 + 1] = IF Is(s[0 + 1], n, "delimited") THEN Append(f[0], s[0 + 1]) ELSE f[0]
  BY ONLY <1>1, EntersAt
<1>3. 0 + 1 = 1
  OBVIOUS
<1> QED
  BY <1>1, <1>2, <1>3, Zenon

-----------------------------------------------------------------------------
(* Packets of one field *)

IntParse(b, f) == ParseFields(b, LAMBDA t : Int32At(t, 1, f))
TruthParse(b, f) == ParseFields(b, LAMBDA t : BoolAt(t, 1, f))
TextParse(b, f) == ParseFields(b, LAMBDA t : StringAt(t, 1, f))

LEMMA SingleField ==
  ASSUME NEW m, NEW f, IsMessage(m), DOMAIN m = {f}
  PROVE  Field(f, m[f]) = m /\ f \in DOMAIN m
BY DEF Field, IsMessage

LEMMA TwoInOrder ==
  ASSUME NEW t, NEW u
  PROVE  <<t>> \o <<u>> = <<t, u>>
<1>1. PICK a, b, c : a = <<t>> /\ b = <<u>> /\ c = <<t, u>>
  BY Zenon
<1>2. PICK A : A = {t, u}
  OBVIOUS
<1>3. a \in Seq(A) /\ b \in Seq(A) /\ c \in Seq(A)
  BY <1>1, <1>2
<1>4. /\ Len(a) = 1 /\ Len(b) = 1 /\ Len(c) = 2
      /\ a[1] = t /\ b[1] = u /\ c[1] = t /\ c[2] = u
  BY <1>1
<1>5. PICK d : d = a \o b
  OBVIOUS
<1>6. /\ d \in Seq(A) /\ Len(d) = 1 + 1
      /\ \A k \in 1 .. 1 + 1 : d[k] = IF k <= 1 THEN a[k] ELSE b[k - 1]
  BY <1>3, <1>4, <1>5, ConcatProperties
<1>7. \A k \in 1 .. Len(d) : d[k] = c[k]
  BY <1>4, <1>6
<1>8. d = c
  BY <1>3, <1>4, <1>6, <1>7, SeqEqual
<1> QED
  BY <1>1, <1>5, <1>8, Zenon

LEMMA OneRead ==
  ASSUME NEW z, NEW r, Len(z) = 1, z[1] = r, IsMessage(r)
  PROVE  Merged(z) = r
BY MergedOne

LEMMA IntRoundtrip ==
  ASSUME NEW m, NEW f, IsMessage(m), DOMAIN m = {f}
  PROVE  IntParse(WriteInt32(m, f, 1), f) = m
<1>1. Field(f, m[f]) = m /\ f \in DOMAIN m
  BY SingleField
<1>2. PICK t : t = Token(1, "varint", m[f], VarintSize(m[f]))
  OBVIOUS
<1>3. PICK z : z = [k \in 1 .. Len(<<t>>) |-> Int32At(<<t>>[k], 1, f)]
  BY Zenon
<1>4. Len(z) = 1 /\ z[1] = Int32At(t, 1, f)
  BY <1>3
<1>5. Int32At(t, 1, f) = Field(f, m[f])
  <2>1. t.number = 1 /\ t.type = "varint" /\ t.value = m[f]
    BY <1>2 DEF Token
  <2> QED
    BY <2>1, Zenon DEF Int32At, Is
<1>6. Merged(z) = m
  <2>1. z[1] = m
    BY <1>1, <1>4, <1>5, Zenon
  <2> QED
    BY <1>4, <2>1, OneRead
<1>7. WriteInt32(m, f, 1) = <<t>>
  BY <1>1, <1>2, Zenon DEF WriteInt32
<1> QED
  BY <1>3, <1>6, <1>7, Zenon DEF IntParse, ParseFields

LEMMA TruthRoundtrip ==
  ASSUME NEW m, NEW f, IsMessage(m), DOMAIN m = {f}, m[f] = TRUE
  PROVE  TruthParse(WriteBool(m, f, 1), f) = m
<1>1. Field(f, m[f]) = m /\ f \in DOMAIN m
  BY SingleField
<1>2. PICK t : t = Token(1, "varint", 1, 1)
  OBVIOUS
<1>3. PICK z : z = [k \in 1 .. Len(<<t>>) |-> BoolAt(<<t>>[k], 1, f)]
  BY Zenon
<1>4. Len(z) = 1 /\ z[1] = BoolAt(t, 1, f)
  BY <1>3
<1>6. BoolAt(t, 1, f) = Field(f, m[f])
  <2>1. t.number = 1 /\ t.type = "varint" /\ t.value = 1
    BY <1>2 DEF Token
  <2>2. (t.value # 0) = TRUE
    BY <2>1
  <2> QED
    BY <2>1, <2>2, Zenon DEF BoolAt, Is
<1>7. Merged(z) = m
  <2>1. z[1] = m
    BY <1>1, <1>4, <1>6, Zenon
  <2> QED
    BY <1>4, <2>1, OneRead
<1>8. WriteBool(m, f, 1) = <<t>>
  BY <1>1, <1>2, Zenon DEF WriteBool
<1> QED
  BY <1>3, <1>7, <1>8, Zenon DEF TruthParse, ParseFields

LEMMA TextRoundtrip ==
  ASSUME NEW m, NEW f, IsMessage(m), DOMAIN m = {f}
  PROVE  TextParse(WriteString(m, f, 1), f) = m
<1>1. Field(f, m[f]) = m /\ f \in DOMAIN m
  BY SingleField
<1>2. PICK t : t = Token(1, "delimited", m[f], VarintSize(m[f]) + m[f])
  OBVIOUS
<1>3. PICK z : z = [k \in 1 .. Len(<<t>>) |-> StringAt(<<t>>[k], 1, f)]
  BY Zenon
<1>4. Len(z) = 1 /\ z[1] = StringAt(t, 1, f)
  BY <1>3
<1>5. StringAt(t, 1, f) = Field(f, m[f])
  <2>1. t.number = 1 /\ t.type = "delimited" /\ t.value = m[f]
    BY <1>2 DEF Token
  <2> QED
    BY <2>1, Zenon DEF StringAt, Is
<1>6. Merged(z) = m
  <2>1. z[1] = m
    BY <1>1, <1>4, <1>5, Zenon
  <2> QED
    BY <1>4, <2>1, OneRead
<1>7. WriteString(m, f, 1) = <<t>>
  BY <1>1, <1>2, Zenon DEF WriteString
<1> QED
  BY <1>3, <1>6, <1>7, Zenon DEF TextParse, ParseFields

LEMMA C_MoveRoundtrip ==
  ASSUME NEW p, Player(p)
  PROVE  C_MoveParse(C_MoveSerialize([player |-> p])) = [player |-> p]
<1>1. PICK m : m = [player |-> p]
  OBVIOUS
<1>2. IsMessage(m) /\ DOMAIN m = {"player"} /\ m["player"] = p
  BY <1>1 DEF IsMessage
<1>3. Field("player", m["player"]) = m /\ "player" \in DOMAIN m
  BY <1>2, SingleField
<1>4. PICK t : t = Token(1, "delimited", PlayerSerialize(p),
                         VarintSize(PlayerByteSizeLong(p)) + Bytes(PlayerSerialize(p)))
  OBVIOUS
<1>5. t.number = 1 /\ t.type = "delimited" /\ t.value = PlayerSerialize(p)
  BY <1>4 DEF Token
<1>6. MessageAt(t, 1, "player", PlayerParse) = Field("player", p)
  <2>1. PlayerParse(t.value) = p
    BY <1>5, PlayerRoundtrip, Zenon
  <2> QED
    BY <1>5, <2>1, Zenon DEF MessageAt, Is
<1>7. PICK z : z = [k \in 1 .. Len(<<t>>) |-> MessageAt(<<t>>[k], 1, "player", PlayerParse)]
  BY Zenon
<1>8. Len(z) = 1 /\ z[1] = Field("player", p)
  <2>1. z[1] = MessageAt(t, 1, "player", PlayerParse)
    BY <1>7 DEF MessageAt
  <2>2. Len(z) = 1
    BY <1>7 DEF MessageAt
  <2> QED
    BY <1>6, <2>1, <2>2, Zenon
<1>9. Merged(z) = m
  BY <1>2, <1>3, <1>8, OneRead, Zenon
<1>10. C_MoveSerialize(m) = <<t>>
  BY <1>2, <1>3, <1>4, Zenon DEF C_MoveSerialize, WriteMessage, MessageToken
<1> QED
  BY <1>1, <1>7, <1>9, <1>10, Zenon DEF C_MoveParse, ParseFields

LEMMA C_AttackRoundtrip ==
  ASSUME NEW a, NEW b
  PROVE  C_AttackParse(C_AttackSerialize([attacker |-> a, target |-> b]))
           = [attacker |-> a, target |-> b]
<1>1. PICK m : m = [attacker |-> a, target |-> b]
  OBVIOUS
<1>2. /\ "attacker" \in DOMAIN m /\ "target" \in DOMAIN m
      /\ m["attacker"] = a /\ m["target"] = b
  BY <1>1
<1>3. PICK t, u : t = Token(1, "varint", a, VarintSize(a)) /\ u = Token(2, "varint", b, VarintSize(b))
  BY Zenon
<1>4. PICK s : s = <<t, u>>
  OBVIOUS
<1>5. C_AttackSerialize(m) = s
  <2>1. WriteInt32(m, "attacker", 1) = <<t>> /\ WriteInt32(m, "target", 2) = <<u>>
    BY <1>2, <1>3, Zenon DEF WriteInt32
  <2>2. <<t>> \o <<u>> = s
    BY <1>4, TwoInOrder, Zenon
  <2> QED
    BY <2>1, <2>2, Zenon DEF C_AttackSerialize
<1>6. PICK z : z = [k \in 1 .. Len(s) |-> Int32At(s[k], 1, "attacker") ++ Int32At(s[k], 2, "target")]
  BY Zenon
<1>7. /\ Int32At(t, 1, "attacker") = Field("attacker", a)
      /\ Int32At(t, 2, "target") = Unset
      /\ Int32At(u, 1, "attacker") = Unset
      /\ Int32At(u, 2, "target") = Field("target", b)
  BY <1>3, TokenAt
<1>8. Len(z) = 2 /\ z[1] = Field("attacker", a) /\ z[2] = Field("target", b)
  <2>1. Len(s) = 2 /\ s[1] = t /\ s[2] = u
    BY <1>4
  <2>2. /\ z[1] = Int32At(t, 1, "attacker") ++ Int32At(t, 2, "target")
        /\ z[2] = Int32At(u, 1, "attacker") ++ Int32At(u, 2, "target")
    BY <1>6, <2>1
  <2>3. Len(z) = 2
    BY <1>6, <2>1
  <2> QED
    BY <1>7, <2>2, <2>3, UnsetOver, MessageOver, Zenon
<1>9. PICK f : Merges(f, z, 2) /\ Merged(z) = f[2]
  BY <1>8, MergedIs
<1>10. f[0] = Unset /\ f[0 + 1] = z[0 + 1] ++ f[0] /\ f[1 + 1] = z[1 + 1] ++ f[1]
  BY ONLY <1>9, MergesAt
<1>11. f[2] = Field("target", b) ++ (Field("attacker", a) ++ Unset)
  BY ONLY <1>8, <1>10
<1>12. Field("target", b) ++ (Field("attacker", a) ++ Unset) = m
  BY ONLY <1>1 DEF Field, ++, Unset
<1>13. Merged(z) = m
  BY <1>9, <1>11, <1>12, Zenon
<1> QED
  BY <1>1, <1>5, <1>6, <1>13, Zenon DEF C_AttackParse, ParseFields

-----------------------------------------------------------------------------
(* Packets of lists *)

PlayersParse(b) == ParseRepeated(b, 1, PlayerParse)
EnemiesParse(b) == ParseRepeated(b, 1, EnemyParse)

LEMMA PlayersRoundtrip ==
  ASSUME NEW n \in Nat, NEW ps, PlayerList(ps, n), IsMessage(ps)
  PROVE  PlayersParse(PlayersField(ps)) = ps
<1>1. PICK s : s = [k \in 1 .. n |-> Token(1, "delimited", PlayerSerialize(ps[k]),
                      VarintSize(PlayerByteSizeLong(ps[k])) + Bytes(PlayerSerialize(ps[k])))]
  BY Zenon
<1>2. PlayersField(ps) = s
  BY <1>1, Zenon DEF PlayersField, WriteRepeated, MessageToken, PlayerList
<1>3. Len(s) = n
  BY <1>1
<1>4. ASSUME NEW k \in 1 .. n
      PROVE  Is(s[k], 1, "delimited") /\ PlayerParse(s[k].value) = ps[k]
  <2>1. PICK size : s[k] = Token(1, "delimited", PlayerSerialize(ps[k]), size)
    BY <1>1
  <2>2. s[k].number = 1 /\ s[k].type = "delimited" /\ s[k].value = PlayerSerialize(ps[k])
    BY <2>1 DEF Token
  <2> QED
    BY <2>2, PlayerRoundtrip, Zenon DEF Is, PlayerList
<1>5. PICK e : e = Entries(s, 1)
  OBVIOUS
<1>6. e = [k \in 1 .. n |-> s[k]]
  BY <1>3, <1>4, <1>5, EntriesAll, Zenon
<1>7. Len(e) = n /\ \A k \in 1 .. n : e[k] = s[k]
  BY <1>6
<1>8. [k \in 1 .. Len(e) |-> PlayerParse(e[k].value)] = ps
  <2>1. \A k \in 1 .. n : PlayerParse(e[k].value) = ps[k]
    BY <1>4, <1>7, Zenon
  <2>2. ps = [k \in 1 .. n |-> ps[k]]
    BY Zenon DEF PlayerList, IsMessage
  <2> QED
    BY ONLY <1>7, <2>1, <2>2, Zenon
<1> QED
  BY <1>2, <1>5, <1>8, Zenon DEF PlayersParse, ParseRepeated

LEMMA EnemiesRoundtrip ==
  ASSUME NEW n \in Nat, NEW es, EnemyList(es, n), IsMessage(es)
  PROVE  EnemiesParse(EnemiesField(es)) = es
<1>1. PICK s : s = [k \in 1 .. n |-> Token(1, "delimited", EnemySerialize(es[k]),
                      VarintSize(EnemyByteSizeLong(es[k])) + Bytes(EnemySerialize(es[k])))]
  BY Zenon
<1>2. EnemiesField(es) = s
  BY <1>1, Zenon DEF EnemiesField, WriteRepeated, MessageToken, EnemyList
<1>3. Len(s) = n
  BY <1>1
<1>4. ASSUME NEW k \in 1 .. n
      PROVE  Is(s[k], 1, "delimited") /\ EnemyParse(s[k].value) = es[k]
  <2>1. PICK size : s[k] = Token(1, "delimited", EnemySerialize(es[k]), size)
    BY <1>1
  <2>2. s[k].number = 1 /\ s[k].type = "delimited" /\ s[k].value = EnemySerialize(es[k])
    BY <2>1 DEF Token
  <2> QED
    BY <2>2, EnemyRoundtrip, Zenon DEF Is, EnemyList
<1>5. PICK e : e = Entries(s, 1)
  OBVIOUS
<1>6. e = [k \in 1 .. n |-> s[k]]
  BY <1>3, <1>4, <1>5, EntriesAll, Zenon
<1>7. Len(e) = n /\ \A k \in 1 .. n : e[k] = s[k]
  BY <1>6
<1>8. [k \in 1 .. Len(e) |-> EnemyParse(e[k].value)] = es
  <2>1. \A k \in 1 .. n : EnemyParse(e[k].value) = es[k]
    BY <1>4, <1>7, Zenon
  <2>2. es = [k \in 1 .. n |-> es[k]]
    BY Zenon DEF EnemyList, IsMessage
  <2> QED
    BY ONLY <1>7, <2>1, <2>2, Zenon
<1> QED
  BY <1>2, <1>5, <1>8, Zenon DEF EnemiesParse, ParseRepeated

-----------------------------------------------------------------------------
(* What the getters give is a message of the same class *)

LEMMA ViewWhole ==
  ASSUME NEW m, NEW d, IsMessage(m), DOMAIN m = DOMAIN d
  PROVE  View(m, d) = m
<1>1. m ++ d = [f \in DOMAIN m |-> m[f]]
  BY Over
<1> QED
  BY <1>1, Zenon DEF View, IsMessage

LEMMA ViewAt ==
  ASSUME NEW m, NEW d, DOMAIN m \subseteq DOMAIN d
  PROVE  /\ IsMessage(View(m, d)) /\ DOMAIN View(m, d) = DOMAIN d
         /\ \A f \in DOMAIN d : View(m, d)[f] = IF f \in DOMAIN m THEN m[f] ELSE d[f]
BY DEF View, ++, IsMessage

LEMMA CoordianteViewed ==
  ASSUME NEW m, Coordiante(m)
  PROVE  Coordiante(CoordianteView(m))
<1>1. PICK d : d = CoordianteDefault
  OBVIOUS
<1>2. PICK types : types = [x |-> Float, y |-> Float, z |-> Float]
  OBVIOUS
<1>3. /\ DOMAIN d = {"x", "y", "z"} /\ DOMAIN types = {"x", "y", "z"}
      /\ \A f \in {"x", "y", "z"} : d[f] = Zero /\ types[f] = Float
  BY <1>1, <1>2 DEF CoordianteDefault
<1>4. DOMAIN m \subseteq DOMAIN types /\ \A f \in DOMAIN m : m[f] \in types[f]
  BY <1>2, Zenon DEF Coordiante, HasFields
<1>5. PICK v : v = View(m, d)
  OBVIOUS
<1>6. /\ IsMessage(v) /\ DOMAIN v = DOMAIN d
      /\ \A f \in DOMAIN d : v[f] = IF f \in DOMAIN m THEN m[f] ELSE d[f]
  <2>1. DOMAIN m \subseteq DOMAIN d
    BY <1>3, <1>4
  <2> QED
    BY ONLY <1>5, <2>1, ViewAt
<1>7. \A f \in DOMAIN v : v[f] \in types[f]
  BY <1>3, <1>4, <1>6, FloatAssumption
<1>8. HasFields(v, types)
  BY <1>3, <1>6, <1>7, Zenon DEF HasFields
<1> QED
  BY <1>1, <1>2, <1>5, <1>8, Zenon DEF CoordianteView, Coordiante

LEMMA RotationViewed ==
  ASSUME NEW m, Rotation(m)
  PROVE  Rotation(RotationView(m))
BY CoordianteViewed, Zenon
DEF Rotation, RotationView, RotationDefault, Coordiante, CoordianteView, CoordianteDefault

LEMMA VelocityViewed ==
  ASSUME NEW m, Velocity(m)
  PROVE  Velocity(VelocityView(m))
BY CoordianteViewed, Zenon
DEF Velocity, VelocityView, VelocityDefault, Coordiante, CoordianteView, CoordianteDefault

LEMMA DefaultParts ==
  /\ Coordiante(CoordianteDefault) /\ Rotation(RotationDefault) /\ Velocity(VelocityDefault)
<1>1. HasFields([x |-> Zero, y |-> Zero, z |-> Zero], [x |-> Float, y |-> Float, z |-> Float])
  BY FloatAssumption DEF HasFields, IsMessage
<1> QED
  BY <1>1, Zenon
  DEF Coordiante, CoordianteDefault, Rotation, RotationDefault, Velocity, VelocityDefault

LEMMA PlayerWith ==
  ASSUME NEW m, IsMessage(m), DOMAIN m = DOMAIN PlayerDefault,
         m["id"] \in Int32, m["hp"] \in Int32, m["battack"] \in BOOLEAN,
         m["movestate"] \in MoveState,
         Coordiante(m["coord"]), Coordiante(m["dir"]), Rotation(m["rot"]), Velocity(m["vel"])
  PROVE  Player(m)
<1>1. PICK r : r = Restrict(m, {"id", "hp", "battack", "movestate"} \cap DOMAIN m)
  OBVIOUS
<1>2. PICK types : types = [id |-> Int32, hp |-> Int32, battack |-> BOOLEAN, movestate |-> MoveState]
  OBVIOUS
<1>3. DOMAIN m = {"id", "hp", "battack", "coord", "rot", "vel", "dir", "movestate"}
  BY DEF PlayerDefault
<1>4. r = [f \in {"id", "hp", "battack", "movestate"} |-> m[f]]
  <2>1. {"id", "hp", "battack", "movestate"} \cap DOMAIN m = {"id", "hp", "battack", "movestate"}
    BY <1>3
  <2> QED
    BY <1>1, <2>1, Zenon DEF Restrict
<1>5. /\ IsMessage(r) /\ DOMAIN r = {"id", "hp", "battack", "movestate"}
      /\ \A f \in {"id", "hp", "battack", "movestate"} : r[f] = m[f]
  BY <1>4 DEF IsMessage
<1>6. /\ DOMAIN types = {"id", "hp", "battack", "movestate"}
      /\ types["id"] = Int32 /\ types["hp"] = Int32 /\ types["battack"] = BOOLEAN
      /\ types["movestate"] = MoveState
  BY <1>2
<1>7. \A f \in DOMAIN r : r[f] \in types[f]
  BY <1>5, <1>6
<1>8. HasFields(r, types)
  BY <1>5, <1>6, <1>7 DEF HasFields
<1> QED
  BY <1>1, <1>2, <1>8 DEF Player

LEMMA EnemyWith ==
  ASSUME NEW m, IsMessage(m), DOMAIN m = DOMAIN EnemyDefault,
         m["id"] \in Int32, m["hp"] \in Int32, m["bnewdest"] \in BOOLEAN,
         m["movestate"] \in MoveState,
         Coordiante(m["coord"]), Coordiante(m["dir"]), Rotation(m["rot"])
  PROVE  Enemy(m)
<1>1. PICK r : r = Restrict(m, {"id", "hp", "movestate", "bnewdest"} \cap DOMAIN m)
  OBVIOUS
<1>2. PICK types : types = [id |-> Int32, hp |-> Int32, movestate |-> MoveState, bnewdest |-> BOOLEAN]
  OBVIOUS
<1>3. DOMAIN m = {"id", "hp", "coord", "rot", "dir", "movestate", "bnewdest"}
  BY DEF EnemyDefault
<1>4. r = [f \in {"id", "hp", "movestate", "bnewdest"} |-> m[f]]
  <2>1. {"id", "hp", "movestate", "bnewdest"} \cap DOMAIN m = {"id", "hp", "movestate", "bnewdest"}
    BY <1>3
  <2> QED
    BY <1>1, <2>1, Zenon DEF Restrict
<1>5. /\ IsMessage(r) /\ DOMAIN r = {"id", "hp", "movestate", "bnewdest"}
      /\ \A f \in {"id", "hp", "movestate", "bnewdest"} : r[f] = m[f]
  BY <1>4 DEF IsMessage
<1>6. /\ DOMAIN types = {"id", "hp", "movestate", "bnewdest"}
      /\ types["id"] = Int32 /\ types["hp"] = Int32 /\ types["bnewdest"] = BOOLEAN
      /\ types["movestate"] = MoveState
  BY <1>2
<1>7. \A f \in DOMAIN r : r[f] \in types[f]
  BY <1>5, <1>6
<1>8. HasFields(r, types)
  BY <1>5, <1>6, <1>7 DEF HasFields
<1> QED
  BY <1>1, <1>2, <1>8 DEF Enemy

LEMMA PlayerViewed ==
  ASSUME NEW m, Player(m)
  PROVE  Player(PlayerView(m))
<1>1. PICK d : d = PlayerDefault
  OBVIOUS
<1>2. /\ DOMAIN d = {"id", "hp", "battack", "coord", "rot", "vel", "dir", "movestate"}
      /\ d["id"] \in Int32 /\ d["hp"] \in Int32 /\ d["battack"] \in BOOLEAN
      /\ d["movestate"] \in MoveState
      /\ d["coord"] = CoordianteDefault /\ d["dir"] = CoordianteDefault
      /\ d["rot"] = RotationDefault /\ d["vel"] = VelocityDefault
  BY <1>1 DEF PlayerDefault, MoveState, IDLE, Int32
<1>3. DOMAIN m \subseteq DOMAIN d
  BY <1>1, Zenon DEF Player
<1>4. PICK v : v = View(m, d)
  OBVIOUS
<1>5. /\ IsMessage(v) /\ DOMAIN v = DOMAIN d
      /\ \A f \in DOMAIN d : v[f] = IF f \in DOMAIN m THEN m[f] ELSE d[f]
  BY ONLY <1>3, <1>4, ViewAt
<1>6. /\ v["id"] \in Int32 /\ v["hp"] \in Int32 /\ v["battack"] \in BOOLEAN
      /\ v["movestate"] \in MoveState
  BY <1>2, <1>5, PlayerTypes
<1>7. Coordiante(v["coord"]) /\ Coordiante(v["dir"]) /\ Rotation(v["rot"]) /\ Velocity(v["vel"])
  <2>1. /\ \A f \in {"coord", "dir"} \cap DOMAIN m : Coordiante(m[f])
        /\ "rot" \in DOMAIN m => Rotation(m["rot"])
        /\ "vel" \in DOMAIN m => Velocity(m["vel"])
    BY DEF Player
  <2> QED
    BY <1>2, <1>5, <2>1, DefaultParts
<1>8. PICK w : w = [v EXCEPT !["coord"] = CoordianteView(v["coord"]),
                             !["rot"] = RotationView(v["rot"]),
                             !["vel"] = VelocityView(v["vel"]),
                             !["dir"] = CoordianteView(v["dir"])]
  OBVIOUS
<1>9. IsMessage(w) /\ DOMAIN w = DOMAIN d
  BY <1>5, <1>8 DEF IsMessage
<1>10. /\ w["id"] = v["id"] /\ w["hp"] = v["hp"] /\ w["battack"] = v["battack"]
       /\ w["movestate"] = v["movestate"]
       /\ w["coord"] = CoordianteView(v["coord"]) /\ w["dir"] = CoordianteView(v["dir"])
       /\ w["rot"] = RotationView(v["rot"]) /\ w["vel"] = VelocityView(v["vel"])
  BY <1>2, <1>5, <1>8
<1>11. PlayerView(m) = w
  BY <1>1, <1>4, <1>8 DEF PlayerView
<1>12. /\ Coordiante(w["coord"]) /\ Coordiante(w["dir"]) /\ Rotation(w["rot"])
       /\ Velocity(w["vel"])
  BY <1>7, <1>10, CoordianteViewed, RotationViewed, VelocityViewed
<1>13. Player(w)
  BY <1>1, <1>6, <1>9, <1>10, <1>12, PlayerWith
<1> QED
  BY <1>11, <1>13, Zenon

LEMMA EnemyViewed ==
  ASSUME NEW m, Enemy(m)
  PROVE  Enemy(EnemyView(m))
<1>1. PICK d : d = EnemyDefault
  OBVIOUS
<1>2. /\ DOMAIN d = {"id", "hp", "coord", "rot", "dir", "movestate", "bnewdest"}
      /\ d["id"] \in Int32 /\ d["hp"] \in Int32 /\ d["bnewdest"] \in BOOLEAN
      /\ d["movestate"] \in MoveState
      /\ d["coord"] = CoordianteDefault /\ d["dir"] = CoordianteDefault
      /\ d["rot"] = RotationDefault
  BY <1>1 DEF EnemyDefault, MoveState, IDLE, Int32
<1>3. DOMAIN m \subseteq DOMAIN d
  BY <1>1, Zenon DEF Enemy
<1>4. PICK v : v = View(m, d)
  OBVIOUS
<1>5. /\ IsMessage(v) /\ DOMAIN v = DOMAIN d
      /\ \A f \in DOMAIN d : v[f] = IF f \in DOMAIN m THEN m[f] ELSE d[f]
  BY ONLY <1>3, <1>4, ViewAt
<1>6. /\ v["id"] \in Int32 /\ v["hp"] \in Int32 /\ v["bnewdest"] \in BOOLEAN
      /\ v["movestate"] \in MoveState
  BY <1>2, <1>5, EnemyTypes
<1>7. Coordiante(v["coord"]) /\ Coordiante(v["dir"]) /\ Rotation(v["rot"])
  <2>1. /\ \A f \in {"coord", "dir"} \cap DOMAIN m : Coordiante(m[f])
        /\ "rot" \in DOMAIN m => Rotation(m["rot"])
    BY DEF Enemy
  <2> QED
    BY <1>2, <1>5, <2>1, DefaultParts
<1>8. PICK w : w = [v EXCEPT !["coord"] = CoordianteView(v["coord"]),
                             !["rot"] = RotationView(v["rot"]),
                             !["dir"] = CoordianteView(v["dir"])]
  OBVIOUS
<1>9. IsMessage(w) /\ DOMAIN w = DOMAIN d
  BY <1>5, <1>8 DEF IsMessage
<1>10. /\ w["id"] = v["id"] /\ w["hp"] = v["hp"] /\ w["bnewdest"] = v["bnewdest"]
       /\ w["movestate"] = v["movestate"]
       /\ w["coord"] = CoordianteView(v["coord"]) /\ w["dir"] = CoordianteView(v["dir"])
       /\ w["rot"] = RotationView(v["rot"])
  BY <1>2, <1>5, <1>8
<1>11. EnemyView(m) = w
  BY <1>1, <1>4, <1>8 DEF EnemyView
<1>12. Coordiante(w["coord"]) /\ Coordiante(w["dir"]) /\ Rotation(w["rot"])
  BY <1>7, <1>10, CoordianteViewed, RotationViewed
<1>13. Enemy(w)
  BY <1>1, <1>6, <1>9, <1>10, <1>12, EnemyWith
<1> QED
  BY <1>11, <1>13, Zenon

-----------------------------------------------------------------------------
(* What is sent and what is read of it *)

\* An id or a text in a message of one field.
LEMMA OneField ==
  /\ \A v : LET m == [id |-> v] IN IsMessage(m) /\ DOMAIN m = {"id"} /\ m["id"] = v
  /\ \A v : LET m == [target |-> v] IN IsMessage(m) /\ DOMAIN m = {"target"} /\ m["target"] = v
  /\ \A v : LET m == [msg |-> v] IN IsMessage(m) /\ DOMAIN m = {"msg"} /\ m["msg"] = v
  /\ LET m == [bsucceded |-> TRUE]
     IN IsMessage(m) /\ DOMAIN m = {"bsucceded"} /\ m["bsucceded"] = TRUE
BY DEF IsMessage

LEMMA IdSent ==
  ASSUME NEW v \in Int32, NEW m, m = [id |-> v]
  PROVE  /\ HasFields(m, [id |-> Int32]) /\ View(m, [id |-> 0]) = m
         /\ (DOMAIN m = DOMAIN [id |-> 0]) = TRUE
<1>1. IsMessage(m) /\ DOMAIN m = {"id"} /\ m["id"] = v
  BY OneField
<1>2. HasFields(m, [id |-> Int32])
  BY <1>1 DEF HasFields
<1>3. DOMAIN m = DOMAIN [id |-> 0]
  BY <1>1
<1>4. View(m, [id |-> 0]) = m
  BY <1>1, <1>3, ViewWhole
<1> QED
  BY <1>2, <1>3, <1>4

LEMMA TargetSent ==
  ASSUME NEW v \in Int32, NEW m, m = [target |-> v]
  PROVE  /\ HasFields(m, [target |-> Int32]) /\ View(m, [target |-> 0]) = m
         /\ (DOMAIN m = DOMAIN [target |-> 0]) = TRUE
<1>1. IsMessage(m) /\ DOMAIN m = {"target"} /\ m["target"] = v
  BY OneField
<1>2. HasFields(m, [target |-> Int32])
  BY <1>1 DEF HasFields
<1>3. DOMAIN m = DOMAIN [target |-> 0]
  BY <1>1
<1>4. View(m, [target |-> 0]) = m
  BY <1>1, <1>3, ViewWhole
<1> QED
  BY <1>2, <1>3, <1>4

LEMMA TextSent ==
  ASSUME NEW v \in Nat, NEW m, m = [msg |-> v]
  PROVE  /\ HasFields(m, [msg |-> Nat]) /\ View(m, [msg |-> 0]) = m
         /\ (DOMAIN m = DOMAIN [msg |-> 0]) = TRUE
<1>1. IsMessage(m) /\ DOMAIN m = {"msg"} /\ m["msg"] = v
  BY OneField
<1>2. HasFields(m, [msg |-> Nat])
  BY <1>1 DEF HasFields
<1>3. DOMAIN m = DOMAIN [msg |-> 0]
  BY <1>1
<1>4. View(m, [msg |-> 0]) = m
  BY <1>1, <1>3, ViewWhole
<1> QED
  BY <1>2, <1>3, <1>4

LEMMA SuccessSent ==
  ASSUME NEW m, m = [bsucceded |-> TRUE]
  PROVE  /\ HasFields(m, [bsucceded |-> BOOLEAN]) /\ View(m, [bsucceded |-> FALSE]) = m
         /\ (DOMAIN m = DOMAIN [bsucceded |-> FALSE]) = TRUE
<1>1. IsMessage(m) /\ DOMAIN m = {"bsucceded"} /\ m["bsucceded"] = TRUE
  BY OneField
<1>2. HasFields(m, [bsucceded |-> BOOLEAN])
  <2>1. PICK types : types = [bsucceded |-> BOOLEAN]
    OBVIOUS
  <2>2. DOMAIN types = {"bsucceded"} /\ types["bsucceded"] = BOOLEAN
    BY <2>1
  <2>3. m["bsucceded"] \in BOOLEAN
    BY <1>1
  <2>4. HasFields(m, types)
    BY <1>1, <2>2, <2>3 DEF HasFields
  <2> QED
    BY <2>1, <2>4, Zenon
<1>3. DOMAIN m = DOMAIN [bsucceded |-> FALSE]
  BY <1>1
<1>4. View(m, [bsucceded |-> FALSE]) = m
  BY <1>1, <1>3, ViewWhole
<1> QED
  BY <1>2, <1>3, <1>4

LEMMA AttackSent ==
  ASSUME NEW a \in Int32, NEW b \in Int32, NEW m, m = [attacker |-> a, target |-> b]
  PROVE  /\ C_Attack(m) /\ C_AttackView(m) = m /\ C_AttackIsInitialized(m) = TRUE
<1>1. IsMessage(m) /\ DOMAIN m = {"attacker", "target"} /\ m["attacker"] = a /\ m["target"] = b
  BY DEF IsMessage
<1>2. C_Attack(m)
  BY <1>1 DEF C_Attack, HasFields
<1>3. DOMAIN m = DOMAIN C_AttackDefault
  BY <1>1 DEF C_AttackDefault
<1>4. C_AttackView(m) = m
  BY <1>1, <1>3, ViewWhole DEF C_AttackView
<1> QED
  BY <1>2, <1>3, <1>4 DEF C_AttackIsInitialized

\* How each class reads what it wrote.
LEMMA C_LoginRead ==
  ASSUME NEW v \in Int32, NEW m, m = [id |-> v]
  PROVE  /\ C_LoginParse(C_LoginSerialize(m)) = m
         /\ C_Login(m) /\ C_LoginView(m) = m /\ C_LoginIsInitialized(m) = TRUE
<1>1. IsMessage(m) /\ DOMAIN m = {"id"} /\ m["id"] = v
  BY OneField
<1>2. IntParse(WriteInt32(m, "id", 1), "id") = m
  BY <1>1, IntRoundtrip, Zenon
<1> QED
  BY <1>2, IdSent, Zenon
  DEF IntParse, C_LoginParse, C_LoginSerialize, C_Login, C_LoginView, C_LoginDefault,
      C_LoginIsInitialized

LEMMA C_SpawnRead ==
  ASSUME NEW v \in Int32, NEW m, m = [id |-> v]
  PROVE  /\ C_SpawnParse(C_SpawnSerialize(m)) = m
         /\ C_Spawn(m) /\ C_SpawnView(m) = m /\ C_SpawnIsInitialized(m) = TRUE
<1>1. IsMessage(m) /\ DOMAIN m = {"id"} /\ m["id"] = v
  BY OneField
<1>2. IntParse(WriteInt32(m, "id", 1), "id") = m
  BY <1>1, IntRoundtrip, Zenon
<1> QED
  BY <1>2, IdSent, Zenon
  DEF IntParse, C_SpawnParse, C_SpawnSerialize, C_Spawn, C_SpawnView, C_SpawnDefault,
      C_SpawnIsInitialized

LEMMA C_DespawnRead ==
  ASSUME NEW v \in Int32, NEW m, m = [id |-> v]
  PROVE  /\ C_DespawnParse(C_DespawnSerialize(m)) = m
         /\ C_Despawn(m) /\ C_DespawnView(m) = m /\ C_DespawnIsInitialized(m) = TRUE
<1>1. IsMessage(m) /\ DOMAIN m = {"id"} /\ m["id"] = v
  BY OneField
<1>2. IntParse(WriteInt32(m, "id", 1), "id") = m
  BY <1>1, IntRoundtrip, Zenon
<1> QED
  BY <1>2, IdSent, Zenon
  DEF IntParse, C_DespawnParse, C_DespawnSerialize, C_Despawn, C_DespawnView, C_DespawnDefault,
      C_DespawnIsInitialized

LEMMA S_DespawnRead ==
  ASSUME NEW v \in Int32, NEW m, m = [id |-> v]
  PROVE  /\ S_DespawnParse(S_DespawnSerialize(m)) = m
         /\ S_Despawn(m) /\ S_DespawnView(m) = m /\ S_DespawnIsInitialized(m) = TRUE
<1>1. IsMessage(m) /\ DOMAIN m = {"id"} /\ m["id"] = v
  BY OneField
<1>2. IntParse(WriteInt32(m, "id", 1), "id") = m
  BY <1>1, IntRoundtrip, Zenon
<1> QED
  BY <1>2, IdSent, Zenon
  DEF IntParse, S_DespawnParse, S_DespawnSerialize, S_Despawn, S_DespawnView, S_DespawnDefault,
      S_DespawnIsInitialized

LEMMA S_AttackRead ==
  ASSUME NEW v \in Int32, NEW m, m = [target |-> v]
  PROVE  /\ S_AttackParse(S_AttackSerialize(m)) = m
         /\ S_Attack(m) /\ S_AttackView(m) = m /\ S_AttackIsInitialized(m) = TRUE
<1>1. IsMessage(m) /\ DOMAIN m = {"target"} /\ m["target"] = v
  BY OneField
<1>2. IntParse(WriteInt32(m, "target", 1), "target") = m
  BY <1>1, IntRoundtrip, Zenon
<1> QED
  BY <1>2, TargetSent, Zenon
  DEF IntParse, S_AttackParse, S_AttackSerialize, S_Attack, S_AttackView, S_AttackDefault,
      S_AttackIsInitialized

LEMMA C_ChatRead ==
  ASSUME NEW v \in Nat, NEW m, m = [msg |-> v]
  PROVE  /\ C_ChatParse(C_ChatSerialize(m)) = m
         /\ C_Chat(m) /\ C_ChatView(m) = m /\ C_ChatIsInitialized(m) = TRUE
<1>1. IsMessage(m) /\ DOMAIN m = {"msg"} /\ m["msg"] = v
  BY OneField
<1>2. TextParse(WriteString(m, "msg", 1), "msg") = m
  BY <1>1, TextRoundtrip, Zenon
<1> QED
  BY <1>2, TextSent, Zenon
  DEF TextParse, C_ChatParse, C_ChatSerialize, C_Chat, C_ChatView, C_ChatDefault,
      C_ChatIsInitialized

LEMMA S_ChatRead ==
  ASSUME NEW v \in Nat, NEW m, m = [msg |-> v]
  PROVE  /\ S_ChatParse(S_ChatSerialize(m)) = m
         /\ S_Chat(m) /\ S_ChatView(m) = m /\ S_ChatIsInitialized(m) = TRUE
<1>1. IsMessage(m) /\ DOMAIN m = {"msg"} /\ m["msg"] = v
  BY OneField
<1>2. TextParse(WriteString(m, "msg", 1), "msg") = m
  BY <1>1, TextRoundtrip, Zenon
<1> QED
  BY <1>2, TextSent, Zenon
  DEF TextParse, S_ChatParse, S_ChatSerialize, S_Chat, S_ChatView, S_ChatDefault,
      S_ChatIsInitialized

LEMMA S_LoginRead ==
  ASSUME NEW m, m = [bsucceded |-> TRUE]
  PROVE  /\ S_LoginParse(S_LoginSerialize(m)) = m
         /\ S_Login(m) /\ S_LoginView(m) = m /\ S_LoginIsInitialized(m) = TRUE
<1>1. IsMessage(m) /\ DOMAIN m = {"bsucceded"} /\ m["bsucceded"] = TRUE
  BY OneField
<1>2. TruthParse(WriteBool(m, "bsucceded", 1), "bsucceded") = m
  BY <1>1, TruthRoundtrip, Zenon
<1> QED
  BY <1>2, SuccessSent, Zenon
  DEF TruthParse, S_LoginParse, S_LoginSerialize, S_Login, S_LoginView, S_LoginDefault,
      S_LoginIsInitialized


LEMMA C_MoveRead ==
  ASSUME NEW p, Player(p), NEW m, m = [player |-> p]
  PROVE  C_MoveParse(C_MoveSerialize(m)) = m /\ C_Move(C_MoveView(m))
<1>1. C_MoveParse(C_MoveSerialize(m)) = m
  BY C_MoveRoundtrip, Zenon
<1>2. DOMAIN m = {"player"} /\ m["player"] = p
  OBVIOUS
<1>3. PICK d : d = C_MoveDefault
  OBVIOUS
<1>4. DOMAIN d = {"player"}
  BY <1>3 DEF C_MoveDefault
<1>5. PICK v : v = View(m, d)
  OBVIOUS
<1>6. /\ IsMessage(v) /\ DOMAIN v = DOMAIN d
      /\ \A f \in DOMAIN d : v[f] = IF f \in DOMAIN m THEN m[f] ELSE d[f]
  <2>1. DOMAIN m \subseteq DOMAIN d
    BY <1>2, <1>4
  <2> QED
    BY ONLY <1>5, <2>1, ViewAt
<1>7. v["player"] = p
  BY <1>2, <1>4, <1>6
<1>8. PICK w : w = [v EXCEPT !["player"] = PlayerView(v["player"])]
  OBVIOUS
<1>9. IsMessage(w) /\ DOMAIN w = {"player"} /\ w["player"] = PlayerView(p)
  BY <1>4, <1>6, <1>7, <1>8 DEF IsMessage
<1>10. Player(w["player"])
  BY <1>9, PlayerViewed, Zenon
<1>11. C_Move(w)
  BY <1>3, <1>4, <1>9, <1>10 DEF C_Move
<1>12. C_MoveView(m) = w
  BY <1>3, <1>5, <1>8 DEF C_MoveView
<1> QED
  BY <1>1, <1>11, <1>12, Zenon

LEMMA PlayersRead ==
  ASSUME NEW n \in Nat, NEW ps, PlayerList(ps, n), NEW m, m = [player |-> PlayerCopies(ps)]
  PROVE  /\ S_SpawnParse(S_SpawnSerialize(m)) = m /\ S_Spawn(S_SpawnView(m))
         /\ S_MoveParse(S_MoveSerialize(m)) = m /\ S_Move(S_MoveView(m))
<1>1. PICK c : c = PlayerCopies(ps)
  OBVIOUS
<1>2. PlayerList(c, n)
  BY <1>1, PlayersCopied
<1>3. IsMessage(c)
  BY <1>1 DEF PlayerCopies, Each, IsMessage
<1>4. PlayersParse(PlayersField(c)) = c
  BY <1>2, <1>3, PlayersRoundtrip
<1>5. DOMAIN m = {"player"} /\ m.player = c
  BY <1>1
<1>6. [player |-> PlayersParse(PlayersField(m.player))] = m
  BY <1>1, <1>4, <1>5, Zenon
<1>7. PICK v : v = [k \in DOMAIN c |-> PlayerView(c[k])]
  BY Zenon
<1>8. \A k \in DOMAIN v : Player(v[k])
  BY <1>2, <1>7, PlayerViewed DEF PlayerList
<1>9. S_SpawnView(m) = [player |-> v] /\ S_MoveView(m) = [player |-> v]
  BY <1>5, <1>7, Zenon DEF S_SpawnView, S_MoveView, Each
<1>10. PICK w : w = [player |-> v]
  OBVIOUS
<1>11. DOMAIN w = {"player"} /\ w.player = v
  BY <1>10
<1>12. S_Spawn(w) /\ S_Move(w)
  BY <1>8, <1>11, Zenon DEF S_Spawn, S_Move
<1> QED
  BY <1>6, <1>9, <1>10, <1>12, Zenon
  DEF S_SpawnParse, S_SpawnSerialize, S_MoveParse, S_MoveSerialize, PlayersParse, PlayersField

LEMMA EnemiesRead ==
  ASSUME NEW n \in Nat, NEW es, EnemyList(es, n), NEW m, m = [enemy |-> EnemyCopies(es)]
  PROVE  /\ S_EnemySpawnParse(S_EnemySpawnSerialize(m)) = m /\ S_EnemySpawn(S_EnemySpawnView(m))
         /\ S_EnemyMoveParse(S_EnemyMoveSerialize(m)) = m /\ S_EnemyMove(S_EnemyMoveView(m))
<1>1. PICK c : c = EnemyCopies(es)
  OBVIOUS
<1>2. EnemyList(c, n)
  BY <1>1, EnemiesCopied
<1>3. IsMessage(c)
  BY <1>1 DEF EnemyCopies, Each, IsMessage
<1>4. EnemiesParse(EnemiesField(c)) = c
  BY <1>2, <1>3, EnemiesRoundtrip
<1>5. DOMAIN m = {"enemy"} /\ m.enemy = c
  BY <1>1
<1>6. [enemy |-> EnemiesParse(EnemiesField(m.enemy))] = m
  BY <1>1, <1>4, <1>5, Zenon
<1>7. PICK v : v = [k \in DOMAIN c |-> EnemyView(c[k])]
  BY Zenon
<1>8. \A k \in DOMAIN v : Enemy(v[k])
  BY <1>2, <1>7, EnemyViewed DEF EnemyList
<1>9. S_EnemySpawnView(m) = [enemy |-> v] /\ S_EnemyMoveView(m) = [enemy |-> v]
  BY <1>5, <1>7, Zenon DEF S_EnemySpawnView, S_EnemyMoveView, Each
<1>10. PICK w : w = [enemy |-> v]
  OBVIOUS
<1>11. DOMAIN w = {"enemy"} /\ w.enemy = v
  BY <1>10
<1>12. S_EnemySpawn(w) /\ S_EnemyMove(w)
  BY <1>8, <1>11, Zenon DEF S_EnemySpawn, S_EnemyMove
<1> QED
  BY <1>6, <1>9, <1>10, <1>12, Zenon
  DEF S_EnemySpawnParse, S_EnemySpawnSerialize, S_EnemyMoveParse, S_EnemyMoveSerialize,
      EnemiesParse, EnemiesField

\* An attack is read as an enemy movement of nobody.
LEMMA AttackReadOn ==
  ASSUME NEW v, NEW m, m = [target |-> v]
  PROVE  ParseS_EnemyMove(S_AttackSerialize(m)) = Read([enemy |-> <<>>], TRUE)
<1>1. PICK t : t = Token(1, "varint", v, VarintSize(v))
  OBVIOUS
<1>2. PICK s : s = <<t>>
  OBVIOUS
<1>3. S_AttackSerialize(m) = s
  <2>1. "target" \in DOMAIN m /\ m["target"] = v
    OBVIOUS
  <2> QED
    BY <1>1, <1>2, <2>1, Zenon DEF S_AttackSerialize, WriteInt32
<1>4. Len(s) = 1 /\ s[1].type = "varint"
  BY <1>1, <1>2 DEF Token
<1>5. Entries(s, 1) = <<>>
  BY <1>4, EntriesNone DEF Is
<1>6. PICK e : e = [k \in 1 .. 0 |-> EnemyParse(Entries(s, 1)[k].value)]
  BY Zenon
<1>7. EnemiesParse(s) = e
  <2>1. Len(Entries(s, 1)) = 0
    BY <1>5
  <2> QED
    BY <1>6, <2>1, Zenon DEF EnemiesParse, ParseRepeated
<1>8. e = <<>>
  BY <1>6
<1>9. S_EnemyMoveParse(s) = [enemy |-> <<>>]
  BY <1>7, <1>8, Zenon DEF S_EnemyMoveParse, EnemiesParse
<1>10. PICK w : w = [enemy |-> <<>>]
  OBVIOUS
<1>11. w.enemy = <<>> /\ DOMAIN w.enemy = {}
  BY <1>10
<1>12. S_EnemyMoveIsInitialized(w) = TRUE
  BY <1>11 DEF S_EnemyMoveIsInitialized
<1>13. S_EnemyMoveView(w) = w
  <2>1. PICK u : u = [k \in DOMAIN w.enemy |-> EnemyView(w.enemy[k])]
    BY Zenon
  <2>2. u = <<>>
    BY <1>11, <2>1
  <2> QED
    BY <1>10, <2>1, <2>2, Zenon DEF S_EnemyMoveView, Each
<1> QED
  BY <1>3, <1>9, <1>10, <1>12, <1>13, Zenon DEF ParseS_EnemyMove

-----------------------------------------------------------------------------
(* What an answer owes its buffer and its reader, a request its reader *)

\* The answer is as long as its header says and as what was written, and a pool
\* or the heap has a buffer for it.
AnswerFits(a) ==
  /\ a.packet.size = a.size /\ sizeofPacketHeader + Bytes(a.packet.payload) = a.size
  /\ Allocable(a.size)

\* The client reads what the getters of the message gave; an S_Attack has no
\* enemies for the handler it runs on into.
AnswerWhole(a) ==
  LET read == ClientProcessPacket(a.packet)
  IN /\ read[1] = Read(a.msg, a.ok)
     /\ ServerMessage(a.packet.id, read[1].msg)
     /\ Len(read) > 1 => read[2] = Read([enemy |-> <<>>], TRUE)

\* The server reads what the getters of the client's message gave.
RequestWhole(r) ==
  /\ r.parsed = Read(r.sent.msg, r.sent.ok)
  /\ ClientMessage(r.sent.packet.id, r.parsed.msg)

\* The lengths of payloads there are, of 39 players at most, and sizes that the
\* pools serve.
Payloads == 0 .. 3744
Served == 1 .. 3808

Good(a) == AnswerFits(a) /\ AnswerWhole(a)

\* Up to the last pool every size can be had.
LEMMA AllocableUpTo ==
  ASSUME NEW size \in Served
  PROVE  Allocable(size)
<1>1. 3840 \in PoolSizes
  <2>1. 3840 = 2048 + 256 * 7 /\ 7 \in 0 .. 7
    OBVIOUS
  <2> QED
    BY <2>1 DEF PoolSizes
<1>2. PICK all \in Nat : all = size + HeaderSize /\ all <= 3840
  BY DEF HeaderSize, Served
<1>3. \E p \in PoolSizes : all <= p /\ \A q \in PoolSizes : all <= q => p <= q
  BY <1>1, <1>2, SmallestPool
<1>4. m_memoryPoolTable(all) =
        CHOOSE p \in PoolSizes : all <= p /\ \A q \in PoolSizes : all <= q => p <= q
  BY <1>1, <1>2 DEF m_memoryPoolTable
<1>5. m_memoryPoolTable(all) \in PoolSizes
  BY <1>3, <1>4
<1>6. m_memoryPoolTable(all) # 0
  BY <1>5, PoolSizesNat
<1> QED
  BY <1>2, <1>6 DEF Allocable, Served

\* An answer fits when ByteSizeLong is the length of what is serialised.
LEMMA FitsWhenWritten ==
  ASSUME NEW id, NEW size \in Payloads, NEW payload, Written(payload, size),
         NEW view, NEW ok, NEW a,
         a = Answer(view, ok, Packet(id, size, payload), sizeofPacketHeader + size)
  PROVE  AnswerFits(a)
<1>1. Bytes(payload) = size
  BY Zenon DEF Written
<1>2. PICK p : p = Packet(id, size, payload)
  OBVIOUS
<1>3. p.size = sizeofPacketHeader + size /\ p.payload = payload
  BY <1>2 DEF Packet
<1>4. a.packet = p /\ a.size = sizeofPacketHeader + size
  BY <1>2 DEF Answer
<1>5. sizeofPacketHeader + size \in Served
  BY DEF sizeofPacketHeader, Payloads, Served
<1>6. Allocable(a.size)
  <2>1. Allocable(sizeofPacketHeader + size)
    BY ONLY <1>5, AllocableUpTo
  <2> QED
    BY <1>4, <2>1, Zenon
<1> QED
  BY <1>1, <1>3, <1>4, <1>6 DEF AnswerFits

\* What the client's dispatcher makes of a packet.
LEMMA ClientReads ==
  ASSUME NEW p
  PROVE  /\ p.id = 0 => ClientProcessPacket(p) = <<ParseS_Login(p.payload)>>
         /\ p.id = 1 => ClientProcessPacket(p) = <<ParseS_Spawn(p.payload)>>
         /\ p.id = 2 => ClientProcessPacket(p) = <<ParseS_Despawn(p.payload)>>
         /\ p.id = 3 => ClientProcessPacket(p) = <<ParseS_Move(p.payload)>>
         /\ p.id = 4 => ClientProcessPacket(p) = <<ParseS_Chat(p.payload)>>
         /\ p.id = 5 => ClientProcessPacket(p) = <<ParseS_EnemySpawn(p.payload)>>
         /\ p.id = 7 => ClientProcessPacket(p) =
                          <<ParseS_Attack(p.payload), ParseS_EnemyMove(p.payload)>>
         /\ p.id = 8 => ClientProcessPacket(p) = <<ParseS_EnemyMove(p.payload)>>
BY DEF ClientProcessPacket

\* The class of the message a packet of the server carries goes by its id.
LEMMA ServerMessages ==
  ASSUME NEW m
  PROVE  /\ S_Login(m) => ServerMessage(0, m)
         /\ S_Spawn(m) => ServerMessage(1, m)
         /\ S_Despawn(m) => ServerMessage(2, m)
         /\ S_Move(m) => ServerMessage(3, m)
         /\ S_Chat(m) => ServerMessage(4, m)
         /\ S_EnemySpawn(m) => ServerMessage(5, m)
         /\ S_Attack(m) => ServerMessage(7, m)
         /\ S_EnemyMove(m) => ServerMessage(8, m)
BY DEF ServerMessage

\* The same for the packets of clients.
LEMMA ClientMessages ==
  ASSUME NEW m
  PROVE  /\ C_Login(m) => ClientMessage(0, m)
         /\ C_Spawn(m) => ClientMessage(1, m)
         /\ C_Despawn(m) => ClientMessage(2, m)
         /\ C_Move(m) => ClientMessage(3, m)
         /\ C_Chat(m) => ClientMessage(4, m)
         /\ C_Attack(m) => ClientMessage(7, m)
BY DEF ClientMessage

\* An answer is good when its payload has the length it was sized with and the
\* client reads from it what the getters of the message gave.
LEMMA GoodAnswer ==
  ASSUME NEW view, NEW ok, NEW id, NEW size \in Payloads, NEW payload, Written(payload, size),
         NEW p, p = Packet(id, size, payload),
         ClientProcessPacket(p) = <<Read(view, ok)>>, ServerMessage(id, view)
  PROVE  Good(Answer(view, ok, p, p.size))
<1>1. PICK a : a = Answer(view, ok, p, p.size)
  OBVIOUS
<1>2. a.msg = view /\ a.ok = ok /\ a.packet = p
  BY <1>1 DEF Answer
<1>3. p.size = sizeofPacketHeader + size /\ p.id = id
  BY DEF Packet
<1>4. AnswerFits(a)
  <2>1. a = Answer(view, ok, Packet(id, size, payload), sizeofPacketHeader + size)
    BY <1>1, <1>3, Zenon
  <2> QED
    BY <2>1, FitsWhenWritten
<1>5. PICK read : read = ClientProcessPacket(p)
  OBVIOUS
<1>6. Read(view, ok).msg = view
  BY DEF Read
<1>7. read[1] = Read(view, ok) /\ ~(Len(read) > 1)
  BY <1>5
<1>8. AnswerWhole(a)
  BY <1>2, <1>3, <1>5, <1>6, <1>7, Zenon DEF AnswerWhole
<1> QED
  BY <1>1, <1>4, <1>8, Zenon DEF Good

\* A request is whole when the server reads what the getters of the message gave.
LEMMA WholeRequest ==
  ASSUME NEW view, NEW ok, NEW id, NEW size, NEW payload, NEW p, p = Packet(id, size, payload),
         NEW read, read = Read(view, ok), ClientMessage(id, view)
  PROVE  /\ RequestWhole([sent |-> Sent(view, ok, p), parsed |-> read])
         /\ Sent(view, ok, p).packet.payload = payload /\ read.msg = view
<1>1. PICK s : s = Sent(view, ok, p)
  OBVIOUS
<1>2. s.msg = view /\ s.ok = ok /\ s.packet = p
  BY <1>1 DEF Sent
<1>3. p.id = id /\ p.payload = payload
  BY DEF Packet
<1>4. read.msg = view
  BY DEF Read
<1>5. PICK r : r = [sent |-> s, parsed |-> read]
  OBVIOUS
<1>6. r.sent = s /\ r.parsed = read
  BY <1>5
<1>7. RequestWhole(r)
  BY <1>2, <1>3, <1>4, <1>6, Zenon DEF RequestWhole
<1> QED
  BY <1>1, <1>2, <1>3, <1>4, <1>5, <1>7, Zenon

-----------------------------------------------------------------------------
(* The answers *)

LEMMA IdWritten ==
  ASSUME NEW v \in Int32, NEW m, m = [id |-> v]
  PROVE  /\ Written(WriteInt32(m, "id", 1), Int32SizePlusOne(m, "id"))
         /\ Int32SizePlusOne(m, "id") \in Payloads
<1>1. "id" \in DOMAIN m => m["id"] \in Int
  BY Int32Int
<1> QED
  BY <1>1, Int32Written, Int32Size DEF Payloads

LEMMA TargetWritten ==
  ASSUME NEW v \in Int32, NEW m, m = [target |-> v]
  PROVE  /\ Written(WriteInt32(m, "target", 1), Int32SizePlusOne(m, "target"))
         /\ Int32SizePlusOne(m, "target") \in Payloads
<1>1. "target" \in DOMAIN m => m["target"] \in Int
  BY Int32Int
<1> QED
  BY <1>1, Int32Written, Int32Size DEF Payloads

LEMMA TextWritten ==
  ASSUME NEW v \in 0 .. MaxText, NEW m, m = [msg |-> v]
  PROVE  /\ Written(WriteString(m, "msg", 1), StringSize(m, "msg"))
         /\ StringSize(m, "msg") \in Payloads
<1>1. v \in Nat /\ v <= 245
  BY DEF MaxText
<1>2. "msg" \in DOMAIN m /\ m["msg"] = v
  OBVIOUS
<1>3. Written(WriteString(m, "msg", 1), StringSize(m, "msg"))
  BY <1>1, <1>2, StringWritten
<1>4. VarintSize(v) \in 1 .. 5
  BY <1>1, VarintSizes
<1>5. StringSize(m, "msg") = 1 + (VarintSize(v) + v)
  BY <1>2, Zenon DEF StringSize, LengthDelimitedSize
<1> QED
  BY <1>1, <1>3, <1>4, <1>5 DEF Payloads

LEMMA SuccessWritten ==
  ASSUME NEW m
  PROVE  /\ Written(WriteBool(m, "bsucceded", 1), FixedSize(m, "bsucceded", 2))
         /\ FixedSize(m, "bsucceded", 2) \in Payloads
<1>1. FixedSize(m, "bsucceded", 2) \in 0 .. 2
  BY BoolSize
<1> QED
  BY <1>1, BoolWritten DEF Payloads

\* Each answer of PacketHandler.cpp, sized and serialised there and read in
\* CPacketHandler.cpp.
LEMMA S_LoginGood ==
  ASSUME NEW m, m = [bsucceded |-> TRUE]
  PROVE  Good(Answer(S_LoginView(m), S_LoginIsInitialized(m), SerializeS_Login(m), SerializeS_Login(m).size))
<1>1. PICK size \in Payloads : size = S_LoginByteSizeLong(m)
  BY SuccessWritten DEF S_LoginByteSizeLong
<1>2. PICK b : b = S_LoginSerialize(m)
  OBVIOUS
<1>3. Written(b, size)
  BY <1>1, <1>2, SuccessWritten, Zenon DEF S_LoginSerialize, S_LoginByteSizeLong
<1>4. PICK view, ok : view = S_LoginView(m) /\ ok = S_LoginIsInitialized(m)
  BY Zenon
<1>5. ParseS_Login(b) = Read(view, ok) /\ S_Login(view)
  BY <1>2, <1>4, S_LoginRead, Zenon DEF ParseS_Login
<1>6. PICK p : p = Packet(0, size, b)
  OBVIOUS
<1>7. p.id = 0 /\ p.payload = b
  BY <1>6 DEF Packet
<1>8. ClientProcessPacket(p) = <<Read(view, ok)>>
  <2>1. ClientProcessPacket(p) = <<ParseS_Login(p.payload)>>
    BY ONLY <1>7, ClientReads
  <2> QED
    BY <1>5, <1>7, <2>1, Zenon
<1>9. ServerMessage(0, view)
  BY <1>5, ServerMessages, Zenon
<1>10. Good(Answer(view, ok, p, p.size))
  BY <1>3, <1>6, <1>8, <1>9, GoodAnswer
<1> QED
  BY <1>1, <1>2, <1>4, <1>6, <1>10, Zenon DEF SerializeS_Login

LEMMA S_DespawnGood ==
  ASSUME NEW v \in Int32, NEW m, m = [id |-> v]
  PROVE  Good(Answer(S_DespawnView(m), S_DespawnIsInitialized(m), SerializeS_Despawn(m), SerializeS_Despawn(m).size))
<1>1. PICK size \in Payloads : size = S_DespawnByteSizeLong(m)
  BY IdWritten DEF S_DespawnByteSizeLong
<1>2. PICK b : b = S_DespawnSerialize(m)
  OBVIOUS
<1>3. Written(b, size)
  BY <1>1, <1>2, IdWritten, Zenon DEF S_DespawnSerialize, S_DespawnByteSizeLong
<1>4. PICK view, ok : view = S_DespawnView(m) /\ ok = S_DespawnIsInitialized(m)
  BY Zenon
<1>5. ParseS_Despawn(b) = Read(view, ok) /\ S_Despawn(view)
  BY <1>2, <1>4, S_DespawnRead, Zenon DEF ParseS_Despawn
<1>6. PICK p : p = Packet(2, size, b)
  OBVIOUS
<1>7. p.id = 2 /\ p.payload = b
  BY <1>6 DEF Packet
<1>8. ClientProcessPacket(p) = <<Read(view, ok)>>
  <2>1. ClientProcessPacket(p) = <<ParseS_Despawn(p.payload)>>
    BY ONLY <1>7, ClientReads
  <2> QED
    BY <1>5, <1>7, <2>1, Zenon
<1>9. ServerMessage(2, view)
  BY <1>5, ServerMessages, Zenon
<1>10. Good(Answer(view, ok, p, p.size))
  BY <1>3, <1>6, <1>8, <1>9, GoodAnswer
<1> QED
  BY <1>1, <1>2, <1>4, <1>6, <1>10, Zenon DEF SerializeS_Despawn

LEMMA S_AttackGood ==
  ASSUME NEW v \in Int32, NEW m, m = [target |-> v]
  PROVE  Good(Answer(S_AttackView(m), S_AttackIsInitialized(m), SerializeS_Attack(m), SerializeS_Attack(m).size))
<1>1. PICK size \in Payloads : size = S_AttackByteSizeLong(m)
  BY TargetWritten DEF S_AttackByteSizeLong
<1>2. PICK b : b = S_AttackSerialize(m)
  OBVIOUS
<1>3. Written(b, size)
  BY <1>1, <1>2, TargetWritten, Zenon DEF S_AttackSerialize, S_AttackByteSizeLong
<1>4. PICK view, ok : view = S_AttackView(m) /\ ok = S_AttackIsInitialized(m)
  BY Zenon
<1>5. ParseS_Attack(b) = Read(view, ok) /\ S_Attack(view)
  BY <1>2, <1>4, S_AttackRead, Zenon DEF ParseS_Attack
<1>6. PICK p : p = Packet(7, size, b)
  OBVIOUS
<1>7. p.id = 7 /\ p.payload = b /\ p.size = sizeofPacketHeader + size
  BY <1>6 DEF Packet
<1>8. PICK a : a = Answer(view, ok, p, p.size)
  OBVIOUS
<1>9. a.msg = view /\ a.ok = ok /\ a.packet = p
  BY <1>8 DEF Answer
<1>10. AnswerFits(a)
  <2>1. a = Answer(view, ok, Packet(7, size, b), sizeofPacketHeader + size)
    BY <1>6, <1>7, <1>8, Zenon
  <2> QED
    BY <1>3, <2>1, FitsWhenWritten
<1>11. ClientProcessPacket(p) = <<Read(view, ok), Read([enemy |-> <<>>], TRUE)>>
  <2>1. ClientProcessPacket(p) = <<ParseS_Attack(p.payload), ParseS_EnemyMove(p.payload)>>
    BY ONLY <1>7, ClientReads
  <2>2. ParseS_EnemyMove(b) = Read([enemy |-> <<>>], TRUE)
    BY <1>2, AttackReadOn, Zenon
  <2> QED
    BY <1>5, <1>7, <2>1, <2>2, Zenon
<1>12. PICK read, none : read = ClientProcessPacket(p) /\ none = Read([enemy |-> <<>>], TRUE)
  BY Zenon
<1>13. read[1] = Read(view, ok) /\ read[2] = none
  BY <1>11, <1>12
<1>14. Read(view, ok).msg = view
  BY DEF Read
<1>15. ServerMessage(7, view)
  BY <1>5, ServerMessages, Zenon
<1>16. AnswerWhole(a)
  BY <1>7, <1>9, <1>12, <1>13, <1>14, <1>15, Zenon DEF AnswerWhole
<1>17. Good(a)
  BY <1>10, <1>16, Zenon DEF Good
<1> QED
  BY <1>1, <1>2, <1>4, <1>6, <1>8, <1>17, Zenon DEF SerializeS_Attack

LEMMA S_ChatGood ==
  ASSUME NEW v \in 0 .. MaxText, NEW m, m = [msg |-> v]
  PROVE  Good(Answer(S_ChatView(m), S_ChatIsInitialized(m), SerializeS_Chat(m), SendC_Chat(v).size))
<1>1. PICK size \in Payloads : size = S_ChatByteSizeLong(m)
  BY TextWritten DEF S_ChatByteSizeLong
<1>2. PICK b : b = S_ChatSerialize(m)
  OBVIOUS
<1>3. Written(b, size)
  BY <1>1, <1>2, TextWritten, Zenon DEF S_ChatSerialize, S_ChatByteSizeLong
<1>4. PICK view, ok : view = S_ChatView(m) /\ ok = S_ChatIsInitialized(m)
  BY Zenon
<1>5. ParseS_Chat(b) = Read(view, ok) /\ S_Chat(view)
  <2>1. v \in Nat
    BY DEF MaxText
  <2> QED
    BY <1>2, <1>4, <2>1, S_ChatRead, Zenon DEF ParseS_Chat
<1>6. PICK p : p = Packet(4, size, b)
  OBVIOUS
<1>7. p.id = 4 /\ p.payload = b
  BY <1>6 DEF Packet
<1>8. ClientProcessPacket(p) = <<Read(view, ok)>>
  <2>1. ClientProcessPacket(p) = <<ParseS_Chat(p.payload)>>
    BY ONLY <1>7, ClientReads
  <2> QED
    BY <1>5, <1>7, <2>1, Zenon
<1>9. ServerMessage(4, view)
  BY <1>5, ServerMessages, Zenon
<1>10. Good(Answer(view, ok, p, p.size))
  BY <1>3, <1>6, <1>8, <1>9, GoodAnswer
<1>11. SendC_Chat(v).size = p.size
  <2>1. PICK q : q = SerializeC_Chat(m)
    OBVIOUS
  <2>2. q.size = p.size
    BY <1>1, <1>6, <2>1
    DEF SerializeC_Chat, Packet, C_ChatByteSizeLong, S_ChatByteSizeLong
  <2>3. PICK x, y : x = C_ChatView(m) /\ y = C_ChatIsInitialized(m)
    BY Zenon
  <2>4. SendC_Chat(v) = Sent(x, y, q)
    BY <2>1, <2>3, Zenon DEF SendC_Chat
  <2> QED
    BY <2>2, <2>4 DEF Sent
<1> QED
  BY <1>1, <1>2, <1>4, <1>6, <1>10, <1>11, Zenon DEF SerializeS_Chat

LEMMA PlayersFit ==
  ASSUME NEW n \in 0 .. MaxPlayers, NEW ps, PlayerList(ps, n), NEW c, c = PlayerCopies(ps)
  PROVE  Written(PlayersField(c), PlayersSize(c)) /\ PlayersSize(c) \in Payloads
<1>1. n \in Nat /\ n <= 39
  BY DEF MaxPlayers
<1>2. PlayerList(c, n)
  BY <1>1, PlayersCopied
<1>3. Written(PlayersField(c), PlayersSize(c)) /\ PlayersSize(c) \in 0 .. 96 * n
  BY <1>1, <1>2, PlayersWritten DEF PlayerList
<1>4. \A z \in 0 .. 96 * n : z \in Payloads
  BY ONLY <1>1 DEF Payloads
<1> QED
  BY <1>3, <1>4, Zenon

LEMMA EnemiesFit ==
  ASSUME NEW n \in 0 .. MaxEnemies, NEW es, EnemyList(es, n), NEW c, c = EnemyCopies(es)
  PROVE  Written(EnemiesField(c), EnemiesSize(c)) /\ EnemiesSize(c) \in Payloads
<1>1. n \in Nat /\ n <= 5
  BY DEF MaxEnemies
<1>2. EnemyList(c, n)
  BY <1>1, EnemiesCopied
<1>3. Written(EnemiesField(c), EnemiesSize(c)) /\ EnemiesSize(c) \in 0 .. 96 * n
  BY <1>1, <1>2, EnemiesWritten DEF EnemyList
<1> QED
  BY <1>1, <1>3 DEF Payloads

LEMMA S_SpawnGood ==
  ASSUME NEW n \in 0 .. MaxPlayers, NEW list, PlayerList(list, n), NEW m, m = [player |-> PlayerCopies(list)]
  PROVE  Good(Answer(S_SpawnView(m), S_SpawnIsInitialized(m), SerializeS_Spawn(m), SerializeS_Spawn(m).size))
<1>1. PICK c : c = PlayerCopies(list)
  OBVIOUS
<1>2. m.player = c
  BY <1>1
<1>3. PICK size \in Payloads : size = S_SpawnByteSizeLong(m)
  <2>1. PlayersSize(c) \in Payloads
    BY <1>1, PlayersFit
  <2> QED
    BY <1>2, <2>1, Zenon DEF S_SpawnByteSizeLong, PlayersSize
<1>4. PICK b : b = S_SpawnSerialize(m)
  OBVIOUS
<1>5. Written(b, size)
  <2>1. Written(PlayersField(c), PlayersSize(c))
    BY <1>1, PlayersFit
  <2> QED
    BY <1>2, <1>3, <1>4, <2>1, Zenon
    DEF S_SpawnSerialize, S_SpawnByteSizeLong, PlayersField, PlayersSize
<1>6. PICK view, ok : view = S_SpawnView(m) /\ ok = S_SpawnIsInitialized(m)
  BY Zenon
<1>7. S_SpawnParse(b) = m /\ S_Spawn(view)
  <2>1. n \in Nat
    BY DEF MaxPlayers
  <2>2. S_SpawnParse(S_SpawnSerialize(m)) = m /\ S_Spawn(S_SpawnView(m))
    BY <2>1, PlayersRead
  <2> QED
    BY <1>4, <1>6, <2>2, Zenon
<1>8. ParseS_Spawn(b) = Read(view, ok)
  BY <1>6, <1>7, Zenon DEF ParseS_Spawn
<1>9. PICK p : p = Packet(1, size, b)
  OBVIOUS
<1>10. p.id = 1 /\ p.payload = b
  BY <1>9 DEF Packet
<1>11. ClientProcessPacket(p) = <<Read(view, ok)>>
  <2>1. ClientProcessPacket(p) = <<ParseS_Spawn(p.payload)>>
    BY ONLY <1>10, ClientReads
  <2> QED
    BY <1>8, <1>10, <2>1, Zenon
<1>12. ServerMessage(1, view)
  BY <1>7, ServerMessages, Zenon
<1>13. Good(Answer(view, ok, p, p.size))
  BY <1>5, <1>9, <1>11, <1>12, GoodAnswer
<1> QED
  BY <1>3, <1>4, <1>6, <1>9, <1>13, Zenon DEF SerializeS_Spawn

LEMMA S_MoveGood ==
  ASSUME NEW n \in 0 .. MaxPlayers, NEW list, PlayerList(list, n), NEW m, m = [player |-> PlayerCopies(list)]
  PROVE  Good(Answer(S_MoveView(m), S_MoveIsInitialized(m), SerializeS_Move(m), SerializeS_Move(m).size))
<1>1. PICK c : c = PlayerCopies(list)
  OBVIOUS
<1>2. m.player = c
  BY <1>1
<1>3. PICK size \in Payloads : size = S_MoveByteSizeLong(m)
  <2>1. PlayersSize(c) \in Payloads
    BY <1>1, PlayersFit
  <2> QED
    BY <1>2, <2>1, Zenon DEF S_MoveByteSizeLong, PlayersSize
<1>4. PICK b : b = S_MoveSerialize(m)
  OBVIOUS
<1>5. Written(b, size)
  <2>1. Written(PlayersField(c), PlayersSize(c))
    BY <1>1, PlayersFit
  <2> QED
    BY <1>2, <1>3, <1>4, <2>1, Zenon
    DEF S_MoveSerialize, S_MoveByteSizeLong, PlayersField, PlayersSize
<1>6. PICK view, ok : view = S_MoveView(m) /\ ok = S_MoveIsInitialized(m)
  BY Zenon
<1>7. S_MoveParse(b) = m /\ S_Move(view)
  <2>1. n \in Nat
    BY DEF MaxPlayers
  <2>2. S_MoveParse(S_MoveSerialize(m)) = m /\ S_Move(S_MoveView(m))
    BY <2>1, PlayersRead
  <2> QED
    BY <1>4, <1>6, <2>2, Zenon
<1>8. ParseS_Move(b) = Read(view, ok)
  BY <1>6, <1>7, Zenon DEF ParseS_Move
<1>9. PICK p : p = Packet(3, size, b)
  OBVIOUS
<1>10. p.id = 3 /\ p.payload = b
  BY <1>9 DEF Packet
<1>11. ClientProcessPacket(p) = <<Read(view, ok)>>
  <2>1. ClientProcessPacket(p) = <<ParseS_Move(p.payload)>>
    BY ONLY <1>10, ClientReads
  <2> QED
    BY <1>8, <1>10, <2>1, Zenon
<1>12. ServerMessage(3, view)
  BY <1>7, ServerMessages, Zenon
<1>13. Good(Answer(view, ok, p, p.size))
  BY <1>5, <1>9, <1>11, <1>12, GoodAnswer
<1> QED
  BY <1>3, <1>4, <1>6, <1>9, <1>13, Zenon DEF SerializeS_Move

LEMMA S_EnemySpawnGood ==
  ASSUME NEW n \in 0 .. MaxEnemies, NEW list, EnemyList(list, n), NEW m, m = [enemy |-> EnemyCopies(list)]
  PROVE  Good(Answer(S_EnemySpawnView(m), S_EnemySpawnIsInitialized(m), SerializeS_EnemySpawn(m), SerializeS_EnemySpawn(m).size))
<1>1. PICK c : c = EnemyCopies(list)
  OBVIOUS
<1>2. m.enemy = c
  BY <1>1
<1>3. PICK size \in Payloads : size = S_EnemySpawnByteSizeLong(m)
  <2>1. EnemiesSize(c) \in Payloads
    BY <1>1, EnemiesFit
  <2> QED
    BY <1>2, <2>1, Zenon DEF S_EnemySpawnByteSizeLong, EnemiesSize
<1>4. PICK b : b = S_EnemySpawnSerialize(m)
  OBVIOUS
<1>5. Written(b, size)
  <2>1. Written(EnemiesField(c), EnemiesSize(c))
    BY <1>1, EnemiesFit
  <2> QED
    BY <1>2, <1>3, <1>4, <2>1, Zenon
    DEF S_EnemySpawnSerialize, S_EnemySpawnByteSizeLong, EnemiesField, EnemiesSize
<1>6. PICK view, ok : view = S_EnemySpawnView(m) /\ ok = S_EnemySpawnIsInitialized(m)
  BY Zenon
<1>7. S_EnemySpawnParse(b) = m /\ S_EnemySpawn(view)
  <2>1. n \in Nat
    BY DEF MaxEnemies
  <2>2. S_EnemySpawnParse(S_EnemySpawnSerialize(m)) = m /\ S_EnemySpawn(S_EnemySpawnView(m))
    BY <2>1, EnemiesRead
  <2> QED
    BY <1>4, <1>6, <2>2, Zenon
<1>8. ParseS_EnemySpawn(b) = Read(view, ok)
  BY <1>6, <1>7, Zenon DEF ParseS_EnemySpawn
<1>9. PICK p : p = Packet(5, size, b)
  OBVIOUS
<1>10. p.id = 5 /\ p.payload = b
  BY <1>9 DEF Packet
<1>11. ClientProcessPacket(p) = <<Read(view, ok)>>
  <2>1. ClientProcessPacket(p) = <<ParseS_EnemySpawn(p.payload)>>
    BY ONLY <1>10, ClientReads
  <2> QED
    BY <1>8, <1>10, <2>1, Zenon
<1>12. ServerMessage(5, view)
  BY <1>7, ServerMessages, Zenon
<1>13. Good(Answer(view, ok, p, p.size))
  BY <1>5, <1>9, <1>11, <1>12, GoodAnswer
<1> QED
  BY <1>3, <1>4, <1>6, <1>9, <1>13, Zenon DEF SerializeS_EnemySpawn

LEMMA S_EnemyMoveGood ==
  ASSUME NEW n \in 0 .. MaxEnemies, NEW list, EnemyList(list, n), NEW m, m = [enemy |-> EnemyCopies(list)]
  PROVE  Good(Answer(S_EnemyMoveView(m), S_EnemyMoveIsInitialized(m), SerializeS_EnemyMovement(m), SerializeS_EnemyMovement(m).size))
<1>1. PICK c : c = EnemyCopies(list)
  OBVIOUS
<1>2. m.enemy = c
  BY <1>1
<1>3. PICK size \in Payloads : size = S_EnemyMoveByteSizeLong(m)
  <2>1. EnemiesSize(c) \in Payloads
    BY <1>1, EnemiesFit
  <2> QED
    BY <1>2, <2>1, Zenon DEF S_EnemyMoveByteSizeLong, EnemiesSize
<1>4. PICK b : b = S_EnemyMoveSerialize(m)
  OBVIOUS
<1>5. Written(b, size)
  <2>1. Written(EnemiesField(c), EnemiesSize(c))
    BY <1>1, EnemiesFit
  <2> QED
    BY <1>2, <1>3, <1>4, <2>1, Zenon
    DEF S_EnemyMoveSerialize, S_EnemyMoveByteSizeLong, EnemiesField, EnemiesSize
<1>6. PICK view, ok : view = S_EnemyMoveView(m) /\ ok = S_EnemyMoveIsInitialized(m)
  BY Zenon
<1>7. S_EnemyMoveParse(b) = m /\ S_EnemyMove(view)
  <2>1. n \in Nat
    BY DEF MaxEnemies
  <2>2. S_EnemyMoveParse(S_EnemyMoveSerialize(m)) = m /\ S_EnemyMove(S_EnemyMoveView(m))
    BY <2>1, EnemiesRead
  <2> QED
    BY <1>4, <1>6, <2>2, Zenon
<1>8. ParseS_EnemyMove(b) = Read(view, ok)
  BY <1>6, <1>7, Zenon DEF ParseS_EnemyMove
<1>9. PICK p : p = Packet(8, size, b)
  OBVIOUS
<1>10. p.id = 8 /\ p.payload = b
  BY <1>9 DEF Packet
<1>11. ClientProcessPacket(p) = <<Read(view, ok)>>
  <2>1. ClientProcessPacket(p) = <<ParseS_EnemyMove(p.payload)>>
    BY ONLY <1>10, ClientReads
  <2> QED
    BY <1>8, <1>10, <2>1, Zenon
<1>12. ServerMessage(8, view)
  BY <1>7, ServerMessages, Zenon
<1>13. Good(Answer(view, ok, p, p.size))
  BY <1>5, <1>9, <1>11, <1>12, GoodAnswer
<1> QED
  BY <1>3, <1>4, <1>6, <1>9, <1>13, Zenon DEF SerializeS_EnemyMovement

-----------------------------------------------------------------------------
(* The requests *)

\* Each request of ClientSession.cpp, serialised in CPacketHandler.cpp and read
\* in PacketHandler.cpp.
LEMMA C_LoginWhole ==
  ASSUME NEW v \in Int32
  PROVE  RequestWhole([sent |-> SendC_Login(v),
                        parsed |-> ParseC_Login(SendC_Login(v).packet.payload)])
<1>1. PICK m : m = [id |-> v]
  OBVIOUS
<1>2. PICK view, ok : view = C_LoginView(m) /\ ok = C_LoginIsInitialized(m)
  BY Zenon
<1>3. PICK size, b : size = C_LoginByteSizeLong(m) /\ b = C_LoginSerialize(m)
  BY Zenon
<1>4. PICK p : p = Packet(0, size, b)
  OBVIOUS
<1>5. SendC_Login(v) = Sent(view, ok, p)
  BY <1>1, <1>2, <1>3, <1>4, Zenon DEF SendC_Login, SerializeC_Login
<1>6. PICK read : read = ParseC_Login(b)
  OBVIOUS
<1>7. read = Read(view, ok) /\ C_Login(view)
  BY <1>1, <1>2, <1>3, <1>6, C_LoginRead, Zenon DEF ParseC_Login
<1>8. ClientMessage(0, view)
  BY <1>7, ClientMessages, Zenon
<1>9. /\ RequestWhole([sent |-> Sent(view, ok, p), parsed |-> read])
      /\ Sent(view, ok, p).packet.payload = b /\ read.msg = view
  BY <1>4, <1>7, <1>8, WholeRequest
<1> QED
  BY <1>5, <1>6, <1>9, Zenon

LEMMA C_SpawnWhole ==
  ASSUME NEW v \in Int32
  PROVE  RequestWhole([sent |-> SendC_Spawn(v),
                        parsed |-> ParseC_Spawn(SendC_Spawn(v).packet.payload)])
<1>1. PICK m : m = [id |-> v]
  OBVIOUS
<1>2. PICK view, ok : view = C_SpawnView(m) /\ ok = C_SpawnIsInitialized(m)
  BY Zenon
<1>3. PICK size, b : size = C_SpawnByteSizeLong(m) /\ b = C_SpawnSerialize(m)
  BY Zenon
<1>4. PICK p : p = Packet(1, size, b)
  OBVIOUS
<1>5. SendC_Spawn(v) = Sent(view, ok, p)
  BY <1>1, <1>2, <1>3, <1>4, Zenon DEF SendC_Spawn, SerializeC_Spawn
<1>6. PICK read : read = ParseC_Spawn(b)
  OBVIOUS
<1>7. read = Read(view, ok) /\ C_Spawn(view)
  BY <1>1, <1>2, <1>3, <1>6, C_SpawnRead, Zenon DEF ParseC_Spawn
<1>8. ClientMessage(1, view)
  BY <1>7, ClientMessages, Zenon
<1>9. /\ RequestWhole([sent |-> Sent(view, ok, p), parsed |-> read])
      /\ Sent(view, ok, p).packet.payload = b /\ read.msg = view
  BY <1>4, <1>7, <1>8, WholeRequest
<1> QED
  BY <1>5, <1>6, <1>9, Zenon

LEMMA C_DespawnWhole ==
  ASSUME NEW v \in Int32
  PROVE  /\ RequestWhole([sent |-> SendC_Despawn(v),
                           parsed |-> ParseC_Despawn(SendC_Despawn(v).packet.payload)])
         /\ ParseC_Despawn(SendC_Despawn(v).packet.payload).msg.id = v
<1>1. PICK m : m = [id |-> v]
  OBVIOUS
<1>2. PICK view, ok : view = C_DespawnView(m) /\ ok = C_DespawnIsInitialized(m)
  BY Zenon
<1>3. PICK size, b : size = C_DespawnByteSizeLong(m) /\ b = C_DespawnSerialize(m)
  BY Zenon
<1>4. PICK p : p = Packet(2, size, b)
  OBVIOUS
<1>5. SendC_Despawn(v) = Sent(view, ok, p)
  BY <1>1, <1>2, <1>3, <1>4, Zenon DEF SendC_Despawn, SerializeC_Despawn
<1>6. PICK read : read = ParseC_Despawn(b)
  OBVIOUS
<1>7. read = Read(view, ok) /\ C_Despawn(view)
  BY <1>1, <1>2, <1>3, <1>6, C_DespawnRead, Zenon DEF ParseC_Despawn
<1>8. ClientMessage(2, view)
  BY <1>7, ClientMessages, Zenon
<1>9. /\ RequestWhole([sent |-> Sent(view, ok, p), parsed |-> read])
      /\ Sent(view, ok, p).packet.payload = b /\ read.msg = view
  BY <1>4, <1>7, <1>8, WholeRequest
<1>10. view.id = v
  <2>1. view = m
    BY <1>1, <1>2, C_DespawnRead, Zenon
  <2> QED
    BY <1>1, <2>1
<1> QED
  BY <1>5, <1>6, <1>9, <1>10, Zenon

LEMMA C_MoveWhole ==
  ASSUME NEW v, Player(v)
  PROVE  RequestWhole([sent |-> SendC_Move(v),
                        parsed |-> ParseC_Move(SendC_Move(v).packet.payload)])
<1>1. PICK m : m = [player |-> v]
  OBVIOUS
<1>2. PICK view, ok : view = C_MoveView(m) /\ ok = C_MoveIsInitialized(m)
  BY Zenon
<1>3. PICK size, b : size = C_MoveByteSizeLong(m) /\ b = C_MoveSerialize(m)
  BY Zenon
<1>4. PICK p : p = Packet(3, size, b)
  OBVIOUS
<1>5. SendC_Move(v) = Sent(view, ok, p)
  BY <1>1, <1>2, <1>3, <1>4, Zenon DEF SendC_Move, SerializeC_Move
<1>6. PICK read : read = ParseC_Move(b)
  OBVIOUS
<1>7. read = Read(view, ok) /\ C_Move(view)
  BY <1>1, <1>2, <1>3, <1>6, C_MoveRead, Zenon DEF ParseC_Move
<1>8. ClientMessage(3, view)
  BY <1>7, ClientMessages, Zenon
<1>9. /\ RequestWhole([sent |-> Sent(view, ok, p), parsed |-> read])
      /\ Sent(view, ok, p).packet.payload = b /\ read.msg = view
  BY <1>4, <1>7, <1>8, WholeRequest
<1> QED
  BY <1>5, <1>6, <1>9, Zenon

LEMMA C_ChatWhole ==
  ASSUME NEW v \in 0 .. MaxText
  PROVE  /\ RequestWhole([sent |-> SendC_Chat(v),
                           parsed |-> ParseC_Chat(SendC_Chat(v).packet.payload)])
         /\ ParseC_Chat(SendC_Chat(v).packet.payload).msg.msg = v
<1>1. PICK m : m = [msg |-> v]
  OBVIOUS
<1>2. PICK view, ok : view = C_ChatView(m) /\ ok = C_ChatIsInitialized(m)
  BY Zenon
<1>3. PICK size, b : size = C_ChatByteSizeLong(m) /\ b = C_ChatSerialize(m)
  BY Zenon
<1>4. PICK p : p = Packet(4, size, b)
  OBVIOUS
<1>5. SendC_Chat(v) = Sent(view, ok, p)
  BY <1>1, <1>2, <1>3, <1>4, Zenon DEF SendC_Chat, SerializeC_Chat
<1>6. PICK read : read = ParseC_Chat(b)
  OBVIOUS
<1>7. read = Read(view, ok) /\ C_Chat(view)
  <2>1. v \in Nat
    BY DEF MaxText
  <2> QED
    BY <1>1, <1>2, <1>3, <1>6, <2>1, C_ChatRead, Zenon DEF ParseC_Chat
<1>8. ClientMessage(4, view)
  BY <1>7, ClientMessages, Zenon
<1>9. /\ RequestWhole([sent |-> Sent(view, ok, p), parsed |-> read])
      /\ Sent(view, ok, p).packet.payload = b /\ read.msg = view
  BY <1>4, <1>7, <1>8, WholeRequest
<1>10. view.msg = v
  <2>1. view = m
    <3>1. v \in Nat
      BY DEF MaxText
    <3> QED
      BY <1>1, <1>2, <3>1, C_ChatRead, Zenon
  <2> QED
    BY <1>1, <2>1
<1> QED
  BY <1>5, <1>6, <1>9, <1>10, Zenon

LEMMA C_AttackWhole ==
  ASSUME NEW v \in Int32, NEW w \in Int32
  PROVE  /\ RequestWhole([sent |-> SendC_Attack(v, w),
                           parsed |-> ParseC_Attack(SendC_Attack(v, w).packet.payload)])
         /\ ParseC_Attack(SendC_Attack(v, w).packet.payload).msg.target = w
<1>1. PICK m : m = [attacker |-> v, target |-> w]
  OBVIOUS
<1>2. PICK view, ok : view = C_AttackView(m) /\ ok = C_AttackIsInitialized(m)
  BY Zenon
<1>3. PICK size, b : size = C_AttackByteSizeLong(m) /\ b = C_AttackSerialize(m)
  BY Zenon
<1>4. PICK p : p = Packet(7, size, b)
  OBVIOUS
<1>5. SendC_Attack(v, w) = Sent(view, ok, p)
  BY <1>1, <1>2, <1>3, <1>4, Zenon DEF SendC_Attack, SerializeC_Attack
<1>6. PICK read : read = ParseC_Attack(b)
  OBVIOUS
<1>7. read = Read(view, ok) /\ C_Attack(view)
  <2>1. C_AttackParse(b) = m
    BY <1>1, <1>3, C_AttackRoundtrip, Zenon
  <2>2. C_Attack(view)
    BY <1>1, <1>2, AttackSent, Zenon
  <2> QED
    BY <1>2, <1>6, <2>1, <2>2, Zenon DEF ParseC_Attack
<1>8. ClientMessage(7, view)
  BY <1>7, ClientMessages, Zenon
<1>9. /\ RequestWhole([sent |-> Sent(view, ok, p), parsed |-> read])
      /\ Sent(view, ok, p).packet.payload = b /\ read.msg = view
  BY <1>4, <1>7, <1>8, WholeRequest
<1>10. view.target = w
  <2>1. view = m
    BY <1>1, <1>2, AttackSent, Zenon
  <2> QED
    BY <1>1, <2>1
<1> QED
  BY <1>5, <1>6, <1>9, <1>10, Zenon

-----------------------------------------------------------------------------
(* What threads and buffers hold *)

\* One request and one list of answers for each thread.
CodecTypes ==
  request = [t \in Threads |-> request[t]] /\ todo = [t \in Threads |-> todo[t]]

\* What a thread reads is what was sent to it.
RequestsWhole == \A t \in Threads : request[t] # None => RequestWhole(request[t])

\* Each answer that is to be written will fit and be read.
AnswersGood == \A t \in Threads : \E A : todo[t] \in Seq(A) /\ \A a \in A : Good(a)

\* A thread that has an answer to send has asked for a block of its size.
HeldFits ==
  \A t \in Threads : todo[t] # <<>> /\ at[t] \in {"attach", "own"} =>
    real[t] = Head(todo[t]).size + HeaderSize

\* What has been written is as long as its packet says and as its block's header.
BufferFits(b) ==
  /\ buffer[b].size + HeaderSize = m_allocSize[b]
  /\ buffer[b].packet # None =>
       /\ buffer[b].packet.size = buffer[b].size
       /\ sizeofPacketHeader + Bytes(buffer[b].packet.payload) = buffer[b].size

\* It holds of every block with an owner.
BuffersFit == \A b \in Blocks : Owned(b) => BufferFits(b)

\* The block is out of the pools, and no thread is at allocating or freeing it.
Away(b) == ~Free(b) /\ (\A t \in Threads : held[t] # b) /\ capacity[b] # 0

\* A buffer nobody has read yet is out of the pools, so that nothing writes it
\* over, and will be read as it was meant.
UnsentWhole == \A b \in unsent : b \in Blocks /\ Away(b) /\ AnswerWhole(buffer[b])

\* The invariant that PacketFits and PacketWhole need, beside the blocks' own.
CodecInv ==
  /\ CodecTypes /\ RequestsWhole /\ AnswersGood /\ HeldFits /\ BuffersFit /\ UnsentWhole

LEMMA CodecStart == CodecInit => CodecInv
<1> SUFFICES ASSUME CodecInit
             PROVE  CodecInv
  OBVIOUS
<1>1. /\ request = [t \in Threads |-> None] /\ todo = [t \in Threads |-> <<>>]
      /\ buffer = [b \in Blocks |-> None] /\ unsent = {}
  BY DEF CodecInit
<1>2. CodecTypes /\ RequestsWhole /\ HeldFits
  BY <1>1 DEF CodecTypes, RequestsWhole, HeldFits
<1>3. AnswersGood
  <2>1. PICK E : E = {}
    OBVIOUS
  <2> SUFFICES ASSUME NEW t \in Threads
               PROVE  \E A : todo[t] \in Seq(A) /\ \A a \in A : Good(a)
    BY DEF AnswersGood
  <2>2. todo[t] \in Seq(E)
    BY <1>1
  <2>3. \A a \in E : Good(a)
    BY <2>1
  <2> QED
    BY <2>2, <2>3, Zenon
<1>4. BuffersFit /\ UnsentWhole
  BY <1>1 DEF BuffersFit, UnsentWhole, Owned
<1> QED
  BY <1>2, <1>3, <1>4 DEF CodecInv

\* The invariant is about these variables.
LEMMA CodecQuiet ==
  ASSUME CodecInv, UNCHANGED allVars
  PROVE  CodecInv'
BY DEF CodecInv, CodecTypes, RequestsWhole, AnswersGood, HeldFits, BuffersFit, BufferFits,
       UnsentWhole, Away, Free, Owned, allVars, memoryVars, codecVars

\* A thread with nothing to do takes a message and has these answers.
LEMMA TakeSound ==
  ASSUME CodecInv, NEW t \in Threads, Idle(t), NEW r, RequestWhole(r),
         NEW A, NEW answers \in Seq(A), \A a \in A : Good(a),
         request' = [request EXCEPT ![t] = r] \/ request' = request,
         todo' = [todo EXCEPT ![t] = answers], UNCHANGED <<memoryVars, buffer, unsent>>
  PROVE  CodecInv'
<1>1. \A u \in Threads : todo'[u] = IF u = t THEN answers ELSE todo[u]
  BY DEF CodecInv, CodecTypes
<1>2. \A u \in Threads : request'[u] = request[u] \/ request'[u] = r
  BY DEF CodecInv, CodecTypes
<1>3. CodecTypes'
  BY DEF CodecInv, CodecTypes
<1>4. RequestsWhole'
  BY <1>2 DEF CodecInv, RequestsWhole
<1>5. AnswersGood'
  <2> SUFFICES ASSUME NEW u \in Threads
               PROVE  \E B : todo'[u] \in Seq(B) /\ \A a \in B : Good(a)
    BY DEF AnswersGood
  <2>1. CASE u = t
    <3>1. todo'[u] = answers
      BY <1>1, <2>1
    <3> QED
      BY <3>1, Zenon
  <2>2. CASE u # t
    <3>1. todo'[u] = todo[u]
      BY <1>1, <2>2
    <3> QED
      BY <3>1, Zenon DEF CodecInv, AnswersGood
  <2> QED
    BY <2>1, <2>2
<1>6. HeldFits'
  BY <1>1 DEF CodecInv, HeldFits, Idle, memoryVars
<1>7. BuffersFit' /\ UnsentWhole'
  BY DEF CodecInv, BuffersFit, BufferFits, UnsentWhole, Away, Free, Owned, memoryVars
<1> QED
  BY <1>3, <1>4, <1>5, <1>6, <1>7 DEF CodecInv

-----------------------------------------------------------------------------
(* The steps of the pools *)

\* A block that was away stays so when another one is allocated.
LEMMA AwayAllocate ==
  ASSUME BlockInv, NEW t \in Threads, NEW size, Allocable(size), Allocate(t, size),
         NEW b \in Blocks, Away(b)
  PROVE  Away(b)'
<1>1. MemoryTypes /\ PoolSound
  BY DEF BlockInv
<1>2. PICK all : all = size + HeaderSize
  OBVIOUS
<1>3. PICK p : p = m_memoryPoolTable(all)
  OBVIOUS
<1>4. CASE (Malloc(t, all) \/ Malloc(t, p)) /\ UNCHANGED m_pHeader
  <2>1. PICK c \in Blocks : /\ capacity[c] = 0 /\ held' = [held EXCEPT ![t] = c]
                            /\ capacity' = [capacity EXCEPT ![c] = all]
                               \/ capacity' = [capacity EXCEPT ![c] = p]
                            /\ m_pHeader' = m_pHeader
    BY <1>4 DEF Malloc
  <2>2. c # b
    BY <2>1 DEF Away
  <2>3. capacity'[b] = capacity[b] /\ \A u \in Threads : held'[u] # b
    BY <1>1, <2>1, <2>2 DEF Away, MemoryTypes
  <2> QED
    BY <2>1, <2>3 DEF Away, Free
<1>5. CASE /\ all <= MAX_ALLOC_SIZE /\ m_pHeader[p] # <<>>
           /\ held' = [held EXCEPT ![t] = Head(m_pHeader[p])]
           /\ m_pHeader' = [m_pHeader EXCEPT ![p] = Tail(m_pHeader[p])]
           /\ UNCHANGED capacity
  <2>1. p \in PoolSizes
    <3>1. size \in Nat /\ (all > MAX_ALLOC_SIZE \/ m_memoryPoolTable(all) # 0)
      BY <1>2 DEF Allocable
    <3>2. all \in Nat /\ m_memoryPoolTable(all) # 0
      BY <1>2, <1>5, <3>1 DEF MAX_ALLOC_SIZE, HeaderSize
    <3> QED
      BY <1>3, <3>2, PoolOf
  <2>2. PICK s \in Seq(Blocks) : s = m_pHeader[p]
    BY <1>1, <2>1 DEF MemoryTypes
  <2>3. s # <<>>
    BY <1>5, <2>2
  <2>4. /\ Head(s) = s[1] /\ 1 \in 1 .. Len(s)
        /\ \A k \in 1 .. Len(Tail(s)) : k + 1 \in 1 .. Len(s) /\ Tail(s)[k] = s[k + 1]
    BY ONLY s \in Seq(Blocks), <2>3, HeadTailProperties
  <2>5. Head(s) # b
    BY <2>1, <2>2, <2>4 DEF Away, Free
  <2>6. \A u \in Threads : held'[u] # b
    BY <1>1, <1>5, <2>2, <2>5 DEF Away, MemoryTypes
  <2>7. ~Free(b)'
    <3> SUFFICES ASSUME NEW q \in PoolSizes, NEW k \in 1 .. Len(m_pHeader'[q]),
                        m_pHeader'[q][k] = b
                 PROVE  Free(b)
      BY DEF Free, Away
    <3>1. CASE q = p
      <4>1. m_pHeader'[q] = Tail(s)
        BY <1>1, <1>5, <2>1, <2>2, <3>1 DEF MemoryTypes
      <4>2. k + 1 \in 1 .. Len(s) /\ s[k + 1] = b
        BY <2>4, <4>1
      <4> QED
        BY <2>1, <2>2, <4>2 DEF Free
    <3>2. CASE q # p
      <4>1. m_pHeader'[q] = m_pHeader[q]
        BY <1>1, <1>5, <3>2 DEF MemoryTypes
      <4> QED
        BY <4>1 DEF Free
    <3> QED
      BY <3>1, <3>2
  <2> QED
    BY <1>5, <2>6, <2>7 DEF Away
<1>6. all \in Int
  BY <1>2 DEF Allocable, HeaderSize
<1> QED
  BY <1>2, <1>3, <1>4, <1>5, <1>6 DEF Allocate, MAX_ALLOC_SIZE

\* Nor does it come back when another one is freed.
LEMMA AwayPush ==
  ASSUME BlockInv, NEW t \in Threads, PushEntry(t), NEW b \in Blocks, Away(b)
  PROVE  Away(b)'
<1>1. MemoryTypes /\ HeldSound
  BY DEF BlockInv
<1>2. /\ at[t] = "push" /\ held' = [held EXCEPT ![t] = NoBlock] /\ capacity' = capacity
  BY DEF PushEntry, Step
<1>3. PICK c \in Blocks : c = held[t] /\ c # b
  BY <1>1, <1>2 DEF Away, MemoryTypes, HeldSound
<1>4. PICK p : p = m_memoryPoolTable(real[t])
  OBVIOUS
<1>5. m_pHeader' = [m_pHeader EXCEPT ![p] = <<c>> \o m_pHeader[p]]
  BY <1>3, <1>4, Zenon DEF PushEntry
<1>6. \A u \in Threads : held'[u] # b
  BY <1>1, <1>2, BlockAssumption DEF Away, MemoryTypes
<1>7. ~Free(b)'
  <2> SUFFICES ASSUME NEW q \in PoolSizes, NEW k \in 1 .. Len(m_pHeader'[q]),
                      m_pHeader'[q][k] = b
               PROVE  Free(b)
    BY DEF Free, Away
  <2>1. PICK s \in Seq(Blocks) : s = m_pHeader[q]
    BY <1>1 DEF MemoryTypes
  <2>2. CASE q = p
    <3>1. PICK d : d = <<c>> \o s
      OBVIOUS
    <3>2. m_pHeader'[q] = d
      BY <1>1, <1>5, <2>1, <2>2, <3>1 DEF MemoryTypes
    <3>3. PICK one : one = <<c>>
      OBVIOUS
    <3>4. d = one \o s /\ one \in Seq(Blocks) /\ Len(one) = 1 /\ one[1] = c
      BY <3>1, <3>3
    <3>5. PICK n \in Nat : n = Len(s)
      BY <2>1, LenProperties
    <3>6. Len(d) = 1 + n /\ \A h \in 1 .. 1 + n : d[h] = IF h <= 1 THEN one[h] ELSE s[h - 1]
      BY ONLY <3>3, <3>4, <3>5, s \in Seq(Blocks), ConcatProperties
    <3>7. k \in 1 .. 1 + n /\ d[k] = b
      BY <3>2, <3>6
    <3>8. k # 1
      BY <1>3, <3>3, <3>6, <3>7
    <3>9. k - 1 \in 1 .. n /\ s[k - 1] = b
      BY <3>6, <3>7, <3>8
    <3> QED
      BY <2>1, <3>5, <3>9 DEF Free
  <2>3. CASE q # p
    <3>1. m_pHeader'[q] = m_pHeader[q]
      BY <1>1, <1>5, <2>3 DEF MemoryTypes
    <3> QED
      BY <3>1 DEF Free
  <2> QED
    BY <2>2, <2>3
<1> QED
  BY <1>2, <1>6, <1>7 DEF Away

\* Allocate: the thread asked for what it has to send, or has nothing to send.
LEMMA AllocateFits ==
  ASSUME CodecInv, BlockInv, NEW t \in Threads, NEW size, Allocable(size), Allocate(t, size),
         todo[t] # <<>> => size = Head(todo[t]).size, UNCHANGED codecVars
  PROVE  CodecInv'
<1>1. MemoryTypes
  BY DEF BlockInv
<1>2. /\ real' = [real EXCEPT ![t] = size + HeaderSize] /\ at' = [at EXCEPT ![t] = "attach"]
      /\ m_allocSize' = m_allocSize
  BY DEF Allocate, Step
<1>3. CodecTypes' /\ RequestsWhole' /\ AnswersGood'
  BY DEF CodecInv, CodecTypes, RequestsWhole, AnswersGood, codecVars
<1>4. HeldFits'
  BY <1>1, <1>2 DEF CodecInv, HeldFits, MemoryTypes, codecVars
<1>5. BuffersFit'
  BY <1>2 DEF CodecInv, BuffersFit, BufferFits, Owned, codecVars
<1>6. UnsentWhole'
  BY AwayAllocate DEF CodecInv, UnsentWhole, codecVars
<1> QED
  BY <1>3, <1>4, <1>5, <1>6 DEF CodecInv

\* A header says the size the thread asked for.
LEMMA AttachFits ==
  ASSUME CodecInv, BlockInv, NEW t \in Threads, AttachMemoryHeader(t), UNCHANGED codecVars
  PROVE  CodecInv'
<1>1. MemoryTypes /\ HeldSound
  BY DEF BlockInv
<1>2. /\ at[t] = "attach" /\ at' = [at EXCEPT ![t] = "own"]
      /\ m_allocSize' = [m_allocSize EXCEPT ![held[t]] = real[t]]
      /\ capacity' = capacity /\ m_pHeader' = m_pHeader /\ held' = held /\ real' = real
  BY DEF AttachMemoryHeader, Step
<1>3. CodecTypes' /\ RequestsWhole' /\ AnswersGood'
  BY DEF CodecInv, CodecTypes, RequestsWhole, AnswersGood, codecVars
<1>4. HeldFits'
  BY <1>1, <1>2 DEF CodecInv, HeldFits, MemoryTypes, codecVars
<1>5. BuffersFit'
  <2>1. PICK c \in Blocks : c = held[t] /\ ~Owned(c)
    BY <1>1, <1>2 DEF HeldSound, MemoryTypes, Holds
  <2>2. \A b \in Blocks : b # c => m_allocSize'[b] = m_allocSize[b]
    BY <1>1, <1>2, <2>1 DEF MemoryTypes
  <2> QED
    BY <2>1, <2>2 DEF CodecInv, BuffersFit, BufferFits, Owned, codecVars
<1>6. UnsentWhole'
  BY <1>2 DEF CodecInv, UnsentWhole, Away, Free, codecVars
<1> QED
  BY <1>3, <1>4, <1>5, <1>6 DEF CodecInv

LEMMA PushFits ==
  ASSUME CodecInv, BlockInv, NEW t \in Threads, PushEntry(t), UNCHANGED codecVars
  PROVE  CodecInv'
<1>1. MemoryTypes
  BY DEF BlockInv
<1>2. /\ at' = [at EXCEPT ![t] = "idle"] /\ real' = [real EXCEPT ![t] = 0]
      /\ m_allocSize' = m_allocSize
  BY DEF PushEntry, Step
<1>3. CodecTypes' /\ RequestsWhole' /\ AnswersGood'
  BY DEF CodecInv, CodecTypes, RequestsWhole, AnswersGood, codecVars
<1>4. HeldFits'
  BY <1>1, <1>2 DEF CodecInv, HeldFits, MemoryTypes, codecVars
<1>5. BuffersFit'
  BY <1>2 DEF CodecInv, BuffersFit, BufferFits, Owned, codecVars
<1>6. UnsentWhole'
  BY AwayPush DEF CodecInv, UnsentWhole, codecVars
<1> QED
  BY <1>3, <1>4, <1>5, <1>6 DEF CodecInv

\* What is freed has no reader left: Release takes no unsent buffer.
LEMMA ReleaseFits ==
  ASSUME CodecInv, BlockInv, NEW t \in Threads, Release(t)
  PROVE  CodecInv'
<1>1. MemoryTypes /\ OwnedSound
  BY DEF BlockInv
<1>2. PICK b \in Blocks \ unsent :
        buffer[b] # None /\ Deallocate(t, b) /\ buffer' = [buffer EXCEPT ![b] = None]
  BY DEF Release
<1>3. /\ at[t] = "idle" /\ request' = request /\ todo' = todo /\ unsent' = unsent
      /\ m_allocSize' = [m_allocSize EXCEPT ![b] = 0] /\ m_pHeader' = m_pHeader
  BY <1>2 DEF Release, Deallocate
<1>4. \/ capacity' = [capacity EXCEPT ![b] = 0] /\ at' = at /\ held' = held /\ real' = real
      \/ /\ capacity' = capacity /\ at' = [at EXCEPT ![t] = "push"]
         /\ held' = [held EXCEPT ![t] = b] /\ real' = [real EXCEPT ![t] = m_allocSize[b]]
  BY <1>2 DEF Deallocate, Step
<1>5. CodecTypes' /\ RequestsWhole' /\ AnswersGood'
  BY <1>3 DEF CodecInv, CodecTypes, RequestsWhole, AnswersGood
<1>6. HeldFits'
  <2>1. \A u \in Threads : at'[u] \in {"attach", "own"} => at'[u] = at[u] /\ real'[u] = real[u]
    BY <1>1, <1>4 DEF MemoryTypes
  <2> QED
    BY <1>3, <2>1 DEF CodecInv, HeldFits
<1>7. \A c \in Blocks :
        /\ c # b => buffer'[c] = buffer[c] /\ m_allocSize'[c] = m_allocSize[c]
                    /\ capacity'[c] = capacity[c] /\ Free(c)' = Free(c)
        /\ c = b => buffer'[c] = None
  BY <1>1, <1>2, <1>3, <1>4 DEF MemoryTypes, Free
<1>8. BuffersFit'
  BY <1>7 DEF CodecInv, BuffersFit, BufferFits, Owned
<1>9. UnsentWhole'
  <2> SUFFICES ASSUME NEW c \in unsent
               PROVE  c \in Blocks /\ Away(c)' /\ AnswerWhole(buffer'[c])
    BY <1>3 DEF UnsentWhole
  <2>1. c \in Blocks /\ c # b /\ Away(c) /\ AnswerWhole(buffer[c])
    BY <1>2 DEF CodecInv, UnsentWhole
  <2>2. \A u \in Threads : held'[u] # c
    BY <1>1, <1>4, <2>1 DEF Away, MemoryTypes
  <2>3. Away(c)'
    BY <1>7, <2>1, <2>2 DEF Away
  <2> QED
    BY <1>7, <2>1, <2>3
<1> QED
  BY <1>5, <1>6, <1>8, <1>9 DEF CodecInv

-----------------------------------------------------------------------------
(* A thread gives its block to a session or an object *)

\* The block is away from now on.
LEMMA AwayGive ==
  ASSUME BlockInv, NEW t \in Threads, at[t] = "own", NEW c \in Blocks, held[t] = c,
         held' = [held EXCEPT ![t] = NoBlock], UNCHANGED <<capacity, m_pHeader>>
  PROVE  /\ Away(c)' /\ \A b \in Blocks : Away(b) => b # c /\ Away(b)'
         /\ ~Owned(c) /\ m_allocSize[c] = real[t]
<1>1. MemoryTypes /\ Holds(t, c)
  BY DEF BlockInv, HeldSound
<1>2. capacity[c] # 0
  BY <1>1, CapacityLarge DEF Holds, HeaderSize
<1>3. \A u \in Threads : held'[u] = IF u = t THEN NoBlock ELSE held[u]
  BY <1>1 DEF MemoryTypes
<1>4. Away(c)'
  BY <1>1, <1>2, <1>3, BlockAssumption DEF Away, Holds, Free
<1>5. ASSUME NEW b \in Blocks, Away(b)
      PROVE  b # c /\ Away(b)'
  BY <1>3, <1>5, BlockAssumption DEF Away, Free
<1> QED
  BY <1>1, <1>4, <1>5 DEF Holds

\* An answer is written to a buffer that was allocated for its size.
LEMMA WriteFits ==
  ASSUME CodecInv, BlockInv, NEW t \in Threads, WriteAnswer(t)
  PROVE  CodecInv'
<1>1. MemoryTypes
  BY DEF BlockInv
<1>2. /\ todo[t] # <<>> /\ at[t] = "own" /\ at' = [at EXCEPT ![t] = "idle"]
      /\ buffer' = [buffer EXCEPT ![held[t]] = Head(todo[t])]
      /\ unsent' = unsent \cup {held[t]}
      /\ todo' = [todo EXCEPT ![t] = Tail(todo[t])]
      /\ request' = [request EXCEPT ![t] = IF Len(todo[t]) = 1 THEN None ELSE request[t]]
      /\ held' = [held EXCEPT ![t] = NoBlock] /\ real' = [real EXCEPT ![t] = 0]
      /\ capacity' = capacity /\ m_allocSize' = m_allocSize /\ m_pHeader' = m_pHeader
  BY DEF WriteAnswer, Step
<1>3. PICK c \in Blocks : c = held[t]
  BY <1>1, <1>2 DEF MemoryTypes, BlockInv, HeldSound
<1>4. /\ Away(c)' /\ \A b \in Blocks : Away(b) => b # c /\ Away(b)'
      /\ ~Owned(c) /\ m_allocSize[c] = real[t]
  BY <1>2, <1>3, AwayGive
<1>5. PICK A : todo[t] \in Seq(A) /\ \A a \in A : Good(a)
  BY DEF CodecInv, AnswersGood
<1>6. PICK a \in A : a = Head(todo[t])
  BY <1>2, <1>5, HeadTailProperties
<1>7. Good(a) /\ Tail(todo[t]) \in Seq(A)
  BY <1>2, <1>5, HeadTailProperties
<1>8. AnswerFits(a) /\ AnswerWhole(a)
  BY <1>7, Zenon DEF Good
<1>9. \A b \in Blocks : buffer'[b] = IF b = c THEN a ELSE buffer[b]
  BY <1>1, <1>2, <1>3, <1>6 DEF MemoryTypes
<1>10. \A u \in Threads : /\ todo'[u] = IF u = t THEN Tail(todo[t]) ELSE todo[u]
  BY <1>2 DEF CodecInv, CodecTypes
<1>11. \A u \in Threads : request'[u] = request[u] \/ request'[u] = None
  BY <1>2 DEF CodecInv, CodecTypes
<1>12. CodecTypes' /\ RequestsWhole'
  <2>1. CodecTypes'
    BY <1>2 DEF CodecInv, CodecTypes
  <2>2. RequestsWhole'
    BY <1>11 DEF CodecInv, RequestsWhole
  <2> QED
    BY <2>1, <2>2
<1>13. AnswersGood'
  <2> SUFFICES ASSUME NEW u \in Threads
               PROVE  \E B : todo'[u] \in Seq(B) /\ \A x \in B : Good(x)
    BY DEF AnswersGood
  <2>1. CASE u = t
    <3>1. todo'[u] \in Seq(A)
      BY <1>7, <1>10, <2>1
    <3> QED
      BY <1>5, <3>1, Zenon
  <2>2. CASE u # t
    <3>1. todo'[u] = todo[u]
      BY <1>10, <2>2
    <3> QED
      BY <3>1, Zenon DEF CodecInv, AnswersGood
  <2> QED
    BY <2>1, <2>2
<1>14. HeldFits'
  <2>1. \A u \in Threads : at'[u] \in {"attach", "own"} =>
          u # t /\ at'[u] = at[u] /\ real'[u] = real[u]
    BY <1>1, <1>2 DEF MemoryTypes
  <2> QED
    BY <1>10, <2>1 DEF CodecInv, HeldFits
<1>15. BuffersFit'
  <2>1. real[t] = a.size + HeaderSize
    BY <1>2, <1>6 DEF CodecInv, HeldFits
  <2>2. BufferFits(c)'
    BY <1>2, <1>4, <1>8, <1>9, <2>1 DEF BufferFits, AnswerFits
  <2>3. ASSUME NEW b \in Blocks, b # c, Owned(b)'
        PROVE  BufferFits(b)'
    BY <1>2, <1>9, <2>3 DEF CodecInv, BuffersFit, BufferFits, Owned
  <2> QED
    BY <2>2, <2>3 DEF BuffersFit
<1>16. UnsentWhole'
  <2> SUFFICES ASSUME NEW b \in unsent \cup {c}
               PROVE  b \in Blocks /\ Away(b)' /\ AnswerWhole(buffer'[b])
    BY <1>2, <1>3 DEF UnsentWhole
  <2>1. CASE b = c
    BY <1>4, <1>8, <1>9, <2>1
  <2>2. CASE b # c
    BY <1>4, <1>9, <2>2 DEF CodecInv, UnsentWhole
  <2> QED
    BY <2>1, <2>2
<1> QED
  BY <1>12, <1>13, <1>14, <1>15, <1>16 DEF CodecInv

\* An object is as long as its block was asked to be.
LEMMA ConstructFits ==
  ASSUME CodecInv, BlockInv, NEW t \in Threads, Construct(t)
  PROVE  CodecInv'
<1>1. MemoryTypes
  BY DEF BlockInv
<1>2. PICK a : a = Answer(None, TRUE, None, real[t] - HeaderSize)
  OBVIOUS
<1>3. /\ at[t] = "own" /\ at' = [at EXCEPT ![t] = "idle"]
      /\ buffer' = [buffer EXCEPT ![held[t]] = a]
      /\ unsent' = unsent /\ todo' = todo /\ request' = request
      /\ held' = [held EXCEPT ![t] = NoBlock] /\ real' = [real EXCEPT ![t] = 0]
      /\ capacity' = capacity /\ m_allocSize' = m_allocSize /\ m_pHeader' = m_pHeader
  BY <1>2 DEF Construct, Step
<1>4. PICK c \in Blocks : c = held[t]
  BY <1>1, <1>3 DEF MemoryTypes, BlockInv, HeldSound
<1>5. /\ \A b \in Blocks : Away(b) => b # c /\ Away(b)'
      /\ ~Owned(c) /\ m_allocSize[c] = real[t]
  BY <1>3, <1>4, AwayGive
<1>6. \A b \in Blocks : buffer'[b] = IF b = c THEN a ELSE buffer[b]
  BY <1>1, <1>3, <1>4 DEF MemoryTypes
<1>7. a.packet = None /\ a.size = real[t] - HeaderSize
  BY <1>2 DEF Answer
<1>8. CodecTypes' /\ RequestsWhole' /\ AnswersGood'
  BY <1>3 DEF CodecInv, CodecTypes, RequestsWhole, AnswersGood
<1>9. HeldFits'
  <2>1. \A u \in Threads : at'[u] \in {"attach", "own"} =>
          u # t /\ at'[u] = at[u] /\ real'[u] = real[u]
    BY <1>1, <1>3 DEF MemoryTypes
  <2> QED
    BY <1>3, <2>1 DEF CodecInv, HeldFits
<1>10. BuffersFit'
  <2>1. real[t] \in Nat
    BY <1>1 DEF MemoryTypes
  <2>2. BufferFits(c)'
    BY <1>3, <1>5, <1>6, <1>7, <2>1 DEF BufferFits, HeaderSize
  <2>3. ASSUME NEW b \in Blocks, b # c, Owned(b)'
        PROVE  BufferFits(b)'
    BY <1>3, <1>6, <2>3 DEF CodecInv, BuffersFit, BufferFits, Owned
  <2> QED
    BY <2>2, <2>3 DEF BuffersFit
<1>11. UnsentWhole'
  BY <1>3, <1>5, <1>6 DEF CodecInv, UnsentWhole
<1> QED
  BY <1>8, <1>9, <1>10, <1>11 DEF CodecInv

-----------------------------------------------------------------------------
(* The handlers *)

\* A handler that has one answer.
LEMMA OneAnswer ==
  ASSUME CodecInv, NEW t \in Threads, Idle(t), NEW r, RequestWhole(r), NEW a, Good(a),
         request' = [request EXCEPT ![t] = r] \/ request' = request,
         todo' = [todo EXCEPT ![t] = <<a>>], UNCHANGED <<memoryVars, buffer, unsent>>
  PROVE  CodecInv'
<1>1. PICK A : A = {a}
  OBVIOUS
<1>2. PICK answers : answers = <<a>>
  OBVIOUS
<1>3. answers \in Seq(A)
  BY <1>1, <1>2
<1>4. \A x \in A : Good(x)
  BY <1>1
<1>5. todo' = [todo EXCEPT ![t] = answers]
  BY <1>2
<1> QED
  BY <1>3, <1>4, <1>5, TakeSound

LEMMA NoAnswer ==
  ASSUME CodecInv, NEW t \in Threads, Idle(t), NEW r, RequestWhole(r),
         request' = [request EXCEPT ![t] = r],
         todo' = [todo EXCEPT ![t] = <<>>], UNCHANGED <<memoryVars, buffer, unsent>>
  PROVE  CodecInv'
<1>1. PICK A : A = {}
  OBVIOUS
<1>2. PICK answers : answers = <<>>
  OBVIOUS
<1>3. answers \in Seq(A)
  BY <1>1, <1>2
<1>4. \A x \in A : Good(x)
  BY <1>1
<1>5. todo' = [todo EXCEPT ![t] = answers]
  BY <1>2
<1> QED
  BY <1>3, <1>4, <1>5, TakeSound

\* The handlers of PacketHandler::ProcessPacket, one by one.
LEMMA LoginFits ==
  ASSUME CodecInv, NEW t \in Threads, ProcessC_Login(t)
  PROVE  CodecInv'
<1>1. PICK m : m = [bsucceded |-> TRUE]
  OBVIOUS
<1>2. PICK a : a = Answer(S_LoginView(m), S_LoginIsInitialized(m), SerializeS_Login(m),
                          SerializeS_Login(m).size)
  OBVIOUS
<1>3. PICK id \in Ids :
        Process(t, SendC_Login(id), ParseC_Login(SendC_Login(id).packet.payload), <<a>>)
  BY <1>1, <1>2, Zenon DEF ProcessC_Login
<1>4. PICK r : r = [sent |-> SendC_Login(id),
                    parsed |-> ParseC_Login(SendC_Login(id).packet.payload)]
  OBVIOUS
<1>5. RequestWhole(r)
  <2>1. id \in Int32
    BY MessageAssumption
  <2> QED
    BY <1>4, <2>1, C_LoginWhole, Zenon
<1>6. Good(a)
  BY <1>1, <1>2, S_LoginGood, Zenon
<1>7. /\ Idle(t) /\ request' = [request EXCEPT ![t] = r] /\ todo' = [todo EXCEPT ![t] = <<a>>]
      /\ UNCHANGED <<memoryVars, buffer, unsent>>
  BY <1>3, <1>4, Zenon DEF Process, ProcessC_Login
<1> QED
  BY <1>5, <1>6, <1>7, OneAnswer

LEMMA DespawnFits ==
  ASSUME CodecInv, NEW t \in Threads, ProcessC_Despawn(t)
  PROVE  CodecInv'
<1>1. PICK id \in Ids :
        LET s == SendC_Despawn(id)
            q == ParseC_Despawn(s.packet.payload)
            m == [id |-> q.msg.id]
            packet == SerializeS_Despawn(m)
        IN Process(t, s, q,
             <<Answer(S_DespawnView(m), S_DespawnIsInitialized(m), packet, packet.size)>>)
  BY Zenon DEF ProcessC_Despawn
<1>2. id \in Int32
  BY MessageAssumption
<1>3. PICK s, q : s = SendC_Despawn(id) /\ q = ParseC_Despawn(s.packet.payload)
  BY Zenon
<1>4. PICK r : r = [sent |-> s, parsed |-> q]
  OBVIOUS
<1>5. RequestWhole(r) /\ q.msg.id = id
  BY <1>2, <1>3, <1>4, C_DespawnWhole, Zenon
<1>6. PICK m : m = [id |-> id]
  OBVIOUS
<1>7. PICK a : a = Answer(S_DespawnView(m), S_DespawnIsInitialized(m), SerializeS_Despawn(m),
                          SerializeS_Despawn(m).size)
  OBVIOUS
<1>8. Good(a)
  BY <1>2, <1>6, <1>7, S_DespawnGood, Zenon
<1>9. Process(t, s, q, <<a>>)
  BY <1>1, <1>3, <1>5, <1>6, <1>7, Zenon
<1>10. /\ Idle(t) /\ request' = [request EXCEPT ![t] = r] /\ todo' = [todo EXCEPT ![t] = <<a>>]
       /\ UNCHANGED <<memoryVars, buffer, unsent>>
  BY <1>4, <1>9, Zenon DEF Process, ProcessC_Despawn
<1> QED
  BY <1>5, <1>8, <1>10, OneAnswer

LEMMA ChatFits ==
  ASSUME CodecInv, NEW t \in Threads, ProcessC_Chat(t)
  PROVE  CodecInv'
<1>1. PICK n \in Texts :
        LET s == SendC_Chat(n)
            q == ParseC_Chat(s.packet.payload)
            m == [msg |-> q.msg.msg]
        IN Process(t, s, q,
             <<Answer(S_ChatView(m), S_ChatIsInitialized(m), SerializeS_Chat(m), s.size)>>)
  BY Zenon DEF ProcessC_Chat
<1>2. n \in 0 .. MaxText
  BY MessageAssumption
<1>3. PICK s, q : s = SendC_Chat(n) /\ q = ParseC_Chat(s.packet.payload)
  BY Zenon
<1>4. PICK r : r = [sent |-> s, parsed |-> q]
  OBVIOUS
<1>5. RequestWhole(r) /\ q.msg.msg = n
  BY <1>2, <1>3, <1>4, C_ChatWhole, Zenon
<1>6. PICK m : m = [msg |-> n]
  OBVIOUS
<1>7. PICK a : a = Answer(S_ChatView(m), S_ChatIsInitialized(m), SerializeS_Chat(m), s.size)
  OBVIOUS
<1>8. Good(a)
  BY <1>2, <1>3, <1>6, <1>7, S_ChatGood, Zenon
<1>9. Process(t, s, q, <<a>>)
  BY <1>1, <1>3, <1>5, <1>6, <1>7, Zenon
<1>10. /\ Idle(t) /\ request' = [request EXCEPT ![t] = r] /\ todo' = [todo EXCEPT ![t] = <<a>>]
       /\ UNCHANGED <<memoryVars, buffer, unsent>>
  BY <1>4, <1>9, Zenon DEF Process, ProcessC_Chat
<1> QED
  BY <1>5, <1>8, <1>10, OneAnswer

LEMMA AttackFits ==
  ASSUME CodecInv, NEW t \in Threads, ProcessC_Attack(t)
  PROVE  CodecInv'
<1>1. PICK attacker \in Ids, target \in Ids, bInRange \in BOOLEAN :
        LET s == SendC_Attack(attacker, target)
            q == ParseC_Attack(s.packet.payload)
            m == [target |-> q.msg.target]
            packet == SerializeS_Attack(m)
        IN Process(t, s, q,
             IF bInRange
             THEN <<Answer(S_AttackView(m), S_AttackIsInitialized(m), packet, packet.size)>>
             ELSE <<>>)
  BY Zenon DEF ProcessC_Attack
<1>2. attacker \in Int32 /\ target \in Int32
  BY MessageAssumption
<1>3. PICK s, q : s = SendC_Attack(attacker, target) /\ q = ParseC_Attack(s.packet.payload)
  BY Zenon
<1>4. PICK r : r = [sent |-> s, parsed |-> q]
  OBVIOUS
<1>5. RequestWhole(r) /\ q.msg.target = target
  BY <1>2, <1>3, <1>4, C_AttackWhole, Zenon
<1>6. PICK m : m = [target |-> target]
  OBVIOUS
<1>7. PICK a : a = Answer(S_AttackView(m), S_AttackIsInitialized(m), SerializeS_Attack(m),
                          SerializeS_Attack(m).size)
  OBVIOUS
<1>8. Good(a)
  BY <1>2, <1>6, <1>7, S_AttackGood, Zenon
<1>9. Process(t, s, q, IF bInRange THEN <<a>> ELSE <<>>)
  BY <1>1, <1>3, <1>5, <1>6, <1>7, Zenon
<1>10. Idle(t)
  BY Zenon DEF ProcessC_Attack
<1>11. CASE bInRange
  <2>1. /\ request' = [request EXCEPT ![t] = r] /\ todo' = [todo EXCEPT ![t] = <<a>>]
        /\ UNCHANGED <<memoryVars, buffer, unsent>>
    BY <1>4, <1>9, <1>11, Zenon DEF Process
  <2> QED
    BY <1>5, <1>8, <1>10, <2>1, OneAnswer
<1>12. CASE ~bInRange
  <2>1. /\ request' = [request EXCEPT ![t] = r] /\ todo' = [todo EXCEPT ![t] = <<>>]
        /\ UNCHANGED <<memoryVars, buffer, unsent>>
    BY <1>4, <1>9, <1>12, Zenon DEF Process
  <2> QED
    BY <1>5, <1>10, <2>1, NoAnswer
<1> QED
  BY <1>11, <1>12

LEMMA MoveFits ==
  ASSUME CodecInv, NEW t \in Threads, ProcessC_Move(t)
  PROVE  CodecInv'
<1>1. PICK p \in Moves :
        Process(t, SendC_Move(p), ParseC_Move(SendC_Move(p).packet.payload), <<>>)
  BY Zenon DEF ProcessC_Move
<1>2. Player(p)
  BY MessageAssumption
<1>3. PICK r : r = [sent |-> SendC_Move(p),
                    parsed |-> ParseC_Move(SendC_Move(p).packet.payload)]
  OBVIOUS
<1>4. RequestWhole(r)
  BY <1>2, <1>3, C_MoveWhole, Zenon
<1>5. /\ Idle(t) /\ request' = [request EXCEPT ![t] = r] /\ todo' = [todo EXCEPT ![t] = <<>>]
      /\ UNCHANGED <<memoryVars, buffer, unsent>>
  BY <1>1, <1>3, Zenon DEF Process, ProcessC_Move
<1> QED
  BY <1>4, <1>5, NoAnswer

\* The lists the server may hold.
LEMMA CrowdList ==
  ASSUME NEW players \in Crowds
  PROVE  \E n \in 0 .. MaxPlayers : PlayerList(players, n) /\ Len(players) = n
BY MessageAssumption DEF PlayerList

LEMMA HordeList ==
  ASSUME NEW enemies \in Hordes
  PROVE  \E n \in 0 .. MaxEnemies : EnemyList(enemies, n)
BY MessageAssumption DEF EnemyList

LEMMA CrowdSpawnGood ==
  ASSUME NEW n \in 0 .. MaxPlayers, NEW players, PlayerList(players, n)
  PROVE  Good(AnswerS_Spawn(players))
<1>1. PICK m : m = [player |-> PlayerCopies(players)]
  OBVIOUS
<1>2. Good(Answer(S_SpawnView(m), S_SpawnIsInitialized(m), SerializeS_Spawn(m),
                  SerializeS_Spawn(m).size))
  BY <1>1, S_SpawnGood
<1> QED
  BY <1>1, <1>2, Zenon DEF AnswerS_Spawn, PlayerCopies

LEMMA HordeSpawnGood ==
  ASSUME NEW n \in 0 .. MaxEnemies, NEW enemies, EnemyList(enemies, n)
  PROVE  Good(AnswerS_EnemySpawn(enemies))
<1>1. PICK m : m = [enemy |-> EnemyCopies(enemies)]
  OBVIOUS
<1>2. Good(Answer(S_EnemySpawnView(m), S_EnemySpawnIsInitialized(m), SerializeS_EnemySpawn(m),
                  SerializeS_EnemySpawn(m).size))
  BY <1>1, S_EnemySpawnGood
<1> QED
  BY <1>1, <1>2, Zenon DEF AnswerS_EnemySpawn, EnemyCopies

LEMMA SpawnFits ==
  ASSUME CodecInv, NEW t \in Threads, ProcessC_Spawn(t)
  PROVE  CodecInv'
<1>1. PICK id \in Ids, players \in Crowds \ {<<>>}, enemies \in Hordes :
        Process(t, SendC_Spawn(id), ParseC_Spawn(SendC_Spawn(id).packet.payload),
          <<AnswerS_Spawn(<<Last(players)>>), AnswerS_Spawn(players),
            AnswerS_EnemySpawn(enemies)>>)
  BY Zenon DEF ProcessC_Spawn
<1>2. PICK r : r = [sent |-> SendC_Spawn(id),
                    parsed |-> ParseC_Spawn(SendC_Spawn(id).packet.payload)]
  OBVIOUS
<1>3. RequestWhole(r)
  <2>1. id \in Int32
    BY MessageAssumption
  <2> QED
    BY <1>2, <2>1, C_SpawnWhole, Zenon
<1>4. PICK n \in 0 .. MaxPlayers : PlayerList(players, n) /\ Len(players) = n
  BY CrowdList
<1>5. PICK k \in 0 .. MaxEnemies : EnemyList(enemies, k)
  BY HordeList
<1>6. PICK one : one = <<Last(players)>>
  OBVIOUS
<1>7. PlayerList(one, 1)
  <2>1. n \in 1 .. n
    <3>1. n # 0
      BY <1>4 DEF PlayerList
    <3> QED
      BY <3>1 DEF MaxPlayers
  <2>2. PICK p : p = Last(players)
    OBVIOUS
  <2>3. p = players[n]
    BY <1>4, <2>2, Zenon DEF Last
  <2>4. Player(p)
    BY <1>4, <2>1, <2>3 DEF PlayerList
  <2>5. one = <<p>>
    BY <1>6, <2>2, Zenon
  <2> QED
    BY <2>4, <2>5 DEF PlayerList
<1>8. PICK a, b, c : /\ a = AnswerS_Spawn(one) /\ b = AnswerS_Spawn(players)
                     /\ c = AnswerS_EnemySpawn(enemies)
  BY Zenon
<1>9. Good(a) /\ Good(b) /\ Good(c)
  <2>1. 1 \in 0 .. MaxPlayers
    BY DEF MaxPlayers
  <2>2. Good(AnswerS_Spawn(one))
    BY <1>7, <2>1, CrowdSpawnGood
  <2>3. Good(AnswerS_Spawn(players))
    BY <1>4, CrowdSpawnGood
  <2>4. Good(AnswerS_EnemySpawn(enemies))
    BY <1>5, HordeSpawnGood
  <2> QED
    BY <1>8, <2>2, <2>3, <2>4, Zenon
<1>10. PICK A : A = {a, b, c}
  OBVIOUS
<1>11. PICK answers : answers = <<a, b, c>>
  OBVIOUS
<1>12. answers \in Seq(A)
  BY <1>10, <1>11
<1>13. \A x \in A : Good(x)
  BY <1>9, <1>10
<1>14. Process(t, SendC_Spawn(id), ParseC_Spawn(SendC_Spawn(id).packet.payload), answers)
  BY <1>1, <1>6, <1>8, <1>11, Zenon
<1>15. /\ Idle(t) /\ request' = [request EXCEPT ![t] = r]
       /\ todo' = [todo EXCEPT ![t] = answers]
       /\ UNCHANGED <<memoryVars, buffer, unsent>>
  BY <1>2, <1>14, Zenon DEF Process, ProcessC_Spawn
<1> QED
  BY <1>3, <1>12, <1>13, <1>15, TakeSound

\* The lists the game loop broadcasts.
LEMMA BroadcastFits ==
  ASSUME CodecInv, Idle(Main), NEW a, Good(a), Broadcast(a)
  PROVE  CodecInv'
<1>1. PICK A : A = {a}
  OBVIOUS
<1>2. PICK answers : answers = <<a>>
  OBVIOUS
<1>3. answers \in Seq(A)
  BY <1>1, <1>2
<1>4. \A x \in A : Good(x)
  BY <1>1
<1>5. /\ todo' = [todo EXCEPT ![Main] = answers] /\ request' = request
      /\ UNCHANGED <<memoryVars, buffer, unsent>>
  BY <1>2 DEF Broadcast
<1>6. PICK t \in Threads : t = Main
  BY MainAssumption
<1>7. \A u \in Threads : todo'[u] = IF u = t THEN answers ELSE todo[u]
  BY <1>5, <1>6 DEF CodecInv, CodecTypes
<1>8. CodecTypes' /\ RequestsWhole'
  BY <1>5 DEF CodecInv, CodecTypes, RequestsWhole
<1>9. AnswersGood'
  <2> SUFFICES ASSUME NEW u \in Threads
               PROVE  \E B : todo'[u] \in Seq(B) /\ \A x \in B : Good(x)
    BY DEF AnswersGood
  <2>1. CASE u = t
    <3>1. todo'[u] = answers
      BY <1>7, <2>1
    <3> QED
      BY <1>3, <1>4, <3>1, Zenon
  <2>2. CASE u # t
    <3>1. todo'[u] = todo[u]
      BY <1>7, <2>2
    <3> QED
      BY <3>1, Zenon DEF CodecInv, AnswersGood
  <2> QED
    BY <2>1, <2>2
<1>10. HeldFits'
  BY <1>5, <1>6, <1>7 DEF CodecInv, HeldFits, Idle, memoryVars
<1>11. BuffersFit' /\ UnsentWhole'
  BY <1>5 DEF CodecInv, BuffersFit, BufferFits, UnsentWhole, Away, Free, Owned, memoryVars
<1> QED
  BY <1>8, <1>9, <1>10, <1>11 DEF CodecInv

LEMMA S_MoveFits ==
  ASSUME CodecInv, BrodcastS_Move
  PROVE  CodecInv'
<1>1. PICK players \in Crowds :
        LET m == [player |-> PlayerCopies(players)]
            packet == SerializeS_Move(m)
        IN Broadcast(Answer(S_MoveView(m), S_MoveIsInitialized(m), packet, packet.size))
  BY Zenon DEF BrodcastS_Move, PlayerCopies
<1>2. PICK m : m = [player |-> PlayerCopies(players)]
  OBVIOUS
<1>3. PICK a : a = Answer(S_MoveView(m), S_MoveIsInitialized(m), SerializeS_Move(m),
                          SerializeS_Move(m).size)
  OBVIOUS
<1>4. Broadcast(a)
  BY <1>1, <1>2, <1>3, Zenon
<1>5. PICK n \in 0 .. MaxPlayers : PlayerList(players, n)
  BY CrowdList
<1>6. Good(Answer(S_MoveView(m), S_MoveIsInitialized(m), SerializeS_Move(m),
                  SerializeS_Move(m).size))
  BY <1>2, <1>5, S_MoveGood
<1>7. Good(a) /\ Idle(Main)
  BY <1>3, <1>6, Zenon DEF BrodcastS_Move
<1> QED
  BY <1>4, <1>7, BroadcastFits

LEMMA S_EnemyMoveFits ==
  ASSUME CodecInv, BrodcastS_EnemyMove
  PROVE  CodecInv'
<1>1. PICK enemies \in Hordes :
        LET m == [enemy |-> EnemyCopies(enemies)]
            packet == SerializeS_EnemyMovement(m)
        IN Broadcast(Answer(S_EnemyMoveView(m), S_EnemyMoveIsInitialized(m), packet, packet.size))
  BY Zenon DEF BrodcastS_EnemyMove, EnemyCopies
<1>2. PICK m : m = [enemy |-> EnemyCopies(enemies)]
  OBVIOUS
<1>3. PICK a : a = Answer(S_EnemyMoveView(m), S_EnemyMoveIsInitialized(m),
                          SerializeS_EnemyMovement(m), SerializeS_EnemyMovement(m).size)
  OBVIOUS
<1>4. Broadcast(a)
  BY <1>1, <1>2, <1>3, Zenon
<1>5. PICK n \in 0 .. MaxEnemies : EnemyList(enemies, n)
  BY HordeList
<1>6. Good(Answer(S_EnemyMoveView(m), S_EnemyMoveIsInitialized(m),
                  SerializeS_EnemyMovement(m), SerializeS_EnemyMovement(m).size))
  BY <1>2, <1>5, S_EnemyMoveGood
<1>7. Good(a) /\ Idle(Main)
  BY <1>3, <1>6, Zenon DEF BrodcastS_EnemyMove
<1> QED
  BY <1>4, <1>7, BroadcastFits

\* So every answer has a buffer.
LEMMA TodoAllocable ==
  ASSUME CodecInv
  PROVE  SizesAllocable
<1> SUFFICES ASSUME NEW t \in Threads, todo[t] # <<>>
             PROVE  Allocable(Head(todo[t]).size)
  BY DEF SizesAllocable
<1>1. PICK A : todo[t] \in Seq(A) /\ \A a \in A : Good(a)
  BY DEF CodecInv, AnswersGood
<1>2. PICK a \in A : a = Head(todo[t])
  BY <1>1, HeadTailProperties
<1>3. Good(a)
  BY <1>1
<1> QED
  BY <1>2, <1>3, Zenon DEF Good, AnswerFits

\* Every step keeps the invariant, as long as the blocks are in one place.
LEMMA CodecStep ==
  ASSUME CodecInv, BlockInv, [Next]_allVars
  PROVE  CodecInv'
<1>1. CASE BrodcastS_Move
  BY <1>1, S_MoveFits
<1>2. CASE BrodcastS_EnemyMove
  BY <1>2, S_EnemyMoveFits
<1>3. CASE Deliver
  BY <1>3
  DEF Deliver, CodecInv, CodecTypes, RequestsWhole, AnswersGood, HeldFits, BuffersFit,
      BufferFits, UnsentWhole, Away, Free, Owned, memoryVars
<1>4. ASSUME NEW t \in Threads,
             \/ ProcessC_Login(t) \/ ProcessC_Spawn(t) \/ ProcessC_Despawn(t)
             \/ ProcessC_Move(t) \/ ProcessC_Chat(t) \/ ProcessC_Attack(t)
      PROVE  CodecInv'
  BY <1>4, LoginFits, SpawnFits, DespawnFits, MoveFits, ChatFits, AttackFits
<1>5. ASSUME NEW t \in Threads, NewSendBuffer(t)
      PROVE  CodecInv'
  <2>1. PICK size : size = Head(todo[t]).size
    OBVIOUS
  <2>2. Allocable(size) /\ Allocate(t, size) /\ UNCHANGED codecVars
    BY <1>5, <2>1, TodoAllocable DEF NewSendBuffer, SizesAllocable
  <2> QED
    BY <2>1, <2>2, AllocateFits
<1>6. ASSUME NEW t \in Threads, xnew(t)
      PROVE  CodecInv'
  <2>1. PICK size \in Objects : Allocate(t, size)
    BY <1>6 DEF xnew
  <2>2. Allocable(size) /\ todo[t] = <<>> /\ UNCHANGED codecVars
    BY <1>6, ObjectAssumption DEF xnew
  <2> QED
    BY <2>1, <2>2, AllocateFits
<1>7. ASSUME NEW t \in Threads, Attach(t)
      PROVE  CodecInv'
  BY <1>7, AttachFits DEF Attach
<1>8. ASSUME NEW t \in Threads, WriteAnswer(t)
      PROVE  CodecInv'
  BY <1>8, WriteFits
<1>9. ASSUME NEW t \in Threads, Construct(t)
      PROVE  CodecInv'
  BY <1>9, ConstructFits
<1>10. ASSUME NEW t \in Threads, Release(t)
       PROVE  CodecInv'
  BY <1>10, ReleaseFits
<1>11. ASSUME NEW t \in Threads, Push(t)
       PROVE  CodecInv'
  BY <1>11, PushFits DEF Push
<1>12. CASE UNCHANGED allVars
  BY <1>12, CodecQuiet
<1> QED
  BY <1>1, <1>2, <1>3, <1>4, <1>5, <1>6, <1>7, <1>8, <1>9, <1>10, <1>11, <1>12 DEF Next

LEMMA FitsWhenInv ==
  ASSUME CodecInv, BlockInv
  PROVE  PacketFits
<1>1. ASSUME NEW b \in Blocks, Owned(b)
      PROVE  /\ buffer[b].size + HeaderSize <= capacity[b]
             /\ buffer[b].packet # None =>
                  /\ buffer[b].packet.size = buffer[b].size
                  /\ sizeofPacketHeader + Bytes(buffer[b].packet.payload) = buffer[b].size
  <2>1. BufferFits(b)
    BY <1>1 DEF CodecInv, BuffersFit
  <2>2. m_allocSize[b] \in Sizes /\ capacity[b] = CapacityFor(m_allocSize[b])
    BY <1>1 DEF BlockInv, OwnedSound
  <2>3. m_allocSize[b] <= capacity[b]
    BY <2>2, CapacityLarge
  <2> QED
    BY <2>1, <2>3 DEF BufferFits
<1> QED
  BY <1>1, TodoAllocable DEF PacketFits

LEMMA WholeWhenInv ==
  ASSUME CodecInv
  PROVE  PacketWhole
BY DEF CodecInv, RequestsWhole, RequestWhole, UnsentWhole, AnswerWhole, PacketWhole

\* Neither invariant is inductive alone: a buffer keeps what was written to it
\* because its block is nowhere else, and Allocate never finds the gap in the
\* table because of the sizes of the answers.
LEMMA Inductive ==
  BlockInv /\ CodecInv /\ [Next]_allVars => BlockInv' /\ CodecInv'
BY BlockStep, CodecStep, TodoAllocable

\* MemoryPoolManager (Memory.cpp) has every block in one place, a pool's list,
\* a thread's hands or an owner's, and its header says which pool it is from:
\* whatever threads allocate and free between one another's steps.
THEOREM BlocksInOnePlace == Spec => []BlocksSound
<1>1. BlockInv => BlocksSound
  BY BlockInvSound
<1> QED
  BY <1>1, BlockStart, CodecStart, Inductive, PTL DEF Spec

\* What PacketHandler.cpp writes is as long as its header and its SendBuffer, and
\* no packet asks for a size that has no pool.
THEOREM PacketsFit == Spec => []PacketFits
<1>1. BlockInv /\ CodecInv => PacketFits
  BY FitsWhenInv
<1> QED
  BY <1>1, BlockStart, CodecStart, Inductive, PTL DEF Spec

\* What a ParseC_ or ParseS_ function reads of a packet is what the getters of the
\* message gave before the other side's Serialize function wrote it (test.pb.cc).
THEOREM PacketsWhole == Spec => []PacketWhole
<1>1. CodecInv => PacketWhole
  BY WholeWhenInv
<1> QED
  BY <1>1, BlockStart, CodecStart, Inductive, PTL DEF Spec
=============================================================================
