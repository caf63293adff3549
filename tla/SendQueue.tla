----------------------------- MODULE SendQueue -----------------------------
(***************************************************************************)
(* Session::RequestSend (Session.cpp:293-344), called on one session by    *)
(* several threads: the IO threads that handle packets and the main thread *)
(* that broadcasts positions.  A caller pushes its message under           *)
(* m_sendLock; the one that finds m_bSending clear drains the queue, leaves *)
(* the lock and calls WSASend.  The steps are those between which another  *)
(* thread can run.  Reference counting is in SessionPool.                  *)
(***************************************************************************)
EXTENDS Naturals, SequencesExt

CONSTANTS
  Threads,      \* callers of RequestSend
  Messages,     \* send buffers; each is sent once on this session
  NoThread,     \* nobody holds m_sendLock
  SendingInit   \* values the uninitialised m_bSending may start with

ASSUME SendAssumption ==
  /\ NoThread \notin Threads
  /\ SendingInit \in SUBSET BOOLEAN

VARIABLES
  m_sendLock,   \* the thread inside the lock
  m_sendQueue,  \* messages waiting for a sender, oldest first
  m_bSending,   \* some thread has become the sender
  pc,           \* where each thread is inside RequestSend
  m_sendBuffers, \* messages in the overlapped of each thread
  pushed,       \* history: messages in the order they were queued
  handed,       \* history: messages given to WSASend, in order
  wire          \* the ones WSASend took

vars == <<m_sendLock, m_sendQueue, m_bSending, pc, m_sendBuffers,
          pushed, handed, wire>>

TypeOK ==
  /\ m_sendLock \in Threads \cup {NoThread}
  /\ m_sendQueue \in Seq(Messages)
  /\ m_bSending \in BOOLEAN
  /\ pc \in [Threads -> {"idle", "pushed", "drain", "send", "clear"}]
  /\ m_sendBuffers \in [Threads -> Seq(Messages)]
  /\ pushed \in Seq(Messages)
  /\ handed \in Seq(Messages)
  /\ wire \in Seq(Messages)

Init ==
  /\ m_sendLock = NoThread
  /\ m_sendQueue = <<>>
  /\ m_bSending \in SendingInit
  /\ pc = [t \in Threads |-> "idle"]
  /\ m_sendBuffers = [t \in Threads |-> <<>>]
  /\ pushed = <<>>
  /\ handed = <<>>
  /\ wire = <<>>

Goto(t, from, to) ==
  /\ pc[t] = from
  /\ pc' = [pc EXCEPT ![t] = to]

\* Lines 298-299: take m_sendLock and push.
PushMessage(t, m) ==
  /\ m \notin Range(pushed)
  /\ m_sendLock = NoThread
  /\ Goto(t, "idle", "pushed")
  /\ m_sendLock' = t
  /\ m_sendQueue' = Append(m_sendQueue, m)
  /\ pushed' = Append(pushed, m)
  /\ UNCHANGED <<m_bSending, m_sendBuffers, handed, wire>>

\* Lines 300-303: another thread is the sender, the call is over.
LeaveToSender(t) ==
  /\ m_bSending
  /\ Goto(t, "pushed", "idle")
  /\ m_sendLock' = NoThread
  /\ UNCHANGED <<m_sendQueue, m_bSending, m_sendBuffers, pushed, handed, wire>>

\* Mutant: the flag is read but not exchanged.
BecomeSender_NoExchange(t) ==
  /\ ~m_bSending
  /\ Goto(t, "pushed", "drain")
  /\ UNCHANGED <<m_sendLock, m_sendQueue, m_bSending, m_sendBuffers,
                 pushed, handed, wire>>

\* Line 300: the exchange returns false.
BecomeSender(t) ==
  /\ ~m_bSending
  /\ Goto(t, "pushed", "drain")
  /\ m_bSending' = TRUE
  /\ UNCHANGED <<m_sendLock, m_sendQueue, m_sendBuffers, pushed, handed, wire>>

\* Mutant: the newest message is sent first.
DrainQueue_FromBack(t) ==
  /\ Goto(t, "drain", "send")
  /\ m_sendBuffers' = [m_sendBuffers EXCEPT ![t] = Reverse(m_sendQueue)]
  /\ m_sendQueue' = <<>>
  /\ m_sendLock' = NoThread
  /\ UNCHANGED <<m_bSending, pushed, handed, wire>>

\* Lines 305-318: move the whole queue into the overlapped, then unlock.
DrainQueue(t) ==
  /\ Goto(t, "drain", "send")
  /\ m_sendBuffers' = [m_sendBuffers EXCEPT ![t] = m_sendQueue]
  /\ m_sendQueue' = <<>>
  /\ m_sendLock' = NoThread
  /\ UNCHANGED <<m_bSending, pushed, handed, wire>>

\* Mutant: a pending send is taken for a failed one and sent again.
WSASend_Again(t) ==
  /\ Goto(t, "send", "clear")
  /\ wire' = wire \o m_sendBuffers[t] \o m_sendBuffers[t]
  /\ handed' = handed \o m_sendBuffers[t]
  /\ m_sendBuffers' = [m_sendBuffers EXCEPT ![t] = <<>>]
  /\ UNCHANGED <<m_sendLock, m_sendQueue, m_bSending, pushed>>

\* Line 328: the socket takes the batch, now or as a pending operation.
WSASend(t) ==
  /\ Goto(t, "send", "clear")
  /\ wire' = wire \o m_sendBuffers[t]
  /\ handed' = handed \o m_sendBuffers[t]
  /\ m_sendBuffers' = [m_sendBuffers EXCEPT ![t] = <<>>]
  /\ UNCHANGED <<m_sendLock, m_sendQueue, m_bSending, pushed>>

\* Mutant: a failed send returns without line 335.
WSASendFails_KeepsFlag(t) ==
  /\ Goto(t, "send", "idle")
  /\ handed' = handed \o m_sendBuffers[t]
  /\ m_sendBuffers' = [m_sendBuffers EXCEPT ![t] = <<>>]
  /\ UNCHANGED <<m_sendLock, m_sendQueue, m_bSending, pushed, wire>>

\* Lines 328-334: WSASend fails and the overlapped is destroyed with the batch.
WSASendFails(t) ==
  /\ Goto(t, "send", "clear")
  /\ handed' = handed \o m_sendBuffers[t]
  /\ m_sendBuffers' = [m_sendBuffers EXCEPT ![t] = <<>>]
  /\ UNCHANGED <<m_sendLock, m_sendQueue, m_bSending, pushed, wire>>

\* Lines 335 and 341.
ClearSending(t) ==
  /\ Goto(t, "clear", "idle")
  /\ m_bSending' = FALSE
  /\ UNCHANGED <<m_sendLock, m_sendQueue, m_sendBuffers, pushed, handed, wire>>

\* What a thread does once its message is queued.
Continue(t) ==
  \/ LeaveToSender(t)
  \/ BecomeSender(t)
  \/ DrainQueue(t)
  \/ WSASend(t)
  \/ WSASendFails(t)
  \/ ClearSending(t)

Next ==
  \E t \in Threads :
    \/ \E m \in Messages : PushMessage(t, m)
    \/ Continue(t)

Spec == Init /\ [][Next]_vars

\* No step of RequestSend blocks once it is inside the lock.
FairSpec == Spec /\ \A t \in Threads : WF_vars(Continue(t))

-----------------------------------------------------------------------------
(* Properties *)

IsSender(t) == pc[t] \in {"drain", "send", "clear"}

\* Two WSASend calls in progress on one stream socket may mix their data
\* (Documents, TCP send, line 22): there is at most one sender, and while
\* there is one m_bSending is set, which is what keeps the next one out.
OneSender ==
  /\ \A t, u \in Threads : IsSender(t) /\ IsSender(u) => t = u
  /\ (\E t \in Threads : IsSender(t)) => m_bSending

\* The batch of the thread that has drained but not yet called WSASend.
InFlight ==
  IF \E t \in Threads : pc[t] = "send"
  THEN m_sendBuffers[CHOOSE t \in Threads : pc[t] = "send"]
  ELSE <<>>

\* No interleaving of callers loses, repeats or reorders a queued message:
\* what WSASend was given, then the batch in hand, then the queue, is what
\* was pushed.
NothingLostOrReordered == pushed = handed \o InFlight \o m_sendQueue

\* The client channel RequestSend implements: pending is the batch in hand
\* followed by the queue.
Channel ==
  INSTANCE SendChannel WITH accepted <- pushed, pending <- InFlight \o m_sendQueue

\* RequestSend implements the first-in first-out channel.
IsChannel == Channel!Spec

\* A sender always gives the flag back, after a failed WSASend too (line
\* 335): otherwise every later message of the session would stay queued.
SendingEnds == (\E t \in Threads : IsSender(t)) ~> ~m_bSending

=============================================================================
