--------------------------- MODULE SendQueueProofs ---------------------------
(***************************************************************************)
(* Proofs about SendQueue for any number of callers and messages: there is *)
(* one sender, nothing is lost or reordered, and RequestSend implements    *)
(* the first-in first-out channel of SendChannel.                          *)
(***************************************************************************)
EXTENDS SendQueue, SequenceTheorems, TLAPS

\* Exactly the thread that is between push and drain has the lock.
LockInv == \A t \in Threads : pc[t] \in {"pushed", "drain"} <=> m_sendLock = t

IInv == TypeOK /\ LockInv /\ OneSender /\ NothingLostOrReordered

-----------------------------------------------------------------------------
(* Sequences *)

\* A batch is a prefix that can be cut off what is pending.
LEMMA CutPrefix ==
  ASSUME NEW S, NEW b \in Seq(S), NEW q \in Seq(S)
  PROVE  /\ SubSeq(b \o q, 1, Len(b)) = b
         /\ SubSeq(b \o q, Len(b) + 1, Len(b \o q)) = q
<1> DEFINE c == b \o q
<1>1. /\ c \in Seq(S) /\ Len(c) = Len(b) + Len(q)
      /\ \A i \in 1 .. Len(b) + Len(q) : c[i] = IF i <= Len(b) THEN b[i] ELSE q[i - Len(b)]
  BY ConcatProperties
<1>2. Len(b) \in Nat /\ Len(q) \in Nat
  BY LenProperties
<1>3. \A i \in 1 .. Len(c) : c[i] \in S
  BY <1>1, ElementOfSeq
<1> HIDE DEF c
<1>4. SubSeq(c, 1, Len(b)) = b
  <2>1. /\ SubSeq(c, 1, Len(b)) \in Seq(S)
        /\ Len(SubSeq(c, 1, Len(b))) = Len(b)
        /\ \A i \in 1 .. Len(b) : SubSeq(c, 1, Len(b))[i] = c[i]
    BY <1>1, <1>2, <1>3, SubSeqProperties
  <2> QED
    BY <2>1, <1>1, <1>2, SeqEqual
<1>5. SubSeq(c, Len(b) + 1, Len(c)) = q
  <2>1. /\ SubSeq(c, Len(b) + 1, Len(c)) \in Seq(S)
        /\ Len(SubSeq(c, Len(b) + 1, Len(c))) = Len(q)
        /\ \A i \in 1 .. Len(q) : SubSeq(c, Len(b) + 1, Len(c))[i] = c[Len(b) + i]
    <3>1. \A i \in Len(b) + 1 .. Len(c) : c[i] \in S
      BY <1>1, <1>2, <1>3
    <3> QED
      BY <3>1, <1>1, <1>2, SubSeqProperties
  <2> QED
    BY <2>1, <1>1, <1>2, SeqEqual
<1> QED
  BY <1>4, <1>5 DEF c

-----------------------------------------------------------------------------
(* The batch in hand *)

LEMMA InFlightOf ==
  ASSUME TypeOK, OneSender, NEW t \in Threads, pc[t] = "send"
  PROVE  InFlight = m_sendBuffers[t]
<1>1. \A u \in Threads : pc[u] = "send" => u = t
  BY DEF OneSender, IsSender
<1> QED
  BY <1>1 DEF InFlight

LEMMA InFlightType ==
  ASSUME TypeOK
  PROVE  InFlight \in Seq(Messages)
<1>1. CASE \E t \in Threads : pc[t] = "send"
  BY <1>1 DEF InFlight, TypeOK
<1>2. CASE ~ \E t \in Threads : pc[t] = "send"
  BY <1>2, EmptySeq DEF InFlight
<1> QED
  BY <1>1, <1>2

\* A step of a thread that is not, and does not get, between drain and
\* WSASend leaves the batch in hand alone.
LEMMA InFlightSame ==
  ASSUME TypeOK, OneSender, m_sendBuffers' = m_sendBuffers,
         \A u \in Threads : pc'[u] = "send" <=> pc[u] = "send"
  PROVE  InFlight' = InFlight
<1>1. CASE \E t \in Threads : pc[t] = "send"
  <2>1. PICK t \in Threads : pc[t] = "send"
    BY <1>1
  <2>2. \A u \in Threads : pc'[u] = "send" <=> u = t
    BY <2>1 DEF OneSender, IsSender
  <2>3. InFlight' = m_sendBuffers'[t]
    BY <2>2 DEF InFlight
  <2> QED
    BY <2>1, <2>3, InFlightOf
<1>2. CASE ~ \E t \in Threads : pc[t] = "send"
  BY <1>2 DEF InFlight
<1> QED
  BY <1>1, <1>2

\* Draining puts the queue in hand; there was nothing in hand before.
LEMMA DrainInFlight ==
  ASSUME TypeOK, OneSender, NEW t \in Threads, DrainQueue(t)
  PROVE  InFlight = <<>> /\ InFlight' = m_sendQueue
<1>1. \A u \in Threads : pc[u] # "send"
  BY DEF DrainQueue, Goto, OneSender, IsSender
<1>2. \A u \in Threads : pc'[u] = "send" <=> u = t
  BY <1>1 DEF DrainQueue, Goto, TypeOK
<1>3. m_sendBuffers'[t] = m_sendQueue
  BY DEF DrainQueue, TypeOK
<1> QED
  BY <1>1, <1>2, <1>3 DEF InFlight

\* WSASend, failed or not, takes the batch out of hand.
LEMMA SendInFlight ==
  ASSUME TypeOK, OneSender, NEW t \in Threads, WSASend(t) \/ WSASendFails(t)
  PROVE  InFlight = m_sendBuffers[t] /\ InFlight' = <<>>
<1>1. InFlight = m_sendBuffers[t]
  BY InFlightOf DEF WSASend, WSASendFails, Goto
<1>2. \A u \in Threads : pc'[u] # "send"
  BY DEF WSASend, WSASendFails, Goto, OneSender, IsSender, TypeOK
<1> QED
  BY <1>1, <1>2 DEF InFlight

-----------------------------------------------------------------------------
(* The inductive invariant *)

LEMMA InitIInv == Init => IInv
<1> SUFFICES ASSUME Init PROVE IInv
  OBVIOUS
<1>1. TypeOK
  BY SendAssumption, EmptySeq DEF Init, TypeOK, SendAssumption
<1>2. LockInv
  BY SendAssumption DEF Init, LockInv, SendAssumption
<1>3. OneSender
  BY DEF Init, OneSender, IsSender
<1>4. InFlight = <<>>
  BY DEF Init, InFlight
<1>5. NothingLostOrReordered
  BY <1>4, EmptySeq, ConcatEmptySeq DEF Init, NothingLostOrReordered
<1> QED
  BY <1>1, <1>2, <1>3, <1>5 DEF IInv

LEMMA PushIInv ==
  ASSUME IInv, NEW t \in Threads, NEW m \in Messages, PushMessage(t, m)
  PROVE  /\ IInv'
         /\ InFlight' = InFlight
<1> USE DEF IInv
<1>1. /\ m_sendLock = NoThread /\ pc[t] = "idle" /\ m_sendLock' = t
      /\ pc' = [pc EXCEPT ![t] = "pushed"]
      /\ m_sendQueue' = Append(m_sendQueue, m)
      /\ pushed' = Append(pushed, m)
      /\ UNCHANGED <<m_bSending, m_sendBuffers, handed, wire>>
  BY DEF PushMessage, Goto
<1>2. TypeOK'
  BY <1>1, AppendProperties DEF TypeOK
<1>3. LockInv'
  BY <1>1, SendAssumption DEF LockInv, TypeOK, SendAssumption
<1>4. OneSender'
  BY <1>1 DEF OneSender, IsSender, TypeOK
<1>5. InFlight' = InFlight
  <2>1. \A u \in Threads : pc'[u] = "send" <=> pc[u] = "send"
    BY <1>1 DEF TypeOK
  <2> QED
    BY <1>1, <2>1, InFlightSame
<1>6. NothingLostOrReordered'
  <2>1. handed \o InFlight \in Seq(Messages)
    BY InFlightType, ConcatProperties DEF TypeOK
  <2>2. m_sendQueue \in Seq(Messages)
    BY DEF TypeOK
  <2>3. /\ <<m>> \in Seq(Messages)
        /\ pushed' = pushed \o <<m>>
        /\ m_sendQueue' = m_sendQueue \o <<m>>
    BY <1>1, AppendIsConcat DEF TypeOK
  <2>4. (handed \o InFlight \o m_sendQueue) \o <<m>>
          = (handed \o InFlight) \o (m_sendQueue \o <<m>>)
    BY <2>1, <2>2, <2>3, ConcatAssociative
  <2> QED
    BY <1>1, <1>5, <2>3, <2>4 DEF NothingLostOrReordered
<1> QED
  BY <1>2, <1>3, <1>4, <1>5, <1>6

\* The steps that touch neither a message nor a batch.
LEMMA FlagIInv ==
  ASSUME IInv, NEW t \in Threads,
         LeaveToSender(t) \/ BecomeSender(t) \/ ClearSending(t)
  PROVE  /\ IInv'
         /\ InFlight' = InFlight
         /\ UNCHANGED <<m_sendQueue, pushed, handed, wire>>
<1> USE DEF IInv
<1>1. UNCHANGED <<m_sendQueue, m_sendBuffers, pushed, handed, wire>>
  BY DEF LeaveToSender, BecomeSender, ClearSending
<1>2. TypeOK'
  <2>1. CASE LeaveToSender(t)
    BY <2>1 DEF LeaveToSender, Goto, TypeOK
  <2>2. CASE BecomeSender(t)
    BY <2>2 DEF BecomeSender, Goto, TypeOK
  <2>3. CASE ClearSending(t)
    BY <2>3 DEF ClearSending, Goto, TypeOK
  <2> QED
    BY <2>1, <2>2, <2>3
<1>3. LockInv'
  BY SendAssumption
     DEF LeaveToSender, BecomeSender, ClearSending, Goto, LockInv, TypeOK, SendAssumption
<1>4. OneSender'
  <2>1. CASE LeaveToSender(t)
    BY <2>1 DEF LeaveToSender, Goto, OneSender, IsSender, TypeOK
  <2>2. CASE BecomeSender(t)
    BY <2>2 DEF BecomeSender, Goto, OneSender, IsSender, TypeOK
  <2>3. CASE ClearSending(t)
    BY <2>3 DEF ClearSending, Goto, OneSender, IsSender, TypeOK
  <2> QED
    BY <2>1, <2>2, <2>3
<1>5. InFlight' = InFlight
  <2>1. \A u \in Threads : pc'[u] = "send" <=> pc[u] = "send"
    BY DEF LeaveToSender, BecomeSender, ClearSending, Goto, TypeOK
  <2> QED
    BY <1>1, <2>1, InFlightSame
<1>6. NothingLostOrReordered'
  BY <1>1, <1>5 DEF NothingLostOrReordered
<1> QED
  BY <1>1, <1>2, <1>3, <1>4, <1>5, <1>6

LEMMA DrainIInv ==
  ASSUME IInv, NEW t \in Threads, DrainQueue(t)
  PROVE  IInv'
<1> USE DEF IInv
<1>1. /\ pc[t] = "drain" /\ pc' = [pc EXCEPT ![t] = "send"]
      /\ m_sendBuffers' = [m_sendBuffers EXCEPT ![t] = m_sendQueue]
      /\ m_sendQueue' = <<>> /\ m_sendLock' = NoThread
      /\ UNCHANGED <<m_bSending, pushed, handed, wire>>
  BY DEF DrainQueue, Goto
<1>2. TypeOK'
  BY <1>1, EmptySeq DEF TypeOK
<1>3. LockInv'
  BY <1>1, SendAssumption DEF LockInv, TypeOK, SendAssumption
<1>4. OneSender'
  BY <1>1 DEF OneSender, IsSender, TypeOK
<1>5. NothingLostOrReordered'
  <2>1. InFlight = <<>> /\ InFlight' = m_sendQueue
    BY DrainInFlight
  <2>2. pushed = handed \o m_sendQueue
    BY <2>1, ConcatEmptySeq DEF NothingLostOrReordered, TypeOK
  <2>3. handed \o m_sendQueue \in Seq(Messages)
    BY ConcatProperties DEF TypeOK
  <2> QED
    BY <1>1, <2>1, <2>2, <2>3, ConcatEmptySeq DEF NothingLostOrReordered
<1> QED
  BY <1>2, <1>3, <1>4, <1>5

LEMMA SendIInv ==
  ASSUME IInv, NEW t \in Threads, WSASend(t) \/ WSASendFails(t)
  PROVE  IInv'
<1> USE DEF IInv
<1>1. /\ pc[t] = "send" /\ pc' = [pc EXCEPT ![t] = "clear"]
      /\ handed' = handed \o m_sendBuffers[t]
      /\ m_sendBuffers' = [m_sendBuffers EXCEPT ![t] = <<>>]
      /\ wire' \in {wire, wire \o m_sendBuffers[t]}
      /\ UNCHANGED <<m_sendLock, m_sendQueue, m_bSending, pushed>>
  BY DEF WSASend, WSASendFails, Goto
<1>2. m_sendBuffers[t] \in Seq(Messages)
  BY DEF TypeOK
<1>3. handed' \in Seq(Messages) /\ wire' \in Seq(Messages)
  <2>1. /\ handed \in Seq(Messages) /\ handed \o m_sendBuffers[t] \in Seq(Messages)
        /\ wire \in Seq(Messages) /\ wire \o m_sendBuffers[t] \in Seq(Messages)
    BY <1>2, ConcatProperties DEF TypeOK
  <2> QED
    BY <1>1, <2>1
<1>4. TypeOK'
  BY <1>1, <1>3, EmptySeq DEF TypeOK
<1>5. LockInv'
  BY <1>1 DEF LockInv, TypeOK
<1>6. OneSender'
  BY <1>1 DEF OneSender, IsSender, TypeOK
<1>7. NothingLostOrReordered'
  <2>1. InFlight = m_sendBuffers[t] /\ InFlight' = <<>>
    BY SendInFlight
  <2>2. handed' \o InFlight' = handed \o InFlight
    BY <1>1, <1>3, <2>1, ConcatEmptySeq
  <2> QED
    BY <1>1, <2>2 DEF NothingLostOrReordered
<1> QED
  BY <1>4, <1>5, <1>6, <1>7

LEMMA StutterIInv ==
  ASSUME IInv, UNCHANGED vars
  PROVE  IInv' /\ InFlight' = InFlight
  BY DEF vars, IInv, TypeOK, LockInv, OneSender, IsSender,
         NothingLostOrReordered, InFlight

\* IInv is inductive.
THEOREM Inductive == Spec => []IInv
<1>1. IInv /\ [Next]_vars => IInv'
  BY PushIInv, FlagIInv, DrainIInv, SendIInv, StutterIInv DEF Next, Continue
<1> QED
  BY <1>1, InitIInv, PTL DEF Spec

\* Every variable keeps its type.
THEOREM TypeCorrect == Spec => []TypeOK
  BY Inductive, PTL DEF IInv

\* At most one thread is between the exchange of m_bSending and its reset.
THEOREM OneSenderHolds == Spec => []OneSender
  BY Inductive, PTL DEF IInv

\* No interleaving of callers loses, repeats or reorders a queued message.
THEOREM NothingLost == Spec => []NothingLostOrReordered
  BY Inductive, PTL DEF IInv

-----------------------------------------------------------------------------
(* The refinement *)

\* WSASend settles the whole batch in hand, which is a prefix of pending; an
\* empty batch would be a stutter.
LEMMA SendRefines ==
  ASSUME IInv, NEW t \in Threads, WSASend(t) \/ WSASendFails(t)
  PROVE  [Channel!Next]_(Channel!chanVars)
<1> DEFINE b == m_sendBuffers[t]
           n == Len(m_sendBuffers[t])
           pending == InFlight \o m_sendQueue
<1>1. b \in Seq(Messages) /\ n \in Nat /\ m_sendQueue \in Seq(Messages) /\ wire \in Seq(Messages)
  BY LenProperties DEF IInv, TypeOK
<1>2. InFlight = b /\ InFlight' = <<>> /\ m_sendQueue' = m_sendQueue /\ pushed' = pushed
  BY SendInFlight DEF IInv, WSASend, WSASendFails
<1>3. pending' = m_sendQueue
  BY <1>1, <1>2, ConcatEmptySeq
<1>4. SubSeq(pending, 1, n) = b /\ SubSeq(pending, n + 1, Len(pending)) = m_sendQueue
  BY <1>1, <1>2, CutPrefix
<1>5. wire' = wire \o b \/ wire' = wire
  BY DEF WSASend, WSASendFails
<1>6. n \in 0 .. Len(pending)
  BY <1>1, <1>2, ConcatProperties, LenProperties
<1>7. CASE n = 0
  <2>1. b = <<>>
    BY <1>1, <1>7, EmptySeq
  <2>2. pending' = pending /\ wire' = wire
    BY <1>1, <1>2, <1>3, <1>5, <2>1, ConcatEmptySeq
  <2> QED
    BY <1>2, <2>2 DEF Channel!chanVars
<1>8. CASE n # 0
  <2>1. n \in 1 .. Len(pending)
    BY <1>1, <1>6, <1>8
  <2>2. Channel!Settle(n)
    BY <1>2, <1>3, <1>4 DEF Channel!Settle
  <2>3. Channel!Transmit(n) \/ Channel!Refuse(n)
    BY <1>4, <1>5, <2>2 DEF Channel!Transmit, Channel!Refuse
  <2> QED
    BY <2>1, <2>3 DEF Channel!Next
<1> QED
  BY <1>7, <1>8

LEMMA StepRefines ==
  ASSUME IInv, [Next]_vars
  PROVE  [Channel!Next]_(Channel!chanVars)
<1>1. ASSUME NEW t \in Threads, NEW m \in Messages, PushMessage(t, m)
      PROVE  [Channel!Next]_(Channel!chanVars)
  <2>1. (InFlight \o m_sendQueue)' = Append(InFlight \o m_sendQueue, m)
    <3>1. InFlight' = InFlight /\ m_sendQueue' = Append(m_sendQueue, m)
      BY <1>1, PushIInv DEF PushMessage
    <3>2. InFlight \in Seq(Messages) /\ m_sendQueue \in Seq(Messages)
      BY InFlightType DEF IInv, TypeOK
    <3>3. /\ <<m>> \in Seq(Messages) /\ InFlight \o m_sendQueue \in Seq(Messages)
          /\ m_sendQueue' = m_sendQueue \o <<m>>
          /\ Append(InFlight \o m_sendQueue, m) = (InFlight \o m_sendQueue) \o <<m>>
      BY <3>1, <3>2, ConcatProperties, AppendIsConcat
    <3> QED
      BY <3>1, <3>2, <3>3, ConcatAssociative
  <2>2. Channel!Accept(m)
    BY <1>1, <2>1 DEF PushMessage, Channel!Accept
  <2> QED
    BY <2>2 DEF Channel!Next
<1>2. ASSUME NEW t \in Threads, LeaveToSender(t) \/ BecomeSender(t) \/ ClearSending(t)
      PROVE  [Channel!Next]_(Channel!chanVars)
  BY <1>2, FlagIInv DEF Channel!chanVars
<1>3. ASSUME NEW t \in Threads, DrainQueue(t)
      PROVE  [Channel!Next]_(Channel!chanVars)
  <2>1. InFlight \o m_sendQueue = m_sendQueue /\ (InFlight \o m_sendQueue)' = m_sendQueue
    BY <1>3, DrainInFlight, ConcatEmptySeq DEF DrainQueue, IInv, TypeOK
  <2> QED
    BY <1>3, <2>1 DEF DrainQueue, Channel!chanVars
<1>4. CASE UNCHANGED vars
  BY <1>4, StutterIInv DEF vars, Channel!chanVars
<1> QED
  BY <1>1, <1>2, <1>3, <1>4, SendRefines DEF Next, Continue

\* RequestSend implements the channel: drained batches are prefixes of what
\* was accepted, taken or refused by the socket as a whole and in order.
THEOREM Refinement == Spec => IsChannel
<1>1. Init => Channel!Init
  <2> SUFFICES ASSUME Init PROVE Channel!Init
    OBVIOUS
  <2>1. InFlight = <<>>
    BY DEF Init, InFlight
  <2>2. InFlight \o m_sendQueue = <<>>
    BY <2>1, EmptySeq, ConcatEmptySeq DEF Init
  <2> QED
    BY <2>2 DEF Init, Channel!Init
<1>2. IInv /\ [Next]_vars => [Channel!Next]_(Channel!chanVars)
  BY StepRefines
<1> QED
  BY <1>1, <1>2, Inductive, PTL DEF Spec, IsChannel, Channel!Spec

=============================================================================
