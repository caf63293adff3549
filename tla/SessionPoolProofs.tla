-------------------------- MODULE SessionPoolProofs --------------------------
(***************************************************************************)
(* Proofs about SessionPool for any number of sessions, IO threads and     *)
(* clients, whatever the system refuses: type correctness, the reference   *)
(* count of a session, that a session has one receiver, and that a free    *)
(* session is left alone.                                                  *)
(***************************************************************************)
EXTENDS SessionPool, SequenceTheorems, FiniteSetTheorems, TLAPS

Steps == [do : StepNames, s : Sessions]
Lists == Seq(Steps)

-----------------------------------------------------------------------------
(* Lists of steps *)

LEMMA StepType ==
  ASSUME NEW do \in StepNames, NEW s \in Sessions
  PROVE  /\ Step(do, s) \in Steps
         /\ Step(do, s).do = do /\ Step(do, s).s = s
BY DEF Step, Steps

LEMMA StepTypes ==
  ASSUME NEW s \in Sessions
  PROVE  /\ Step("AddRef", s) \in Steps /\ Step("Decrement", s) \in Steps
         /\ Step("IfDisconnected", s) \in Steps /\ Step("IfZero", s) \in Steps
         /\ Step("Connected", s) \in Steps /\ Step("Disconnected", s) \in Steps
         /\ Step("ZeroRef", s) \in Steps /\ Step("Count", s) \in Steps
         /\ Step("Lock", s) \in Steps /\ Step("Unlock", s) \in Steps
         /\ Step("PushPool", s) \in Steps /\ Step("IfConnected", s) \in Steps
         /\ Step("Brodcast", s) \in Steps /\ Step("RequestSend", s) \in Steps
         /\ \A io \in IoTypes : Step(io, s) \in Steps
BY StepType DEF StepNames

\* Lists of one step and of two.
LEMMA Single ==
  ASSUME NEW p \in Steps
  PROVE  <<p>> \in Lists /\ Len(<<p>>) = 1 /\ <<p>>[1] = p
BY DEF Lists

LEMMA Pair ==
  ASSUME NEW p \in Steps, NEW q \in Steps
  PROVE  <<p, q>> \in Lists /\ Len(<<p, q>>) = 2 /\ <<p, q>>[1] = p /\ <<p, q>>[2] = q
BY DEF Lists

\* A step is what its name and its session say.
\* l is a and then b.
Follows(l, a, b) ==
  /\ Len(l) = Len(a) + Len(b)
  /\ \A i \in 1 .. Len(a) : l[i] = a[i]
  /\ \A i \in 1 .. Len(b) : l[Len(a) + i] = b[i]

LEMMA Joined ==
  ASSUME NEW a \in Lists, NEW b \in Lists, NEW l, l = a \o b
  PROVE  l \in Lists /\ Follows(l, a, b)
<1>1. /\ l \in Lists /\ Len(l) = Len(a) + Len(b)
      /\ \A i \in 1 .. Len(a) + Len(b) : l[i] = IF i <= Len(a) THEN a[i] ELSE b[i - Len(a)]
  BY ConcatProperties DEF Lists
<1>2. PICK m \in Nat, n \in Nat : m = Len(a) /\ n = Len(b)
  BY LenProperties DEF Lists
<1>3. \A i \in 1 .. m : l[i] = a[i]
  BY <1>1, <1>2
<1>4. \A i \in 1 .. n : l[m + i] = b[i]
  BY <1>1, <1>2
<1> QED
  BY <1>1, <1>2, <1>3, <1>4 DEF Follows

\* Its elements, for the lengths that are needed.
LEMMA Parts12 ==
  ASSUME NEW a, NEW b, NEW l, Len(a) = 1, Len(b) = 2, Follows(l, a, b)
  PROVE  /\ Len(l) = 3
         /\ l[1] = a[1] /\ l[2] = b[1] /\ l[3] = b[2]
BY DEF Follows

LEMMA Parts21 ==
  ASSUME NEW a, NEW b, NEW l, Len(a) = 2, Len(b) = 1, Follows(l, a, b)
  PROVE  /\ Len(l) = 3
         /\ l[1] = a[1] /\ l[2] = a[2] /\ l[3] = b[1]
BY DEF Follows

LEMMA Parts22 ==
  ASSUME NEW a, NEW b, NEW l, Len(a) = 2, Len(b) = 2, Follows(l, a, b)
  PROVE  /\ Len(l) = 4
         /\ l[1] = a[1] /\ l[2] = a[2] /\ l[3] = b[1] /\ l[4] = b[2]
BY DEF Follows

LEMMA Parts32 ==
  ASSUME NEW a, NEW b, NEW l, Len(a) = 3, Len(b) = 2, Follows(l, a, b)
  PROVE  /\ Len(l) = 5
         /\ l[1] = a[1] /\ l[2] = a[2] /\ l[3] = a[3] /\ l[4] = b[1] /\ l[5] = b[2]
BY DEF Follows

LEMMA Parts42 ==
  ASSUME NEW a, NEW b, NEW l, Len(a) = 4, Len(b) = 2, Follows(l, a, b)
  PROVE  /\ Len(l) = 6
         /\ l[1] = a[1] /\ l[2] = a[2] /\ l[3] = a[3] /\ l[4] = a[4] /\ l[5] = b[1] /\ l[6] = b[2]
BY DEF Follows

\* The lists that the functions of the code are, step by step.
LEMMA ReleaseList ==
  ASSUME NEW s \in Sessions
  PROVE  /\ ReleaseRef(s) \in Lists /\ Len(ReleaseRef(s)) = 2
         /\ ReleaseRef(s)[1] = Step("Decrement", s)
         /\ ReleaseRef(s)[2] = Step("IfDisconnected", s)
BY Pair, StepTypes DEF ReleaseRef

LEMMA RequestList ==
  ASSUME NEW s \in Sessions, NEW io \in IoTypes
  PROVE  /\ Request(io, s) \in Lists /\ Len(Request(io, s)) = 2
         /\ Request(io, s)[1] = Step("AddRef", s)
         /\ Request(io, s)[2] = Step(io, s)
BY Pair, StepTypes DEF Request

LEMMA ReturnList ==
  ASSUME NEW s \in Sessions, NEW l, l = ReturnSession(s)
  PROVE  /\ l \in Lists /\ Len(l) = 5
         /\ l[1] = Step("Lock", s) /\ l[2] = Step("Disconnected", s)
         /\ l[3] = Step("ZeroRef", s) /\ l[4] = Step("PushPool", s)
         /\ l[5] = Step("Unlock", s)
<1> DEFINE a == <<Step("Lock", s)>>
           b == ResetSession(s)
           c == <<Step("PushPool", s), Step("Unlock", s)>>
           ab == a \o b
<1>1. /\ a \in Lists /\ Len(a) = 1
      /\ a[1] = Step("Lock", s)
  BY Single, StepTypes
<1>2. /\ b \in Lists /\ Len(b) = 2
      /\ b[1] = Step("Disconnected", s) /\ b[2] = Step("ZeroRef", s)
  BY Pair, StepTypes DEF ResetSession
<1>3. /\ c \in Lists /\ Len(c) = 2
      /\ c[1] = Step("PushPool", s) /\ c[2] = Step("Unlock", s)
  BY Pair, StepTypes
<1>4. l = ab \o c
  BY DEF ReturnSession
<1> HIDE DEF a, b, c
<1>5. ab \in Lists /\ Follows(ab, a, b)
  BY <1>1, <1>2, Joined, Zenon DEF ab
<1> HIDE DEF ab
<1>6. Len(ab) = 3 /\ ab[1] = a[1] /\ ab[2] = b[1] /\ ab[3] = b[2]
  BY <1>1, <1>2, <1>5, Parts12
<1>7. l \in Lists /\ Follows(l, ab, c)
  BY <1>3, <1>4, <1>5, Joined, Zenon
<1> QED
  BY <1>1, <1>2, <1>3, <1>6, <1>7, Parts32

LEMMA AcceptedList ==
  ASSUME NEW s \in Sessions, NEW l, l = Complete("ACCEPT", s)
  PROVE  /\ l \in Lists /\ Len(l) = 6
         /\ l[1] = Step("Connected", s) /\ l[2] = Step("Count", s)
         /\ l[3] = Step("AddRef", s) /\ l[4] = Step("RECV", s)
         /\ l[5] = Step("Decrement", s) /\ l[6] = Step("IfDisconnected", s)
<1> DEFINE a == <<Step("Connected", s), Step("Count", s)>>
           b == Request("RECV", s)
           c == ReleaseRef(s)
           ab == a \o b
<1>1. /\ a \in Lists /\ Len(a) = 2
      /\ a[1] = Step("Connected", s) /\ a[2] = Step("Count", s)
  BY Pair, StepTypes
<1>2. /\ b \in Lists /\ Len(b) = 2
      /\ b[1] = Step("AddRef", s) /\ b[2] = Step("RECV", s)
  BY RequestList DEF IoTypes
<1>3. /\ c \in Lists /\ Len(c) = 2
      /\ c[1] = Step("Decrement", s) /\ c[2] = Step("IfDisconnected", s)
  BY ReleaseList
<1>4. l = ab \o c
  BY DEF Complete, Process, ProcessAccept, RequestRecv
<1> HIDE DEF a, b, c
<1>5. ab \in Lists /\ Follows(ab, a, b)
  BY <1>1, <1>2, Joined, Zenon DEF ab
<1> HIDE DEF ab
<1>6. Len(ab) = 4 /\ ab[1] = a[1] /\ ab[2] = a[2] /\ ab[3] = b[1] /\ ab[4] = b[2]
  BY <1>1, <1>2, <1>5, Parts22
<1>7. l \in Lists /\ Follows(l, ab, c)
  BY <1>3, <1>4, <1>5, Joined, Zenon
<1> QED
  BY <1>1, <1>2, <1>3, <1>6, <1>7, Parts42

LEMMA ReceivedList ==
  ASSUME NEW s \in Sessions, NEW l, l = Complete("RECV", s)
  PROVE  /\ l \in Lists /\ Len(l) = 3
         /\ l[1] = Step("IfConnected", s) /\ l[2] = Step("Decrement", s)
         /\ l[3] = Step("IfDisconnected", s)
<1> DEFINE a == <<Step("IfConnected", s)>>
           b == ReleaseRef(s)
<1>1. /\ a \in Lists /\ Len(a) = 1
      /\ a[1] = Step("IfConnected", s)
  BY Single, StepTypes
<1>2. /\ b \in Lists /\ Len(b) = 2
      /\ b[1] = Step("Decrement", s) /\ b[2] = Step("IfDisconnected", s)
  BY ReleaseList
<1>3. l = a \o b
  BY DEF Complete, Process, ProcessRecv
<1> HIDE DEF a, b
<1>4. l \in Lists /\ Follows(l, a, b)
  BY <1>1, <1>2, <1>3, Joined, Zenon
<1> QED
  BY <1>1, <1>2, <1>4, Parts12

LEMMA SentList ==
  ASSUME NEW s \in Sessions
  PROVE  Complete("SEND", s) = ReleaseRef(s)
BY DEF Complete, Process, ReleaseRef

LEMMA DisconnectedList ==
  ASSUME NEW s \in Sessions, NEW l, l = Complete("DISCONNECT", s)
  PROVE  /\ l \in Lists /\ Len(l) = 5
         /\ l[1] = Step("Disconnected", s) /\ l[2] = Step("Disconnected", s)
         /\ l[3] = Step("ZeroRef", s) /\ l[4] = Step("Decrement", s)
         /\ l[5] = Step("IfDisconnected", s)
<1> DEFINE a == <<Step("Disconnected", s)>>
           b == ResetSession(s)
           c == ReleaseRef(s)
           ab == a \o b
<1>1. /\ a \in Lists /\ Len(a) = 1
      /\ a[1] = Step("Disconnected", s)
  BY Single, StepTypes
<1>2. /\ b \in Lists /\ Len(b) = 2
      /\ b[1] = Step("Disconnected", s) /\ b[2] = Step("ZeroRef", s)
  BY Pair, StepTypes DEF ResetSession
<1>3. /\ c \in Lists /\ Len(c) = 2
      /\ c[1] = Step("Decrement", s) /\ c[2] = Step("IfDisconnected", s)
  BY ReleaseList
<1>4. l = ab \o c
  BY DEF Complete, Process, ProcessDisconnect
<1> HIDE DEF a, b, c
<1>5. ab \in Lists /\ Follows(ab, a, b)
  BY <1>1, <1>2, Joined, Zenon DEF ab
<1> HIDE DEF ab
<1>6. Len(ab) = 3 /\ ab[1] = a[1] /\ ab[2] = b[1] /\ ab[3] = b[2]
  BY <1>1, <1>2, <1>5, Parts12
<1>7. l \in Lists /\ Follows(l, ab, c)
  BY <1>3, <1>4, <1>5, Joined, Zenon
<1> QED
  BY <1>1, <1>2, <1>3, <1>6, <1>7, Parts32

LEMMA AbandonList ==
  ASSUME NEW s \in Sessions, NEW l, l = Abandon(s)
  PROVE  /\ l \in Lists /\ Len(l) = 3
         /\ l[1] = Step("Disconnected", s) /\ l[2] = Step("AddRef", s)
         /\ l[3] = Step("DISCONNECT", s)
<1> DEFINE a == <<Step("Disconnected", s)>>
           b == Request("DISCONNECT", s)
<1>1. /\ a \in Lists /\ Len(a) = 1
      /\ a[1] = Step("Disconnected", s)
  BY Single, StepTypes
<1>2. /\ b \in Lists /\ Len(b) = 2
      /\ b[1] = Step("AddRef", s) /\ b[2] = Step("DISCONNECT", s)
  BY RequestList DEF IoTypes
<1>3. l = a \o b
  BY DEF Abandon, RequestDisconnect
<1> HIDE DEF a, b
<1>4. l \in Lists /\ Follows(l, a, b)
  BY <1>1, <1>2, <1>3, Joined, Zenon
<1> QED
  BY <1>1, <1>2, <1>4, Parts12

\* What AcceptSessions gives the main thread, and IfConnected an IO thread.
AcceptSteps(s) == RequestAccept(s) \o <<Step("Unlock", s)>>
HandleSteps(s, a) == a \o RequestRecv(s)

\* Rounds of Brodcast, and messages to s.
Sends(a, s) ==
  \A i \in 1 .. Len(a) : a[i].do = "Brodcast" \/ (a[i].do = "RequestSend" /\ a[i].s = s)

LEMMA AcceptingList ==
  ASSUME NEW s \in Sessions, NEW l, l = AcceptSteps(s)
  PROVE  /\ l \in Lists /\ Len(l) = 3
         /\ l[1] = Step("AddRef", s) /\ l[2] = Step("ACCEPT", s)
         /\ l[3] = Step("Unlock", s)
<1> DEFINE a == Request("ACCEPT", s)
           b == <<Step("Unlock", s)>>
<1>1. /\ a \in Lists /\ Len(a) = 2
      /\ a[1] = Step("AddRef", s) /\ a[2] = Step("ACCEPT", s)
  BY RequestList DEF IoTypes
<1>2. /\ b \in Lists /\ Len(b) = 1
      /\ b[1] = Step("Unlock", s)
  BY Single, StepTypes
<1>3. l = a \o b
  BY DEF RequestAccept, AcceptSteps
<1> HIDE DEF a, b
<1>4. l \in Lists /\ Follows(l, a, b)
  BY <1>1, <1>2, <1>3, Joined, Zenon
<1> QED
  BY <1>1, <1>2, <1>4, Parts21

LEMMA HandlingList ==
  ASSUME NEW s \in Sessions, NEW a \in Lists, Sends(a, s), NEW l, l = HandleSteps(s, a)
  PROVE  /\ l \in Lists
         /\ \E k \in Nat :
              /\ Len(l) = k + 2
              /\ \A i \in 1 .. k :
                   l[i].do = "Brodcast" \/ (l[i].do = "RequestSend" /\ l[i].s = s)
              /\ l[k + 1].do = "AddRef" /\ l[k + 1].s = s
              /\ l[k + 2].do = "RECV" /\ l[k + 2].s = s
<1> DEFINE b == Request("RECV", s)
<1>1. PICK k \in Nat : k = Len(a)
  BY LenProperties DEF Lists
<1>2. /\ b \in Lists /\ Len(b) = 2
      /\ b[1] = Step("AddRef", s) /\ b[2] = Step("RECV", s)
  BY RequestList DEF IoTypes
<1>3. l = a \o b
  BY DEF RequestRecv, HandleSteps
<1> HIDE DEF b
<1>4. l \in Lists /\ Follows(l, a, b)
  BY <1>2, <1>3, Joined, Zenon
<1>5. Len(l) = k + 2 /\ l[k + 1] = b[1] /\ l[k + 2] = b[2]
  BY <1>1, <1>2, <1>4 DEF Follows
<1>6. \A i \in 1 .. k : l[i] = a[i]
  BY <1>1, <1>4 DEF Follows
<1>7. \A i \in 1 .. k : l[i].do = "Brodcast" \/ (l[i].do = "RequestSend" /\ l[i].s = s)
  BY <1>1, <1>6 DEF Sends
<1>8. /\ l[k + 1].do = "AddRef" /\ l[k + 1].s = s
      /\ l[k + 2].do = "RECV" /\ l[k + 2].s = s
  BY <1>2, <1>5 DEF Step
<1> QED
  BY <1>4, <1>5, <1>7, <1>8

\* m_sessionVec has every session once.
LEMMA EverySession ==
  /\ m_sessionVec \in Seq(Sessions)
  /\ \A i, j \in 1 .. Len(m_sessionVec) : i # j => m_sessionVec[i] # m_sessionVec[j]
  /\ \A s \in Sessions : \E k \in 1 .. Len(m_sessionVec) : m_sessionVec[k] = s
<1>1. PICK h \in Nat : h = Cardinality(Sessions)
  BY PoolAssumption, FS_CardinalityType
<1>2. /\ m_sessionVec \in [1 .. h -> Sessions]
      /\ \A i, j \in 1 .. h : i # j => m_sessionVec[i] # m_sessionVec[j]
  BY <1>1, PoolAssumption DEF SetToSeqs
<1>3. m_sessionVec \in Seq(Sessions)
  BY <1>2, SeqDef
<1>4. Len(m_sessionVec) = h
  <2>1. Len(m_sessionVec) \in Nat /\ 1 .. Len(m_sessionVec) = 1 .. h
    BY <1>2, <1>3, LenProperties
  <2> QED
    BY <2>1
<1>5. m_sessionVec \in Injection(1 .. h, Sessions)
  BY <1>2 DEF Injection, IsInjective
<1>6. Cardinality(1 .. h) = Cardinality(Sessions)
  BY <1>1, FS_Interval
<1>7. m_sessionVec \in Surjection(1 .. h, Sessions)
  BY <1>5, <1>6, PoolAssumption, FS_Injection
<1>8. \A s \in Sessions : \E k \in 1 .. h : m_sessionVec[k] = s
  BY <1>7 DEF Surjection
<1> QED
  BY <1>2, <1>3, <1>4, <1>8

LEMMA BrodcastList ==
  ASSUME NEW q \in Seq(Sessions), NEW l, l = Brodcast(q)
  PROVE  l \in Lists /\ \A i \in 1 .. Len(l) : l[i].do = "Brodcast"
<1>1. PICK n \in Nat : n = Len(q)
  BY LenProperties
<1>2. DOMAIN q = 1 .. n /\ \A i \in 1 .. n : q[i] \in Sessions
  BY <1>1, LenProperties, ElementOfSeq
<1>3. l = [i \in 1 .. n |-> Step("Brodcast", q[i])]
  BY <1>2 DEF Brodcast
<1>4. \A i \in 1 .. n : Step("Brodcast", q[i]) \in Steps
  BY <1>2, StepTypes
<1>5. l \in [1 .. n -> Steps]
  BY <1>3, <1>4
<1>6. l \in Lists
  BY <1>5, SeqDef DEF Lists
<1>7. Len(l) = n
  <2>1. PICK m \in Nat : m = Len(l)
    BY <1>6, LenProperties DEF Lists
  <2>2. 1 .. m = 1 .. n
    BY <1>5, <1>6, <2>1, LenProperties DEF Lists
  <2> QED
    BY <2>1, <2>2
<1>8. \A i \in 1 .. n : l[i].do = "Brodcast"
  BY <1>3 DEF Step
<1> QED
  BY <1>6, <1>7, <1>8

LEMMA OtherSessionsVec ==
  ASSUME NEW s \in Sessions
  PROVE  AllBut(s) \in Seq(Sessions)
<1>1. PICK h \in Nat : h = Len(m_sessionVec)
  BY EverySession, LenProperties
<1>2. PICK k \in 1 .. h : k = CHOOSE i \in DOMAIN m_sessionVec : m_sessionVec[i] = s
  <2>1. DOMAIN m_sessionVec = 1 .. h
    BY <1>1, EverySession, LenProperties
  <2>2. \E i \in DOMAIN m_sessionVec : m_sessionVec[i] = s
    BY <1>1, <2>1, EverySession
  <2>3. (CHOOSE i \in DOMAIN m_sessionVec : m_sessionVec[i] = s) \in DOMAIN m_sessionVec
    BY <2>2
  <2> QED
    BY <2>1, <2>3
<1>3. \A i \in 1 .. h : m_sessionVec[i] \in Sessions
  BY <1>1, EverySession, ElementOfSeq
<1>4. SubSeq(m_sessionVec, 1, k - 1) \in Seq(Sessions)
  BY <1>1, <1>3, EverySession, SubSeqProperties
<1>5. SubSeq(m_sessionVec, k + 1, h) \in Seq(Sessions)
  BY <1>1, <1>3, EverySession, SubSeqProperties
<1>6. AllBut(s) = SubSeq(m_sessionVec, 1, k - 1) \o SubSeq(m_sessionVec, k + 1, h)
  BY <1>1, <1>2 DEF AllBut, RemoveAt
<1> QED
  BY <1>4, <1>5, <1>6, ConcatProperties

\* What the handlers of s send.
LEMMA AnswersSend ==
  ASSUME NEW s \in Sessions, NEW a \in Answers(s)
  PROVE  a \in Lists /\ Sends(a, s)
<1> DEFINE own == Step("RequestSend", s)
           b == Brodcast(AllBut(s))
<1>1. own \in Steps /\ own.do = "RequestSend" /\ own.s = s
  BY StepTypes DEF Step
<1>2. b \in Lists /\ \A i \in 1 .. Len(b) : b[i].do = "Brodcast"
  BY OtherSessionsVec, BrodcastList
<1>3. a \in {<<>>, <<own>>, b, b \o <<own, own>>, Brodcast(m_sessionVec)}
  BY DEF Answers
<1> HIDE DEF own, b
<1>4. CASE a = <<>>
  BY <1>4 DEF Lists, Sends
<1>5. CASE a = <<own>>
  <2>1. a \in Lists /\ Len(a) = 1 /\ a[1] = own
    BY <1>1, <1>5, Single
  <2>2. \A i \in 1 .. 1 : i = 1
    OBVIOUS
  <2> QED
    BY <1>1, <2>1, <2>2 DEF Sends
<1>6. CASE a = b
  BY <1>2, <1>6 DEF Sends
<1>7. CASE a = b \o <<own, own>>
  <2>1. PICK c \in Lists : c = <<own, own>> /\ Len(c) = 2 /\ c[1] = own /\ c[2] = own
    BY <1>1, Pair
  <2>2. a = b \o c
    BY <1>7, <2>1, Zenon
  <2>3. a \in Lists /\ Follows(a, b, c)
    BY <1>2, <2>2, Joined, Zenon
  <2>4. PICK k \in Nat : k = Len(b)
    BY <1>2, LenProperties DEF Lists
  <2>5. Len(a) = k + 2 /\ a[k + 1] = own /\ a[k + 2] = own
    BY <2>1, <2>3, <2>4 DEF Follows
  <2>6. \A i \in 1 .. k : a[i].do = "Brodcast"
    BY <1>2, <2>3, <2>4 DEF Follows
  <2>7. \A i \in 1 .. k + 2 : i \in 1 .. k \/ i = k + 1 \/ i = k + 2
    OBVIOUS
  <2>8. Sends(a, s)
    BY <1>1, <2>5, <2>6, <2>7 DEF Sends
  <2> QED
    BY <2>3, <2>8
<1>8. CASE a = Brodcast(m_sessionVec)
  BY <1>8, EverySession, BrodcastList DEF Sends
<1> QED
  BY <1>3, <1>4, <1>5, <1>6, <1>7, <1>8

-----------------------------------------------------------------------------
(* One list: what a step makes of it, and what it owes *)

\* The n-th step from the end of a list: its place stays while others are done.
At(l, n) == l[Len(l) + 1 - n]

\* r is what l becomes when its first step is done and f comes before the rest.
Shifted(l, f, r) ==
  /\ l \in Lists /\ f \in Lists /\ r \in Lists
  /\ Len(l) > 0 /\ Len(r) = Len(l) - 1 + Len(f)
  /\ \A n \in 1 .. Len(l) - 1 : At(r, n) = At(l, n)
  /\ \A n \in Len(l) .. Len(r) : At(r, n) = f[Len(r) + 1 - n]

LEMMA Shift ==
  ASSUME NEW l \in Lists, l # <<>>, NEW f \in Lists, NEW r, r = f \o Tail(l)
  PROVE  Shifted(l, f, r) /\ At(l, Len(l)) = Head(l)
<1> DEFINE q == Tail(l)
<1>1. PICK h \in Nat, k \in Nat : h = Len(l) /\ k = Len(f)
  BY LenProperties DEF Lists
<1>2. h > 0 /\ Head(l) = l[1] /\ At(l, h) = l[1]
  BY <1>1, EmptySeq DEF Lists, At
<1>3. q \in Lists /\ Len(q) = h - 1 /\ \A i \in 1 .. h - 1 : q[i] = l[i + 1]
  BY <1>1, HeadTailProperties DEF Lists
<1>4. r = f \o q
  OBVIOUS
<1> HIDE DEF q
<1>5. r \in Lists /\ Follows(r, f, q)
  BY <1>3, <1>4, Joined, Zenon
<1>6. Len(r) = h - 1 + k
  BY <1>1, <1>3, <1>5 DEF Follows
<1>7. \A n \in 1 .. h - 1 : At(r, n) = At(l, n)
  <2> TAKE n \in 1 .. h - 1
  <2>1. At(r, n) = r[k + (h - n)] /\ At(l, n) = l[(h - n) + 1]
    BY <1>1, <1>6 DEF At
  <2>2. h - n \in 1 .. h - 1
    OBVIOUS
  <2>3. r[k + (h - n)] = q[h - n] /\ q[h - n] = l[(h - n) + 1]
    BY <1>1, <1>3, <1>5, <2>2 DEF Follows
  <2> QED
    BY <2>1, <2>3
<1>8. \A n \in h .. Len(r) : At(r, n) = f[Len(r) + 1 - n]
  <2> TAKE n \in h .. Len(r)
  <2>1. Len(r) + 1 - n \in 1 .. k
    BY <1>6
  <2> QED
    BY <1>1, <1>5, <2>1 DEF Follows, At
<1> QED
  BY <1>1, <1>2, <1>5, <1>6, <1>7, <1>8 DEF Shifted

LEMMA AtType ==
  ASSUME NEW l \in Lists, NEW n \in 1 .. Len(l)
  PROVE  At(l, n) \in Steps
BY DEF At, Lists

\* An operation is started right after its reference was counted.
Paired(l) ==
  \A n \in 1 .. Len(l) :
    /\ At(l, n).do \in IoTypes /\ n < Len(l) =>
         At(l, n + 1).do = "AddRef" /\ At(l, n + 1).s = At(l, n).s
    /\ At(l, n).do = "AddRef" =>
         n > 1 /\ At(l, n - 1).do \in IoTypes /\ At(l, n - 1).s = At(l, n).s

\* The same of steps that are put first, which also release nothing.
Quiet(f) ==
  \A i \in 1 .. Len(f) :
    /\ f[i].do # "Decrement"
    /\ f[i].do \in IoTypes => i > 1 /\ f[i - 1].do = "AddRef" /\ f[i - 1].s = f[i].s
    /\ f[i].do = "AddRef" =>
         i < Len(f) /\ f[i + 1].do \in IoTypes /\ f[i + 1].s = f[i].s

\* The references to s that the list l owes.
Owes(l, s) ==
  {n \in 1 .. Len(l) :
     /\ At(l, n).s = s
     /\ \/ At(l, n).do = "Decrement"
        \/ n = Len(l) /\ At(l, n).do \in IoTypes}

LEMMA QuietStep ==
  ASSUME NEW l, NEW f, NEW r, Shifted(l, f, r), Paired(l), Quiet(f),
         At(l, Len(l)).do \notin IoTypes \cup {"AddRef", "Decrement"}
  PROVE  Paired(r) /\ \A s \in Sessions : Owes(r, s) = Owes(l, s)
<1>1. PICK h \in Nat, k \in Nat : h = Len(l) /\ k = Len(f) /\ h > 0 /\ Len(r) = h - 1 + k
  BY LenProperties DEF Lists, Shifted
<1>2. /\ \A n \in 1 .. h - 1 : At(r, n) = At(l, n)
      /\ \A n \in h .. h - 1 + k : At(r, n) = f[h + k - n]
  <2>1. \A n \in h .. h - 1 + k : At(r, n) = f[(h - 1 + k) + 1 - n]
    BY <1>1 DEF Shifted
  <2> QED
    BY <1>1, <2>1 DEF Shifted
<1>3. \A n \in 1 .. h - 1 + k :
        /\ At(r, n).do \in IoTypes /\ n < h - 1 + k =>
             At(r, n + 1).do = "AddRef" /\ At(r, n + 1).s = At(r, n).s
        /\ At(r, n).do = "AddRef" =>
             n > 1 /\ At(r, n - 1).do \in IoTypes /\ At(r, n - 1).s = At(r, n).s
  <2> TAKE n \in 1 .. h - 1 + k
  <2>1. CASE n < h
    <3>1. /\ At(l, n).do \in IoTypes =>
               At(l, n + 1).do = "AddRef" /\ At(l, n + 1).s = At(l, n).s
          /\ At(l, n).do = "AddRef" =>
               n > 1 /\ At(l, n - 1).do \in IoTypes /\ At(l, n - 1).s = At(l, n).s
      BY <1>1, <2>1 DEF Paired
    <3>2. At(r, n) = At(l, n) /\ (n > 1 => At(r, n - 1) = At(l, n - 1))
          /\ (n + 1 < h => At(r, n + 1) = At(l, n + 1))
      BY <1>2, <2>1
    <3>3. CASE n + 1 < h
      BY <3>1, <3>2, <3>3
    <3>4. CASE n + 1 = h
      BY <1>1, <3>1, <3>2, <3>4
    <3> QED
      BY <2>1, <3>3, <3>4
  <2>2. CASE n >= h
    <3>1. PICK i \in 1 .. k : i = h + k - n
      BY <2>2
    <3>2. At(r, n) = f[i]
      BY <1>2, <2>2, <3>1
    <3>3. i > 1 => At(r, n + 1) = f[i - 1]
      <4>1. i > 1 => n + 1 \in h .. h - 1 + k /\ h + k - (n + 1) = i - 1
        BY <2>2, <3>1
      <4> QED
        BY <1>2, <4>1
    <3>4. i < k => n - 1 >= h /\ n > 1 /\ At(r, n - 1) = f[i + 1]
      <4>1. i < k => n - 1 \in h .. h - 1 + k /\ h + k - (n - 1) = i + 1
        BY <2>2, <3>1, <1>1
      <4> QED
        BY <1>1, <1>2, <4>1
    <3>5. /\ f[i].do \in IoTypes => i > 1 /\ f[i - 1].do = "AddRef" /\ f[i - 1].s = f[i].s
          /\ f[i].do = "AddRef" =>
               i < k /\ f[i + 1].do \in IoTypes /\ f[i + 1].s = f[i].s
      BY <1>1 DEF Quiet
    <3> QED
      BY <3>2, <3>3, <3>4, <3>5
  <2> QED
    BY <2>1, <2>2
<1>4. ASSUME NEW s \in Sessions, NEW n \in 1 .. h - 1 + k, n >= h
      PROVE  n \notin Owes(r, s)
  <2>1. PICK i \in 1 .. k : i = h + k - n
    BY <1>4
  <2>2. At(r, n) = f[i]
    BY <1>2, <1>4, <2>1
  <2>3. /\ f[i].do # "Decrement" 
        /\ f[i].do \in IoTypes => i > 1
    BY <1>1 DEF Quiet
  <2>4. i > 1 => n # h - 1 + k
    BY <2>1
  <2> QED
    BY <1>1, <2>2, <2>3, <2>4 DEF Owes
<1>5. ASSUME NEW s \in Sessions, NEW n \in 1 .. h - 1
      PROVE  n \in Owes(r, s) <=> n \in Owes(l, s)
  <2>1. At(r, n) = At(l, n) /\ n # h /\ n \in 1 .. h /\ n \in 1 .. h - 1 + k
    BY <1>1, <1>2
  <2>2. n = h - 1 + k => At(l, n).do \notin IoTypes
    <3> SUFFICES ASSUME n = h - 1 + k PROVE At(l, n).do \notin IoTypes
      OBVIOUS
    <3>1. n + 1 = h
      OBVIOUS
    <3>2. At(l, n).do \in IoTypes => At(l, n + 1).do = "AddRef"
      BY <1>1, <2>1 DEF Paired
    <3> QED
      BY <1>1, <3>1, <3>2
  <2> QED
    BY <1>1, <2>1, <2>2 DEF Owes
<1>6. ASSUME NEW s \in Sessions
      PROVE  h \notin Owes(l, s)
  BY <1>1 DEF Owes
<1>7. ASSUME NEW s \in Sessions
      PROVE  Owes(r, s) = Owes(l, s)
  <2>1. Owes(r, s) \subseteq 1 .. h - 1 + k /\ Owes(l, s) \subseteq 1 .. h
    BY <1>1 DEF Owes
  <2>2. Owes(r, s) \subseteq 1 .. h - 1 /\ Owes(l, s) \subseteq 1 .. h - 1
    BY <1>4, <1>6, <2>1
  <2> QED
    BY <1>5, <2>2
<1> QED
  BY <1>1, <1>3, <1>7 DEF Paired

\* The first step is done and nothing comes before the rest.
LEMMA Popped ==
  ASSUME NEW l, NEW r, Shifted(l, <<>>, r), Paired(l)
  PROVE  \E h \in Nat \ {0} :
           /\ Len(l) = h /\ Len(r) = h - 1
           /\ \A n \in 1 .. h - 1 : At(r, n) = At(l, n)
           /\ h > 1 => (At(l, h - 1).do \in IoTypes <=> At(l, h).do = "AddRef")
           /\ h > 1 /\ At(l, h).do = "AddRef" => At(l, h - 1).s = At(l, h).s
           /\ At(l, h).do = "AddRef" => h > 1
           /\ Paired(r)
<1>1. PICK h \in Nat : h = Len(l) /\ h > 0 /\ Len(r) = h - 1
  BY LenProperties DEF Lists, Shifted
<1>2. \A n \in 1 .. h - 1 : At(r, n) = At(l, n)
  BY <1>1 DEF Shifted
<1>3. \A n \in 1 .. h :
        /\ At(l, n).do \in IoTypes /\ n < h =>
             At(l, n + 1).do = "AddRef" /\ At(l, n + 1).s = At(l, n).s
        /\ At(l, n).do = "AddRef" =>
             n > 1 /\ At(l, n - 1).do \in IoTypes /\ At(l, n - 1).s = At(l, n).s
  BY <1>1 DEF Paired
<1>4. h > 1 => (h - 1) + 1 = h /\ h - 1 \in 1 .. h /\ h - 1 < h
  BY <1>1
<1>5. h > 1 => (At(l, h - 1).do \in IoTypes => At(l, h).do = "AddRef")
  BY <1>3, <1>4
<1>6. At(l, h).do = "AddRef" =>
        h > 1 /\ At(l, h - 1).do \in IoTypes /\ At(l, h - 1).s = At(l, h).s
  BY <1>1, <1>3
<1>7. \A n \in 1 .. h - 1 :
        /\ At(r, n).do \in IoTypes /\ n < h - 1 =>
             At(r, n + 1).do = "AddRef" /\ At(r, n + 1).s = At(r, n).s
        /\ At(r, n).do = "AddRef" =>
             n > 1 /\ At(r, n - 1).do \in IoTypes /\ At(r, n - 1).s = At(r, n).s
  <2> TAKE n \in 1 .. h - 1
  <2>1. At(r, n) = At(l, n) /\ (n < h - 1 => At(r, n + 1) = At(l, n + 1))
        /\ (n > 1 => At(r, n - 1) = At(l, n - 1))
    BY <1>2
  <2> QED
    BY <1>3, <2>1
<1>8. Paired(r)
  BY <1>1, <1>7 DEF Paired
<1> QED
  BY <1>1, <1>2, <1>5, <1>6, <1>8

\* The reference that was counted is the one the operation will take.
LEMMA AddRefStep ==
  ASSUME NEW l, NEW r, Shifted(l, <<>>, r), Paired(l), NEW s \in Sessions,
         At(l, Len(l)).do = "AddRef", At(l, Len(l)).s = s
  PROVE  /\ Paired(r)
         /\ \E n \in Nat : n \notin Owes(l, s) /\ Owes(r, s) = Owes(l, s) \cup {n}
         /\ \A q \in Sessions \ {s} : Owes(r, q) = Owes(l, q)
<1>1. PICK h \in Nat \ {0} :
           /\ Len(l) = h /\ Len(r) = h - 1
           /\ \A n \in 1 .. h - 1 : At(r, n) = At(l, n)
           /\ h > 1 => (At(l, h - 1).do \in IoTypes <=> At(l, h).do = "AddRef")
           /\ h > 1 /\ At(l, h).do = "AddRef" => At(l, h - 1).s = At(l, h).s
           /\ At(l, h).do = "AddRef" => h > 1
           /\ Paired(r)
  BY Popped
<1>2. /\ h > 1 /\ h - 1 \in 1 .. h - 1
      /\ At(l, h - 1).do \in IoTypes /\ At(l, h - 1).s = s
  BY <1>1
<1>3. /\ \A n \in 1 .. h - 1, q \in Sessions :
           n \in Owes(r, q) <=> n \in Owes(l, q) \/ (n = h - 1 /\ q = s)
      /\ \A q \in Sessions : Owes(r, q) \subseteq 1 .. h - 1
  <2>1. \A n \in 1 .. h - 1, q \in Sessions :
           n \in Owes(r, q) <=> n \in Owes(l, q) \/ (n = h - 1 /\ q = s)
    <3> TAKE n \in 1 .. h - 1, q \in Sessions
    <3>1. n \in Owes(r, q) <=> At(l, n).s = q /\ (At(l, n).do = "Decrement"
                                 \/ (n = h - 1 /\ At(l, n).do \in IoTypes))
      BY <1>1 DEF Owes
    <3>2. n \in Owes(l, q) <=> At(l, n).s = q /\ At(l, n).do = "Decrement"
      BY <1>1 DEF Owes
    <3> QED
      BY <1>2, <3>1, <3>2
  <2> QED
    BY <1>1, <2>1 DEF Owes
<1>4. \A q \in Sessions : Owes(l, q) \subseteq 1 .. h - 1
  <2> TAKE q \in Sessions
  <2>1. Owes(l, q) \subseteq 1 .. h /\ h \notin Owes(l, q)
    BY <1>1 DEF Owes, IoTypes
  <2> QED
    BY <2>1
<1>5. h - 1 \notin Owes(l, s)
  BY <1>1, <1>2 DEF Owes, IoTypes
<1>6. Owes(r, s) = Owes(l, s) \cup {h - 1}
  BY <1>2, <1>3, <1>4
<1>7. \A q \in Sessions \ {s} : Owes(r, q) = Owes(l, q)
  BY <1>3, <1>4
<1> QED
  BY <1>1, <1>2, <1>5, <1>6, <1>7

\* An operation was started, or a reference released.
LEMMA PaidStep ==
  ASSUME NEW l, NEW r, Shifted(l, <<>>, r), Paired(l), NEW s \in Sessions,
         At(l, Len(l)).do \in IoTypes \cup {"Decrement"}, At(l, Len(l)).s = s
  PROVE  /\ Paired(r)
         /\ \E n \in Owes(l, s) : Owes(r, s) = Owes(l, s) \ {n}
         /\ \A q \in Sessions \ {s} : Owes(r, q) = Owes(l, q)
<1>1. PICK h \in Nat \ {0} :
           /\ Len(l) = h /\ Len(r) = h - 1
           /\ \A n \in 1 .. h - 1 : At(r, n) = At(l, n)
           /\ h > 1 => (At(l, h - 1).do \in IoTypes <=> At(l, h).do = "AddRef")
           /\ h > 1 /\ At(l, h).do = "AddRef" => At(l, h - 1).s = At(l, h).s
           /\ At(l, h).do = "AddRef" => h > 1
           /\ Paired(r)
  BY Popped
<1>2. h > 1 => At(l, h - 1).do \notin IoTypes
  BY <1>1 DEF IoTypes
<1>3. \A n \in 1 .. h - 1, q \in Sessions : n \in Owes(r, q) <=> n \in Owes(l, q)
  <2> TAKE n \in 1 .. h - 1, q \in Sessions
  <2>1. n \in Owes(r, q) <=> At(l, n).s = q /\ (At(l, n).do = "Decrement"
                               \/ (n = h - 1 /\ At(l, n).do \in IoTypes))
    BY <1>1 DEF Owes
  <2>2. n \in Owes(l, q) <=> At(l, n).s = q /\ At(l, n).do = "Decrement"
    BY <1>1 DEF Owes
  <2> QED
    BY <1>2, <2>1, <2>2
<1>4. \A q \in Sessions : Owes(r, q) \subseteq 1 .. h - 1 /\ Owes(l, q) \subseteq 1 .. h
  BY <1>1 DEF Owes
<1>5. h \in Owes(l, s) /\ \A q \in Sessions \ {s} : h \notin Owes(l, q)
  BY <1>1 DEF Owes
<1>6. Owes(r, s) = Owes(l, s) \ {h}
  BY <1>3, <1>4
<1>7. \A q \in Sessions \ {s} : Owes(r, q) = Owes(l, q)
  <2> TAKE q \in Sessions \ {s}
  <2>1. Owes(r, q) \subseteq 1 .. h - 1 /\ Owes(l, q) \subseteq 1 .. h - 1
    BY <1>4, <1>5
  <2> QED
    BY <1>3, <2>1
<1> QED
  BY <1>1, <1>5, <1>6, <1>7

\* One element of A has another place in B.
Moved(A, B) == \E n \in A : \E m \in Nat \ A : B = (A \ {n}) \cup {m}

\* Nothing is owed otherwise to the other sessions.
OwesElse(l, r, s) == \A q \in Sessions \ {s} : Owes(r, q) = Owes(l, q)

\* An operation was refused: the reference it would have taken is released.
LEMMA RefusedStep ==
  ASSUME NEW l, NEW f, NEW r, Shifted(l, f, r), Paired(l),
         NEW s \in Sessions, f = ReleaseRef(s),
         At(l, Len(l)).do \in IoTypes, At(l, Len(l)).s = s
  PROVE  /\ Paired(r)
         /\ Moved(Owes(l, s), Owes(r, s))
         /\ OwesElse(l, r, s)
<1>1. Len(f) = 2 /\ f[1] = Step("Decrement", s) /\ f[2] = Step("IfDisconnected", s)
  BY ReleaseList
<1>2. /\ f[1].do = "Decrement" /\ f[1].s = s
      /\ f[2].do = "IfDisconnected" /\ f[2].s = s
  BY <1>1 DEF Step
<1>3. PICK h \in Nat : h = Len(l) /\ h > 0 /\ Len(r) = h + 1
  <2>2. Len(l) \in Nat /\ Len(l) > 0 /\ Len(r) = Len(l) - 1 + 2
    BY <1>1, LenProperties DEF Lists, Shifted
  <2> QED
    BY <2>2
<1>4. /\ \A n \in 1 .. h - 1 : At(r, n) = At(l, n)
      /\ At(r, h) = f[2] /\ At(r, h + 1) = f[1]
  <2>2. \A n \in h .. h + 1 : At(r, n) = f[(h + 1) + 1 - n]
    BY <1>3 DEF Shifted
  <2>3. At(r, h) = f[(h + 1) + 1 - h] /\ At(r, h + 1) = f[(h + 1) + 1 - (h + 1)]
    BY <2>2
  <2>4. (h + 1) + 1 - h = 2 /\ (h + 1) + 1 - (h + 1) = 1
    OBVIOUS
  <2>5. \A n \in 1 .. h - 1 : At(r, n) = At(l, n)
    BY <1>3 DEF Shifted
  <2> QED
    BY <2>3, <2>4, <2>5
<1>5. \A n \in 1 .. h :
        /\ At(l, n).do \in IoTypes /\ n < h =>
             At(l, n + 1).do = "AddRef" /\ At(l, n + 1).s = At(l, n).s
        /\ At(l, n).do = "AddRef" =>
             n > 1 /\ At(l, n - 1).do \in IoTypes /\ At(l, n - 1).s = At(l, n).s
  BY <1>3 DEF Paired
<1>6. /\ At(l, h).do # "AddRef" /\ At(l, h).do # "Decrement"
      /\ At(l, h).do \in IoTypes /\ At(l, h).s = s
  BY <1>3 DEF IoTypes
<1>7. \A n \in 1 .. h + 1 :
        /\ At(r, n).do \in IoTypes /\ n < h + 1 =>
             At(r, n + 1).do = "AddRef" /\ At(r, n + 1).s = At(r, n).s
        /\ At(r, n).do = "AddRef" =>
             n > 1 /\ At(r, n - 1).do \in IoTypes /\ At(r, n - 1).s = At(r, n).s
  <2> TAKE n \in 1 .. h + 1
  <2>1. CASE n < h
    <3>1. At(r, n) = At(l, n) /\ (n + 1 < h => At(r, n + 1) = At(l, n + 1))
          /\ (n > 1 => At(r, n - 1) = At(l, n - 1))
      BY <1>4, <2>1
    <3>2. n + 1 = h => At(l, n).do \notin IoTypes
      BY <1>5, <1>6, <2>1
    <3> QED
      BY <1>5, <2>1, <3>1, <3>2
  <2>2. CASE n >= h
    BY <1>2, <1>4, <2>2 DEF IoTypes
  <2> QED
    BY <2>1, <2>2
<1>8. \A n \in 1 .. h - 1, q \in Sessions : n \in Owes(r, q) <=> n \in Owes(l, q)
  BY <1>3, <1>4 DEF Owes
<1>9. \A q \in Sessions : Owes(r, q) \subseteq 1 .. h + 1 /\ Owes(l, q) \subseteq 1 .. h
  BY <1>3 DEF Owes
<1>10. \A q \in Sessions : h \notin Owes(r, q)
  BY <1>2, <1>3, <1>4 DEF Owes
<1>11. /\ h + 1 \in Owes(r, s) /\ h + 1 \notin Owes(l, s)
       /\ \A q \in Sessions \ {s} : h + 1 \notin Owes(r, q)
  BY <1>2, <1>3, <1>4, <1>9 DEF Owes, IoTypes
<1>12. h \in Owes(l, s) /\ \A q \in Sessions \ {s} : h \notin Owes(l, q)
  BY <1>3, <1>6 DEF Owes
<1>13. Owes(r, s) = (Owes(l, s) \ {h}) \cup {h + 1}
  BY <1>8, <1>9, <1>10, <1>11
<1>14. \A q \in Sessions \ {s} : Owes(r, q) = Owes(l, q)
  <2> TAKE q \in Sessions \ {s}
  <2>1. Owes(r, q) \subseteq 1 .. h - 1 /\ Owes(l, q) \subseteq 1 .. h - 1
    BY <1>9, <1>10, <1>11, <1>12
  <2> QED
    BY <1>8, <2>1
<1>15. Moved(Owes(l, s), Owes(r, s))
  BY <1>3, <1>11, <1>12, <1>13 DEF Moved
<1> QED
  BY <1>3, <1>7, <1>14, <1>15 DEF Paired, OwesElse

\* A list that a thread gets when it had none.
LEMMA NewList ==
  ASSUME NEW l \in Lists, Quiet(l)
  PROVE  Paired(l) /\ \A s \in Sessions : Owes(l, s) = {}
<1>1. PICK h \in Nat : h = Len(l)
  BY LenProperties DEF Lists
<1>2. \A n \in 1 .. h : h + 1 - n \in 1 .. h /\ At(l, n) = l[h + 1 - n]
  BY <1>1 DEF At
<1>3. \A i \in 1 .. h :
        /\ l[i].do # "Decrement"
        /\ l[i].do \in IoTypes => i > 1 /\ l[i - 1].do = "AddRef" /\ l[i - 1].s = l[i].s
        /\ l[i].do = "AddRef" =>
             i < h /\ l[i + 1].do \in IoTypes /\ l[i + 1].s = l[i].s
  BY <1>1 DEF Quiet
<1>4. \A n \in 1 .. h :
        /\ At(l, n).do # "Decrement"
        /\ At(l, n).do \in IoTypes =>
             n < h /\ At(l, n + 1).do = "AddRef" /\ At(l, n + 1).s = At(l, n).s
        /\ At(l, n).do = "AddRef" =>
             n > 1 /\ At(l, n - 1).do \in IoTypes /\ At(l, n - 1).s = At(l, n).s
  <2> TAKE n \in 1 .. h
  <2>1. PICK i \in 1 .. h : i = h + 1 - n /\ At(l, n) = l[i]
    BY <1>2
  <2>2. i > 1 => n < h /\ At(l, n + 1) = l[i - 1]
    <3>1. i > 1 => n + 1 \in 1 .. h /\ h + 1 - (n + 1) = i - 1
      BY <2>1
    <3> QED
      BY <1>2, <3>1
  <2>3. i < h => n > 1 /\ At(l, n - 1) = l[i + 1]
    <3>1. i < h => n - 1 \in 1 .. h /\ h + 1 - (n - 1) = i + 1
      BY <2>1
    <3> QED
      BY <1>2, <3>1
  <2> QED
    BY <1>3, <2>1, <2>2, <2>3
<1> QED
  BY <1>1, <1>4 DEF Paired, Owes

\* The handler of a completion releases its reference when it is done.
LEMMA CompleteList ==
  ASSUME NEW s \in Sessions, NEW io \in IoTypes, NEW l, l = Complete(io, s)
  PROVE  /\ l \in Lists /\ Paired(l)
         /\ Owes(l, s) = {2} /\ \A q \in Sessions \ {s} : Owes(l, q) = {}
<1>1. CASE io = "ACCEPT"
  <2>1. /\ l \in Lists /\ Len(l) = 6
        /\ l[1] = Step("Connected", s) /\ l[2] = Step("Count", s)
        /\ l[3] = Step("AddRef", s) /\ l[4] = Step("RECV", s)
        /\ l[5] = Step("Decrement", s) /\ l[6] = Step("IfDisconnected", s)
    BY <1>1, AcceptedList
  <2>2. /\ At(l, 6) = Step("Connected", s) /\ At(l, 5) = Step("Count", s)
        /\ At(l, 4) = Step("AddRef", s) /\ At(l, 3) = Step("RECV", s)
        /\ At(l, 2) = Step("Decrement", s) /\ At(l, 1) = Step("IfDisconnected", s)
    BY <2>1 DEF At
  <2>3. \A n \in 1 .. 6 : n = 1 \/ n = 2 \/ n = 3 \/ n = 4 \/ n = 5 \/ n = 6
    OBVIOUS
  <2>4. Paired(l)
    BY <2>1, <2>2, <2>3 DEF Paired, Step, IoTypes
  <2> QED
    BY <2>1, <2>2, <2>3, <2>4 DEF Owes, Step, IoTypes
<1>2. CASE io = "RECV"
  <2>1. /\ l \in Lists /\ Len(l) = 3
        /\ l[1] = Step("IfConnected", s)
        /\ l[2] = Step("Decrement", s) /\ l[3] = Step("IfDisconnected", s)
    BY <1>2, ReceivedList
  <2>2. /\ At(l, 3) = Step("IfConnected", s)
        /\ At(l, 2) = Step("Decrement", s) /\ At(l, 1) = Step("IfDisconnected", s)
    BY <2>1 DEF At
  <2>3. \A n \in 1 .. 3 : n = 1 \/ n = 2 \/ n = 3
    OBVIOUS
  <2>4. Paired(l)
    BY <2>1, <2>2, <2>3 DEF Paired, Step, IoTypes
  <2> QED
    BY <2>1, <2>2, <2>3, <2>4 DEF Owes, Step, IoTypes
<1>3. CASE io = "SEND"
  <2>1. /\ l \in Lists /\ Len(l) = 2
        /\ l[1] = Step("Decrement", s) /\ l[2] = Step("IfDisconnected", s)
    BY <1>3, SentList, ReleaseList
  <2>2. At(l, 2) = Step("Decrement", s) /\ At(l, 1) = Step("IfDisconnected", s)
    BY <2>1 DEF At
  <2>3. \A n \in 1 .. 2 : n = 1 \/ n = 2
    OBVIOUS
  <2>4. Paired(l)
    BY <2>1, <2>2, <2>3 DEF Paired, Step, IoTypes
  <2> QED
    BY <2>1, <2>2, <2>3, <2>4 DEF Owes, Step, IoTypes
<1>4. CASE io = "DISCONNECT"
  <2>1. /\ l \in Lists /\ Len(l) = 5
        /\ l[1] = Step("Disconnected", s) /\ l[2] = Step("Disconnected", s)
        /\ l[3] = Step("ZeroRef", s)
        /\ l[4] = Step("Decrement", s) /\ l[5] = Step("IfDisconnected", s)
    BY <1>4, DisconnectedList
  <2>2. /\ At(l, 5) = Step("Disconnected", s) /\ At(l, 4) = Step("Disconnected", s)
        /\ At(l, 3) = Step("ZeroRef", s)
        /\ At(l, 2) = Step("Decrement", s) /\ At(l, 1) = Step("IfDisconnected", s)
    BY <2>1 DEF At
  <2>3. \A n \in 1 .. 5 : n = 1 \/ n = 2 \/ n = 3 \/ n = 4 \/ n = 5
    OBVIOUS
  <2>4. Paired(l)
    BY <2>1, <2>2, <2>3 DEF Paired, Step, IoTypes
  <2> QED
    BY <2>1, <2>2, <2>3, <2>4 DEF Owes, Step, IoTypes
<1> QED
  BY <1>1, <1>2, <1>3, <1>4 DEF IoTypes

\* The steps on s are of the kinds D.
Only(l, s, D) == \A n \in 1 .. Len(l) : At(l, n).s = s => At(l, n).do \in D

\* Where s is received from.
Listens(l, s) ==
  {n \in 1 .. Len(l) : At(l, n).s = s /\ At(l, n).do \in {"RECV", "IfConnected"}}

LEMMA OnlyStep ==
  ASSUME NEW l, NEW f, NEW r, Shifted(l, f, r), NEW s, NEW D, Only(l, s, D),
         \A i \in 1 .. Len(f) : f[i].s = s => f[i].do \in D
  PROVE  Only(r, s, D)
<1>1. PICK h \in Nat, k \in Nat : h = Len(l) /\ k = Len(f) /\ h > 0 /\ Len(r) = h - 1 + k
  BY LenProperties DEF Lists, Shifted
<1>2. /\ \A n \in 1 .. h - 1 : At(r, n) = At(l, n)
      /\ \A n \in h .. h - 1 + k : At(r, n) = f[h + k - n] /\ h + k - n \in 1 .. k
  <2>1. \A n \in h .. h - 1 + k : At(r, n) = f[(h - 1 + k) + 1 - n]
    BY <1>1 DEF Shifted
  <2> QED
    BY <1>1, <2>1 DEF Shifted
<1>3. ASSUME NEW n \in 1 .. h - 1 + k, At(r, n).s = s
      PROVE  At(r, n).do \in D
  <2>1. CASE n < h
    BY <1>1, <1>2, <1>3, <2>1 DEF Only
  <2>2. CASE n >= h
    BY <1>1, <1>2, <1>3, <2>2
  <2> QED
    BY <2>1, <2>2
<1> QED
  BY <1>1, <1>3 DEF Only

LEMMA OnlyNew ==
  ASSUME NEW l \in Lists, NEW s, NEW D,
         \A i \in 1 .. Len(l) : l[i].s = s => l[i].do \in D
  PROVE  Only(l, s, D)
<1>1. PICK h \in Nat : h = Len(l)
  BY LenProperties DEF Lists
<1>2. \A n \in 1 .. h : h + 1 - n \in 1 .. h /\ At(l, n) = l[h + 1 - n]
  BY <1>1 DEF At
<1> QED
  BY <1>1, <1>2 DEF Only

\* Steps that are not about receiving from s take nothing but the first away.
LEMMA ListenStep ==
  ASSUME NEW l, NEW f, NEW r, Shifted(l, f, r), NEW s,
         \A i \in 1 .. Len(f) : f[i].s = s => f[i].do \notin {"RECV", "IfConnected"}
  PROVE  Listens(r, s) = Listens(l, s) \ {Len(l)}
<1>1. PICK h \in Nat, k \in Nat : h = Len(l) /\ k = Len(f) /\ h > 0 /\ Len(r) = h - 1 + k
  BY LenProperties DEF Lists, Shifted
<1>2. /\ \A n \in 1 .. h - 1 : At(r, n) = At(l, n)
      /\ \A n \in h .. h - 1 + k : At(r, n) = f[h + k - n] /\ h + k - n \in 1 .. k
  <2>1. \A n \in h .. h - 1 + k : At(r, n) = f[(h - 1 + k) + 1 - n]
    BY <1>1 DEF Shifted
  <2> QED
    BY <1>1, <2>1 DEF Shifted
<1>3. \A n \in h .. h - 1 + k : n \notin Listens(r, s)
  BY <1>1, <1>2 DEF Listens
<1>4. \A n \in 1 .. h - 1 : n \in Listens(r, s) <=> n \in Listens(l, s)
  BY <1>1, <1>2 DEF Listens
<1>5. Listens(r, s) \subseteq 1 .. h - 1 + k /\ Listens(l, s) \subseteq 1 .. h
  BY <1>1 DEF Listens
<1> QED
  BY <1>1, <1>3, <1>4, <1>5

LEMMA ListenNew ==
  ASSUME NEW l \in Lists, NEW s, Only(l, s, StepNames \ {"RECV", "IfConnected"})
  PROVE  Listens(l, s) = {}
BY DEF Only, Listens

\* The handler of a received packet posts the next receive in its own place.
LEMMA HandleStep ==
  ASSUME NEW l, NEW s \in Sessions, NEW a \in Lists, Sends(a, s), NEW r,
         Shifted(l, HandleSteps(s, a), r), At(l, Len(l)) = Step("IfConnected", s)
  PROVE  Listens(r, s) = Listens(l, s)
<1>1. PICK f : f = HandleSteps(s, a)
  OBVIOUS
<1>2. PICK k \in Nat :
        /\ Len(f) = k + 2
        /\ \A i \in 1 .. k : f[i].do = "Brodcast" \/ (f[i].do = "RequestSend" /\ f[i].s = s)
        /\ f[k + 1].do = "AddRef" /\ f[k + 1].s = s
        /\ f[k + 2].do = "RECV" /\ f[k + 2].s = s
  BY <1>1, HandlingList
<1>3. Shifted(l, f, r)
  BY <1>1
<1>4. PICK h \in Nat : h = Len(l) /\ h > 0 /\ Len(r) = h + k + 1
  <2>1. Len(l) \in Nat /\ Len(l) > 0 /\ Len(r) = Len(l) - 1 + (k + 2)
    BY <1>2, <1>3, LenProperties DEF Lists, Shifted
  <2> QED
    BY <2>1
<1>5. /\ \A n \in 1 .. h - 1 : At(r, n) = At(l, n)
      /\ \A n \in h .. h + k + 1 : At(r, n) = f[(h + k + 1) + 1 - n]
  BY <1>3, <1>4 DEF Shifted
<1>6. \A n \in 1 .. h - 1 : n \in Listens(r, s) <=> n \in Listens(l, s)
  BY <1>4, <1>5 DEF Listens
<1>7. h \in Listens(r, s) /\ h \in Listens(l, s)
  <2>1. h \in h .. h + k + 1 /\ (h + k + 1) + 1 - h = k + 2
    OBVIOUS
  <2>2. At(r, h) = f[k + 2]
    BY <1>5, <2>1
  <2> QED
    BY <1>2, <1>4, <2>2 DEF Listens, Step
<1>8. \A n \in h + 1 .. h + k + 1 : n \notin Listens(r, s)
  <2> TAKE n \in h + 1 .. h + k + 1
  <2>1. PICK i \in 1 .. k + 1 : i = (h + k + 1) + 1 - n
    OBVIOUS
  <2>2. At(r, n) = f[i]
    BY <1>5, <2>1
  <2>3. i \in 1 .. k \/ i = k + 1
    OBVIOUS
  <2>4. f[i].do \notin {"RECV", "IfConnected"}
    BY <1>2, <2>3
  <2> QED
    BY <2>2, <2>4 DEF Listens
<1>9. Listens(r, s) \subseteq 1 .. h + k + 1 /\ Listens(l, s) \subseteq 1 .. h
  BY <1>4 DEF Listens
<1>10. \A n \in 1 .. h + k + 1 : n \in Listens(r, s) <=> n \in Listens(l, s)
  <2> TAKE n \in 1 .. h + k + 1
  <2>1. n \in 1 .. h - 1 \/ n = h \/ n \in h + 1 .. h + k + 1
    OBVIOUS
  <2>2. n \in h + 1 .. h + k + 1 => n \notin Listens(l, s)
    BY <1>9
  <2> QED
    BY <1>6, <1>7, <1>8, <2>1, <2>2
<1>11. Listens(r, s) \subseteq 1 .. h + k + 1 /\ Listens(l, s) \subseteq 1 .. h + k + 1
  BY <1>9
<1> QED
  BY <1>10, <1>11

\* What the lists of the functions hold.
LEMMA QuietLists ==
  ASSUME NEW s \in Sessions
  PROVE  /\ <<>> \in Lists /\ Quiet(<<>>)
         /\ <<Step("IfZero", s)>> \in Lists /\ Quiet(<<Step("IfZero", s)>>)
         /\ <<Step("RequestSend", s)>> \in Lists /\ Quiet(<<Step("RequestSend", s)>>)
         /\ Quiet(ReturnSession(s)) /\ Quiet(AcceptSteps(s)) /\ Quiet(Abandon(s))
         /\ Quiet(Request("SEND", s))
<1>1. <<>> \in Lists /\ Quiet(<<>>)
  BY DEF Lists, Quiet
<1>2. /\ <<Step("IfZero", s)>> \in Lists /\ Quiet(<<Step("IfZero", s)>>)
      /\ <<Step("RequestSend", s)>> \in Lists /\ Quiet(<<Step("RequestSend", s)>>)
  <2>1. <<Step("IfZero", s)>> \in Lists /\ <<Step("RequestSend", s)>> \in Lists
    BY Single, StepTypes
  <2>2. \A do \in {"IfZero", "RequestSend"} : Quiet(<<Step(do, s)>>)
    <3> TAKE do \in {"IfZero", "RequestSend"}
    <3>1. Len(<<Step(do, s)>>) = 1 /\ <<Step(do, s)>>[1].do = do
      BY DEF Step
    <3>2. \A i \in 1 .. 1 : i = 1
      OBVIOUS
    <3> QED
      BY <3>1, <3>2 DEF Quiet, IoTypes
  <2> QED
    BY <2>1, <2>2
<1>3. Quiet(ReturnSession(s))
  <2>1. PICK l : l = ReturnSession(s)
    OBVIOUS
  <2>2. /\ Len(l) = 5 /\ l[1] = Step("Lock", s) /\ l[2] = Step("Disconnected", s)
        /\ l[3] = Step("ZeroRef", s) /\ l[4] = Step("PushPool", s)
        /\ l[5] = Step("Unlock", s)
    BY <2>1, ReturnList
  <2>3. /\ Len(l) = 5 /\ l[1].do = "Lock" /\ l[2].do = "Disconnected"
        /\ l[3].do = "ZeroRef" /\ l[4].do = "PushPool" /\ l[5].do = "Unlock"
    BY <2>2 DEF Step
  <2>4. \A i \in 1 .. 5 : i = 1 \/ i = 2 \/ i = 3 \/ i = 4 \/ i = 5
    OBVIOUS
  <2>5. Quiet(l)
    BY <2>3, <2>4 DEF Quiet, IoTypes
  <2> QED
    BY <2>1, <2>5
<1>4. Quiet(AcceptSteps(s))
  <2>1. PICK l : l = AcceptSteps(s)
    OBVIOUS
  <2>2. /\ Len(l) = 3 /\ l[1] = Step("AddRef", s) /\ l[2] = Step("ACCEPT", s)
        /\ l[3] = Step("Unlock", s)
    BY <2>1, AcceptingList
  <2>3. /\ Len(l) = 3 /\ l[1].do = "AddRef" /\ l[2].do = "ACCEPT" /\ l[3].do = "Unlock"
        /\ l[1].s = s /\ l[2].s = s
    BY <2>2 DEF Step
  <2>4. \A i \in 1 .. 3 : i = 1 \/ i = 2 \/ i = 3
    OBVIOUS
  <2>5. Quiet(l)
    BY <2>3, <2>4 DEF Quiet, IoTypes
  <2> QED
    BY <2>1, <2>5
<1>5. Quiet(Abandon(s))
  <2>1. PICK l : l = Abandon(s)
    OBVIOUS
  <2>2. /\ Len(l) = 3 /\ l[1] = Step("Disconnected", s)
        /\ l[2] = Step("AddRef", s) /\ l[3] = Step("DISCONNECT", s)
    BY <2>1, AbandonList
  <2>3. /\ Len(l) = 3 /\ l[1].do = "Disconnected" /\ l[2].do = "AddRef"
        /\ l[3].do = "DISCONNECT" /\ l[2].s = s /\ l[3].s = s
    BY <2>2 DEF Step
  <2>4. \A i \in 1 .. 3 : i = 1 \/ i = 2 \/ i = 3
    OBVIOUS
  <2>5. Quiet(l)
    BY <2>3, <2>4 DEF Quiet, IoTypes
  <2> QED
    BY <2>1, <2>5
<1>6. Quiet(Request("SEND", s))
  <2>1. PICK l : l = Request("SEND", s)
    OBVIOUS
  <2>2. /\ Len(l) = 2 /\ l[1] = Step("AddRef", s) /\ l[2] = Step("SEND", s)
    BY <2>1, RequestList DEF IoTypes
  <2>3. /\ Len(l) = 2 /\ l[1].do = "AddRef" /\ l[2].do = "SEND" /\ l[1].s = s /\ l[2].s = s
    BY <2>2 DEF Step
  <2>4. \A i \in 1 .. 2 : i = 1 \/ i = 2
    OBVIOUS
  <2>5. Quiet(l)
    BY <2>3, <2>4 DEF Quiet, IoTypes
  <2> QED
    BY <2>1, <2>5
<1> QED
  BY <1>1, <1>2, <1>3, <1>4, <1>5, <1>6

LEMMA HandleQuiet ==
  ASSUME NEW s \in Sessions, NEW a \in Lists, Sends(a, s), NEW l, l = HandleSteps(s, a)
  PROVE  Quiet(l)
<1>1. PICK k \in Nat :
        /\ Len(l) = k + 2
        /\ \A i \in 1 .. k : l[i].do = "Brodcast" \/ (l[i].do = "RequestSend" /\ l[i].s = s)
        /\ l[k + 1].do = "AddRef" /\ l[k + 1].s = s
        /\ l[k + 2].do = "RECV" /\ l[k + 2].s = s
  BY HandlingList
<1>2. ASSUME NEW i \in 1 .. k + 2
      PROVE  /\ l[i].do # "Decrement"
             /\ l[i].do \in IoTypes => i > 1 /\ l[i - 1].do = "AddRef" /\ l[i - 1].s = l[i].s
             /\ l[i].do = "AddRef" =>
                  i < k + 2 /\ l[i + 1].do \in IoTypes /\ l[i + 1].s = l[i].s
  <2>1. CASE i \in 1 .. k
    <3>1. l[i].do = "Brodcast" \/ l[i].do = "RequestSend"
      BY <1>1, <2>1
    <3> QED
      BY <3>1 DEF IoTypes
  <2>2. CASE i = k + 1
    <3>1. l[i].do = "AddRef" /\ l[i].s = s
      BY <1>1, <2>2
    <3>2. i + 1 = k + 2 /\ i < k + 2
      BY <2>2
    <3>3. l[i + 1].do = "RECV" /\ l[i + 1].s = s
      BY <1>1, <3>2
    <3> QED
      BY <3>1, <3>2, <3>3 DEF IoTypes
  <2>3. CASE i = k + 2
    <3>1. l[i].do = "RECV" /\ l[i].s = s
      BY <1>1, <2>3
    <3>2. i - 1 = k + 1 /\ i > 1
      BY <2>3
    <3>3. l[i - 1].do = "AddRef" /\ l[i - 1].s = s
      BY <1>1, <3>2
    <3> QED
      BY <3>1, <3>2, <3>3 DEF IoTypes
  <2> QED
    BY <2>1, <2>2, <2>3
<1> QED
  BY <1>1, <1>2 DEF Quiet

LEMMA BrodcastQuiet ==
  ASSUME NEW q \in Seq(Sessions), NEW l, l = Brodcast(q)
  PROVE  Quiet(l)
BY BrodcastList DEF Quiet, IoTypes

-----------------------------------------------------------------------------
(* All lists *)

\* What the threads' sets amount to together.
Spread(F) == {p \in Threads \X Nat : p[2] \in F[p[1]]}

LEMMA SpreadSame ==
  ASSUME NEW F, NEW G, \A u \in Threads : G[u] = F[u]
  PROVE  Spread(G) = Spread(F)
BY DEF Spread

LEMMA SpreadEmpty ==
  ASSUME NEW F, \A u \in Threads : F[u] = {}
  PROVE  IsFiniteSet(Spread(F)) /\ Cardinality(Spread(F)) = 0
<1>1. Spread(F) = {}
  BY DEF Spread
<1> QED
  BY <1>1, FS_EmptySet

LEMMA SpreadAdd ==
  ASSUME NEW F, NEW G, NEW t \in Threads, \A u \in Threads \ {t} : G[u] = F[u],
         NEW n \in Nat, n \notin F[t], G[t] = F[t] \cup {n}, IsFiniteSet(Spread(F))
  PROVE  /\ IsFiniteSet(Spread(G)) /\ Cardinality(Spread(F)) \in Nat
         /\ Cardinality(Spread(G)) = Cardinality(Spread(F)) + 1
<1>1. <<t, n>> \notin Spread(F)
  BY DEF Spread
<1>2. Spread(G) = Spread(F) \cup {<<t, n>>}
  BY DEF Spread
<1> QED
  BY <1>1, <1>2, FS_AddElement, FS_CardinalityType

LEMMA SpreadRemove ==
  ASSUME NEW F, NEW G, NEW t \in Threads, \A u \in Threads \ {t} : G[u] = F[u],
         NEW n \in Nat, n \in F[t], G[t] = F[t] \ {n}, IsFiniteSet(Spread(F))
  PROVE  /\ IsFiniteSet(Spread(G)) /\ Cardinality(Spread(F)) \in Nat
         /\ Cardinality(Spread(G)) = Cardinality(Spread(F)) - 1
<1>1. <<t, n>> \in Spread(F)
  BY DEF Spread
<1>2. Spread(G) = Spread(F) \ {<<t, n>>}
  BY DEF Spread
<1> QED
  BY <1>1, <1>2, FS_RemoveElement, FS_CardinalityType

LEMMA SpreadMove ==
  ASSUME NEW F, NEW G, NEW t \in Threads, \A u \in Threads \ {t} : G[u] = F[u],
         NEW n \in Nat, n \in F[t], NEW m \in Nat, m \notin F[t],
         G[t] = (F[t] \ {n}) \cup {m}, IsFiniteSet(Spread(F))
  PROVE  /\ IsFiniteSet(Spread(G))
         /\ Cardinality(Spread(G)) = Cardinality(Spread(F))
<1> DEFINE H == [u \in Threads |-> IF u = t THEN F[t] \ {n} ELSE F[u]]
<1>1. /\ IsFiniteSet(Spread(H)) /\ Cardinality(Spread(F)) \in Nat
      /\ Cardinality(Spread(H)) = Cardinality(Spread(F)) - 1
  <2>1. /\ \A u \in Threads \ {t} : H[u] = F[u]
        /\ H[t] = F[t] \ {n}
    OBVIOUS
  <2> HIDE DEF H
  <2> QED
    BY <2>1, SpreadRemove
<1>2. /\ IsFiniteSet(Spread(G)) /\ Cardinality(Spread(H)) \in Nat
      /\ Cardinality(Spread(G)) = Cardinality(Spread(H)) + 1
  <2>1. /\ \A u \in Threads \ {t} : G[u] = H[u]
        /\ m \notin H[t] /\ G[t] = H[t] \cup {m}
    OBVIOUS
  <2> HIDE DEF H
  <2> QED
    BY <1>1, <2>1, SpreadAdd
<1> QED
  BY <1>1, <1>2

\* What the properties count, list by list.
OwesAll(T, s) == [u \in Threads |-> Owes(T[u], s)]
ListensAll(T, s) == [u \in Threads |-> Listens(T[u], s)]

LEMMA StepIs ==
  ASSUME NEW p \in Steps, NEW do, NEW s
  PROVE  p = Step(do, s) <=> p.do = do /\ p.s = s
BY DEF Steps, Step

\* The places of the steps of the lists T.
Places(T) == UNION {{t} \X (1 .. Len(T[t])) : t \in Threads}

LEMMA OwedSet ==
  ASSUME NEW T \in [Threads -> Lists], NEW s \in Sessions
  PROVE  {p \in Places(T) :
            \/ At(T[p[1]], p[2]) = Step("Decrement", s)
            \/ /\ p[2] = Len(T[p[1]])
               /\ At(T[p[1]], p[2]) \in {Step(io, s) : io \in IoTypes}}
         = Spread(OwesAll(T, s))
<1>1. ASSUME NEW t \in Threads, NEW n \in 1 .. Len(T[t])
      PROVE  \/ At(T[t], n) = Step("Decrement", s)
             \/ n = Len(T[t]) /\ At(T[t], n) \in {Step(io, s) : io \in IoTypes}
             <=> n \in Owes(T[t], s)
  <2>1. At(T[t], n) \in Steps
    BY AtType
  <2>2. At(T[t], n) \in {Step(io, s) : io \in IoTypes}
          <=> At(T[t], n).do \in IoTypes /\ At(T[t], n).s = s
    BY <2>1, StepIs
  <2> QED
    BY <2>1, <2>2, StepIs DEF Owes
<1>2. \A p : p \in Places(T) <=> p \in Threads \X Nat /\ p[2] \in 1 .. Len(T[p[1]])
  BY DEF Places
<1>3. \A t \in Threads : Owes(T[t], s) \subseteq 1 .. Len(T[t])
  BY DEF Owes
<1> QED
  BY <1>1, <1>2, <1>3 DEF Spread, OwesAll

LEMMA ReceiversSet ==
  ASSUME NEW T \in [Threads -> Lists], NEW s \in Sessions
  PROVE  {p \in Places(T) :
            At(T[p[1]], p[2]) \in {Step("RECV", s), Step("IfConnected", s)}}
         = Spread(ListensAll(T, s))
<1>1. ASSUME NEW t \in Threads, NEW n \in 1 .. Len(T[t])
      PROVE  At(T[t], n) \in {Step("RECV", s), Step("IfConnected", s)}
             <=> n \in Listens(T[t], s)
  <2>1. At(T[t], n) \in Steps
    BY AtType
  <2> QED
    BY <2>1, StepIs DEF Listens
<1>2. \A p : p \in Places(T) <=> p \in Threads \X Nat /\ p[2] \in 1 .. Len(T[p[1]])
  BY DEF Places
<1>3. \A t \in Threads : Listens(T[t], s) \subseteq 1 .. Len(T[t])
  BY DEF Listens
<1> QED
  BY <1>1, <1>2, <1>3 DEF Spread, ListensAll

LEMMA OwedSpread ==
  ASSUME NEW s \in Sessions
  PROVE  /\ todo \in [Threads -> Lists] => Owed(s) = Spread(OwesAll(todo, s))
         /\ todo' \in [Threads -> Lists] => Owed(s)' = Spread(OwesAll(todo', s))
BY OwedSet DEF Owed, Undone, StepAt, At, Places

LEMMA ReceiversSpread ==
  ASSUME NEW s \in Sessions
  PROVE  /\ todo \in [Threads -> Lists] => Receivers(s) = Spread(ListensAll(todo, s))
         /\ todo' \in [Threads -> Lists] => Receivers(s)' = Spread(ListensAll(todo', s))
BY ReceiversSet DEF Receivers, Undone, StepAt, At, Places

-----------------------------------------------------------------------------
(* Types *)

\* The first step of a thread's list is done.
LEMMA DoesStep ==
  ASSUME TypeOK, NEW t \in Threads, NEW do, NEW s \in Sessions, NEW f \in Lists,
         Does(t, do, s, f)
  PROVE  /\ todo' \in [Threads -> Lists]
         /\ Shifted(todo[t], f, todo'[t])
         /\ Len(todo[t]) > 0
         /\ At(todo[t], Len(todo[t])) = Step(do, s)
         /\ At(todo[t], Len(todo[t])).do = do /\ At(todo[t], Len(todo[t])).s = s
         /\ \A u \in Threads \ {t} : todo'[u] = todo[u]
<1>1. todo \in [Threads -> Lists]
  BY DEF TypeOK, Lists, Steps
<1>2. /\ todo[t] # <<>> /\ Head(todo[t]) = Step(do, s)
      /\ todo' = [todo EXCEPT ![t] = f \o Tail(todo[t])]
  BY DEF Does
<1>3. PICK r : r = f \o Tail(todo[t])
  OBVIOUS
<1>4. Shifted(todo[t], f, r) /\ At(todo[t], Len(todo[t])) = Step(do, s)
  BY <1>1, <1>2, <1>3, Shift
<1>5. r \in Lists /\ Len(todo[t]) > 0
  BY <1>4 DEF Shifted
<1>6. todo' = [todo EXCEPT ![t] = r]
  BY <1>2, <1>3
<1>7. todo'[t] = r /\ todo' \in [Threads -> Lists]
      /\ \A u \in Threads \ {t} : todo'[u] = todo[u]
  BY <1>1, <1>5, <1>6
<1> QED
  BY <1>4, <1>5, <1>7 DEF Step

LEMMA TypeInit == Init => TypeOK
<1> SUFFICES ASSUME Init PROVE TypeOK
  OBVIOUS
<1>1. m_sessionPool \in Seq(Sessions)
  BY EverySession DEF Init
<1>2. /\ m_nRef \in [Sessions -> Int] /\ m_bConnected \in [Sessions -> BOOLEAN]
      /\ pending \in [Sessions -> [IoTypes -> Nat]]
  BY DEF Init
<1>3. todo \in [Threads -> Lists]
  BY QuietLists DEF Init, Lists
<1>4. /\ m_rwLock \in Threads \cup {NoThread} /\ m_nCurSessions \in Int
      /\ clients \in 0 .. MaxClients /\ failures \in 0 .. MaxFailures
      /\ broken \in SUBSET Sessions /\ deaf \in SUBSET Sessions
  BY PoolAssumption DEF Init
<1> QED
  BY <1>1, <1>2, <1>3, <1>4 DEF TypeOK, Lists, Steps

\* The types of all variables but the lists.
RestOK ==
  /\ m_sessionPool \in Seq(Sessions)
  /\ m_rwLock \in Threads \cup {NoThread}
  /\ m_nCurSessions \in Int
  /\ m_nRef \in [Sessions -> Int]
  /\ m_bConnected \in [Sessions -> BOOLEAN]
  /\ pending \in [Sessions -> [IoTypes -> Nat]]
  /\ clients \in 0 .. MaxClients
  /\ failures \in 0 .. MaxFailures
  /\ broken \in SUBSET Sessions
  /\ deaf \in SUBSET Sessions

LEMMA TypeParts ==
  /\ TypeOK <=> RestOK /\ todo \in [Threads -> Lists]
  /\ TypeOK' <=> RestOK' /\ todo' \in [Threads -> Lists]
BY DEF TypeOK, RestOK, Lists, Steps

LEMMA ListTypes ==
  /\ <<>> \in Lists
  /\ \A s \in Sessions : /\ ReleaseRef(s) \in Lists /\ ReturnSession(s) \in Lists
                         /\ <<Step("IfZero", s)>> \in Lists
                         /\ <<Step("RequestSend", s)>> \in Lists
                         /\ Abandon(s) \in Lists /\ AcceptSteps(s) \in Lists
  /\ \A s \in Sessions, io \in IoTypes :
       Request(io, s) \in Lists /\ Complete(io, s) \in Lists
<1>1. \A s \in Sessions : <<Step("IfZero", s)>> \in Lists /\ <<Step("RequestSend", s)>> \in Lists
  BY Single, StepTypes
<1>2. <<>> \in Lists
  BY DEF Lists
<1>3. \A s \in Sessions : /\ ReleaseRef(s) \in Lists /\ ReturnSession(s) \in Lists
                         /\ Abandon(s) \in Lists /\ AcceptSteps(s) \in Lists
  BY ReleaseList, ReturnList, AbandonList, AcceptingList
<1>4. \A s \in Sessions, io \in IoTypes :
        Request(io, s) \in Lists /\ Complete(io, s) \in Lists
  BY RequestList, CompleteList
<1> QED
  BY <1>1, <1>2, <1>3, <1>4

LEMMA TypeNext ==
  ASSUME TypeOK, [Next]_vars
  PROVE  TypeOK'
<1>1. <<>> \in Lists
  BY ListTypes
<1>2. ASSUME NEW t \in Threads, NEW s \in Sessions, AddRef(t, s)
      PROVE  TypeOK'
  <2>1. todo' \in [Threads -> Lists]
    BY <1>2, <1>1, DoesStep DEF AddRef
  <2>2. RestOK'
    BY <1>2, TypeParts DEF AddRef, RestOK
  <2> QED
    BY <2>1, <2>2, TypeParts
<1>3. ASSUME NEW t \in Threads, NEW s \in Sessions, NEW io \in IoTypes, Start(t, io, s)
      PROVE  TypeOK'
  <2>1. todo' \in [Threads -> Lists]
    BY <1>3, <1>1, DoesStep DEF Start
  <2>2. RestOK'
    <3>1. pending' = [pending EXCEPT ![s] = [pending[s] EXCEPT ![io] = pending[s][io] + 1]]
      BY <1>3 DEF Start
    <3>2. pending' \in [Sessions -> [IoTypes -> Nat]]
      BY <3>1, TypeParts DEF RestOK
    <3> QED
      BY <1>3, <3>2, TypeParts DEF Start, RestOK
  <2> QED
    BY <2>1, <2>2, TypeParts
<1>4. ASSUME NEW t \in Threads, NEW s \in Sessions, NEW io \in IoTypes, StartFails(t, io, s)
      PROVE  TypeOK'
  <2>1. todo' \in [Threads -> Lists]
    BY <1>4, ListTypes, DoesStep DEF StartFails
  <2>2. RestOK'
    BY <1>4, TypeParts DEF StartFails, RestOK
  <2> QED
    BY <2>1, <2>2, TypeParts
<1>5. ASSUME NEW t \in Threads, NEW s \in Sessions, Decrement(t, s)
      PROVE  TypeOK'
  <2>1. todo' \in [Threads -> Lists]
    BY <1>5, <1>1, DoesStep DEF Decrement
  <2>2. RestOK'
    BY <1>5, TypeParts DEF Decrement, RestOK
  <2> QED
    BY <2>1, <2>2, TypeParts
<1>6. ASSUME NEW t \in Threads, NEW s \in Sessions, IfDisconnected(t, s)
      PROVE  TypeOK'
  <2>1. todo' \in [Threads -> Lists]
    <3>1. (IF m_bConnected[s] THEN <<>> ELSE <<Step("IfZero", s)>>) \in Lists
      BY ListTypes
    <3> QED
      BY <1>6, <3>1, DoesStep DEF IfDisconnected
  <2>2. RestOK'
    BY <1>6, TypeParts DEF IfDisconnected, RestOK
  <2> QED
    BY <2>1, <2>2, TypeParts
<1>7. ASSUME NEW t \in Threads, NEW s \in Sessions, IfZero(t, s)
      PROVE  TypeOK'
  <2>1. todo' \in [Threads -> Lists]
    <3>1. (IF m_nRef[s] = 0 THEN ReturnSession(s) ELSE <<>>) \in Lists
      BY ListTypes
    <3> QED
      BY <1>7, <3>1, DoesStep DEF IfZero
  <2>2. RestOK'
    BY <1>7, TypeParts DEF IfZero, RestOK
  <2> QED
    BY <2>1, <2>2, TypeParts
<1>8. ASSUME NEW t \in Threads, NEW s \in Sessions, SetConnection(t, s)
      PROVE  TypeOK'
  <2>1. todo' \in [Threads -> Lists]
    BY <1>8, <1>1, DoesStep DEF SetConnection
  <2>2. RestOK'
    BY <1>8, TypeParts DEF SetConnection, RestOK
  <2> QED
    BY <2>1, <2>2, TypeParts
<1>9. ASSUME NEW t \in Threads, NEW s \in Sessions, ZeroRef(t, s)
      PROVE  TypeOK'
  <2>1. todo' \in [Threads -> Lists]
    BY <1>9, <1>1, DoesStep DEF ZeroRef
  <2>2. RestOK'
    BY <1>9, TypeParts DEF ZeroRef, RestOK
  <2> QED
    BY <2>1, <2>2, TypeParts
<1>10. ASSUME NEW t \in Threads, NEW s \in Sessions, IncreaseConnectionCount(t, s)
       PROVE  TypeOK'
  <2>1. todo' \in [Threads -> Lists]
    BY <1>10, <1>1, DoesStep DEF IncreaseConnectionCount
  <2>2. RestOK'
    BY <1>10, TypeParts DEF IncreaseConnectionCount, RestOK
  <2> QED
    BY <2>1, <2>2, TypeParts
<1>11. ASSUME NEW t \in Threads, NEW s \in Sessions, Lock(t, s) \/ Unlock(t, s)
       PROVE  TypeOK'
  <2>1. todo' \in [Threads -> Lists]
    BY <1>11, <1>1, DoesStep DEF Lock, Unlock
  <2>2. RestOK'
    BY <1>11, TypeParts DEF Lock, Unlock, RestOK
  <2> QED
    BY <2>1, <2>2, TypeParts
<1>12. ASSUME NEW t \in Threads, NEW s \in Sessions, PushPool(t, s)
       PROVE  TypeOK'
  <2>1. todo' \in [Threads -> Lists]
    BY <1>12, <1>1, DoesStep DEF PushPool
  <2>2. RestOK'
    <3>1. m_sessionPool' \in Seq(Sessions)
      BY <1>12, TypeParts, AppendProperties DEF PushPool, RestOK
    <3> QED
      BY <1>12, <3>1, TypeParts DEF PushPool, RestOK
  <2> QED
    BY <2>1, <2>2, TypeParts
<1>13. ASSUME NEW t \in Threads, NEW s \in Sessions, IfConnected(t, s)
       PROVE  TypeOK'
  <2>1. todo' \in [Threads -> Lists]
    <3>1. CASE \E a \in Answers(s) : Does(t, "IfConnected", s, HandleSteps(s, a))
      <4>1. PICK a \in Answers(s) : Does(t, "IfConnected", s, HandleSteps(s, a))
        BY <3>1
      <4>2. HandleSteps(s, a) \in Lists
        BY AnswersSend, HandlingList
      <4> QED
        BY <4>1, <4>2, DoesStep
    <3>2. CASE Does(t, "IfConnected", s, <<>>)
      BY <1>1, <3>2, DoesStep
    <3> QED
      BY <1>13, <3>1, <3>2 DEF IfConnected, HandleSteps
  <2>2. RestOK'
    BY <1>13, TypeParts DEF IfConnected, RestOK
  <2> QED
    BY <2>1, <2>2, TypeParts
<1>14. ASSUME NEW t \in Threads, NEW s \in Sessions, BrodcastRound(t, s) \/ RequestSend(t, s)
       PROVE  TypeOK'
  <2>1. todo' \in [Threads -> Lists]
    <3>1. /\ Request("SEND", s) \in Lists
          /\ (IF m_bConnected[s] THEN <<Step("RequestSend", s)>> ELSE <<>>) \in Lists
      BY ListTypes DEF IoTypes
    <3>2. CASE BrodcastRound(t, s)
      BY <3>1, <3>2, DoesStep DEF BrodcastRound
    <3>3. CASE RequestSend(t, s)
      BY <1>1, <3>1, <3>3, DoesStep DEF RequestSend
    <3> QED
      BY <1>14, <3>2, <3>3
  <2>2. RestOK'
    BY <1>14, TypeParts DEF BrodcastRound, RequestSend, RestOK
  <2> QED
    BY <2>1, <2>2, TypeParts
<1>15. ASSUME NEW t \in Threads, Run(t)
       PROVE  TypeOK'
  BY <1>2, <1>3, <1>4, <1>5, <1>6, <1>7, <1>8, <1>9, <1>10, <1>11, <1>12, <1>13, <1>14,
     <1>15 DEF Run
<1>16. ASSUME NEW t \in IoThreads, IOThreadMain(t)
       PROVE  TypeOK'
  <2>1. PICK s \in Sessions, io \in IoTypes :
          Completion(t, io, s) \/ FailedCompletion(t, io, s)
    BY <1>16 DEF IOThreadMain
  <2>2. t \in Threads /\ Dequeue(t, io, s)
    BY <2>1 DEF Completion, FailedCompletion, Threads
  <2>3. todo' \in [Threads -> Lists]
    <3>1. Complete(io, s) \in Lists /\ Abandon(s) \in Lists
      BY ListTypes
    <3>2. \E l \in Lists : todo' = [todo EXCEPT ![t] = l]
      BY <2>1, <3>1 DEF Completion, FailedCompletion
    <3> QED
      BY <2>2, <3>2, TypeParts
  <2>4. clients' \in 0 .. MaxClients /\ failures' \in 0 .. MaxFailures
    BY <2>1, PoolAssumption, TypeParts DEF Completion, FailedCompletion, RestOK
  <2>5. broken' \in SUBSET Sessions /\ deaf' \in SUBSET Sessions
    BY <2>1, TypeParts DEF Completion, FailedCompletion, RestOK
  <2>6. pending' \in [Sessions -> [IoTypes -> Nat]]
    <3>1. pending' = [pending EXCEPT ![s] = [pending[s] EXCEPT ![io] = pending[s][io] - 1]]
          /\ pending[s][io] > 0
      BY <2>2 DEF Dequeue
    <3> QED
      BY <3>1, TypeParts DEF RestOK
  <2>7. RestOK'
    BY <2>2, <2>4, <2>5, <2>6, TypeParts DEF Dequeue, RestOK
  <2> QED
    BY <2>3, <2>7, TypeParts
<1>17. ASSUME AcceptSessions
       PROVE  TypeOK'
  <2>1. m_sessionPool \in Seq(Sessions) /\ m_sessionPool # <<>>
    BY <1>17, TypeParts DEF AcceptSessions, RestOK
  <2>2. Last(m_sessionPool) \in Sessions /\ Front(m_sessionPool) \in Seq(Sessions)
    <3>1. PICK h \in Nat : h = Len(m_sessionPool)
      BY <2>1, LenProperties
    <3>2. h > 0 /\ \A i \in 1 .. h : m_sessionPool[i] \in Sessions
      BY <2>1, <3>1, EmptySeq, ElementOfSeq
    <3>3. Front(m_sessionPool) = SubSeq(m_sessionPool, 1, h - 1)
      BY <3>1 DEF Front
    <3>4. SubSeq(m_sessionPool, 1, h - 1) \in Seq(Sessions)
      BY <2>1, <3>1, <3>2, SubSeqProperties
    <3> QED
      BY <3>1, <3>2, <3>3, <3>4 DEF Last
  <2>3. todo' \in [Threads -> Lists]
    <3>1. PICK s \in Sessions : todo' = [todo EXCEPT ![Main] = AcceptSteps(s)]
      BY <1>17, <2>2 DEF AcceptSessions, AcceptSteps
    <3>2. AcceptSteps(s) \in Lists /\ Main \in Threads
      BY ListTypes DEF Threads
    <3> QED
      BY <3>1, <3>2, TypeParts
  <2>4. RestOK'
    <3>1. clients' \in 0 .. MaxClients
      BY <1>17, PoolAssumption, TypeParts DEF AcceptSessions, RestOK
    <3> QED
      BY <1>17, <2>2, <3>1, TypeParts DEF AcceptSessions, RestOK, Threads
  <2> QED
    BY <2>3, <2>4, TypeParts
<1>18. ASSUME MainBroadcasts
       PROVE  TypeOK'
  <2>1. todo' = [todo EXCEPT ![Main] = Brodcast(m_sessionVec)]
    BY <1>18 DEF MainBroadcasts
  <2>2. Brodcast(m_sessionVec) \in Lists /\ Main \in Threads
    BY EverySession, BrodcastList DEF Threads
  <2>3. todo' \in [Threads -> Lists]
    BY <2>1, <2>2, TypeParts
  <2>4. RestOK'
    BY <1>18, TypeParts DEF MainBroadcasts, RestOK
  <2> QED
    BY <2>3, <2>4, TypeParts
<1>19. CASE UNCHANGED vars
  BY <1>19 DEF vars, TypeOK
<1> QED
  BY <1>15, <1>16, <1>17, <1>18, <1>19 DEF Next

\* The variables keep their types, whatever a list of steps is made of.
THEOREM TypeCorrect == Spec => []TypeOK
<1>1. TypeOK /\ [Next]_vars => TypeOK'
  BY TypeNext
<1> QED
  BY TypeInit, <1>1, PTL DEF Spec

-----------------------------------------------------------------------------
(* What each kind of step does to the references that are owed *)

PairedAll == \A t \in Threads : Paired(todo[t])

\* Only the list of t is another one: the sets of the others stay.
LEMMA OthersOwe ==
  ASSUME NEW T, NEW t \in Threads, NEW s, \A u \in Threads \ {t} : T[u] = todo[u]
  PROVE  /\ \A u \in Threads \ {t} : OwesAll(T, s)[u] = OwesAll(todo, s)[u]
         /\ OwesAll(T, s)[t] = Owes(T[t], s)
         /\ OwesAll(todo, s)[t] = Owes(todo[t], s)
         /\ Owes(T[t], s) = Owes(todo[t], s) =>
              Spread(OwesAll(T, s)) = Spread(OwesAll(todo, s))
<1>1. /\ \A u \in Threads \ {t} : OwesAll(T, s)[u] = OwesAll(todo, s)[u]
      /\ OwesAll(T, s)[t] = Owes(T[t], s)
      /\ OwesAll(todo, s)[t] = Owes(todo[t], s)
  BY DEF OwesAll
<1> QED
  BY <1>1, SpreadSame

LEMMA QuietDoes ==
  ASSUME TypeOK, PairedAll, NEW t \in Threads, NEW do, NEW s \in Sessions, NEW f \in Lists,
         Does(t, do, s, f), Quiet(f), do \notin IoTypes \cup {"AddRef", "Decrement"}
  PROVE  PairedAll' /\ \A q \in Sessions : Owed(q)' = Owed(q)
<1>1. /\ todo' \in [Threads -> Lists] /\ todo \in [Threads -> Lists]
      /\ Shifted(todo[t], f, todo'[t]) /\ At(todo[t], Len(todo[t])).do = do
      /\ \A u \in Threads \ {t} : todo'[u] = todo[u]
  BY DoesStep, TypeParts
<1>2. Paired(todo[t])
  BY DEF PairedAll
<1>3. Paired(todo'[t]) /\ \A q \in Sessions : Owes(todo'[t], q) = Owes(todo[t], q)
  BY <1>1, <1>2, QuietStep
<1>4. PairedAll'
  BY <1>1, <1>3 DEF PairedAll
<1>5. \A q \in Sessions : Owed(q)' = Owed(q)
  <2> TAKE q \in Sessions
  <2>1. Spread(OwesAll(todo', q)) = Spread(OwesAll(todo, q))
    BY <1>1, <1>3, OthersOwe
  <2> QED
    BY <1>1, <2>1, OwedSpread
<1> QED
  BY <1>4, <1>5

LEMMA AddRefDoes ==
  ASSUME TypeOK, PairedAll, NEW t \in Threads, NEW s \in Sessions,
         Does(t, "AddRef", s, <<>>)
  PROVE  /\ PairedAll' /\ \A q \in Sessions \ {s} : Owed(q)' = Owed(q)
         /\ IsFiniteSet(Owed(s)) =>
              /\ IsFiniteSet(Owed(s)') /\ Cardinality(Owed(s)) \in Nat
              /\ Cardinality(Owed(s)') = Cardinality(Owed(s)) + 1
<1>1. /\ todo' \in [Threads -> Lists] /\ todo \in [Threads -> Lists]
      /\ Shifted(todo[t], <<>>, todo'[t])
      /\ At(todo[t], Len(todo[t])).do = "AddRef" /\ At(todo[t], Len(todo[t])).s = s
      /\ \A u \in Threads \ {t} : todo'[u] = todo[u]
  BY DoesStep, TypeParts, ListTypes
<1>2. Paired(todo[t])
  BY DEF PairedAll
<1>3. /\ Paired(todo'[t]) /\ \A q \in Sessions \ {s} : Owes(todo'[t], q) = Owes(todo[t], q)
      /\ \E n \in Nat : n \notin Owes(todo[t], s)
                        /\ Owes(todo'[t], s) = Owes(todo[t], s) \cup {n}
  BY <1>1, <1>2, AddRefStep
<1>4. PairedAll'
  BY <1>1, <1>3 DEF PairedAll
<1>5. \A q \in Sessions \ {s} : Owed(q)' = Owed(q)
  <2> TAKE q \in Sessions \ {s}
  <2>1. Spread(OwesAll(todo', q)) = Spread(OwesAll(todo, q))
    BY <1>1, <1>3, OthersOwe
  <2> QED
    BY <1>1, <2>1, OwedSpread
<1>6. IsFiniteSet(Spread(OwesAll(todo, s))) =>
        /\ IsFiniteSet(Spread(OwesAll(todo', s)))
        /\ Cardinality(Spread(OwesAll(todo, s))) \in Nat
        /\ Cardinality(Spread(OwesAll(todo', s))) = Cardinality(Spread(OwesAll(todo, s))) + 1
  <2>1. PICK n \in Nat : n \notin Owes(todo[t], s)
                         /\ Owes(todo'[t], s) = Owes(todo[t], s) \cup {n}
    BY <1>3
  <2>2. /\ \A u \in Threads \ {t} : OwesAll(todo', s)[u] = OwesAll(todo, s)[u]
        /\ n \notin OwesAll(todo, s)[t]
        /\ OwesAll(todo', s)[t] = OwesAll(todo, s)[t] \cup {n}
    BY <1>1, <2>1, OthersOwe
  <2> QED
    BY <2>2, SpreadAdd
<1> QED
  BY <1>1, <1>4, <1>5, <1>6, OwedSpread

LEMMA PaidDoes ==
  ASSUME TypeOK, PairedAll, NEW t \in Threads, NEW do \in IoTypes \cup {"Decrement"},
         NEW s \in Sessions, Does(t, do, s, <<>>)
  PROVE  /\ PairedAll' /\ \A q \in Sessions \ {s} : Owed(q)' = Owed(q)
         /\ IsFiniteSet(Owed(s)) =>
              /\ IsFiniteSet(Owed(s)') /\ Cardinality(Owed(s)) \in Nat
              /\ Cardinality(Owed(s)') = Cardinality(Owed(s)) - 1
<1>1. /\ todo' \in [Threads -> Lists] /\ todo \in [Threads -> Lists]
      /\ Shifted(todo[t], <<>>, todo'[t])
      /\ At(todo[t], Len(todo[t])).do = do /\ At(todo[t], Len(todo[t])).s = s
      /\ \A u \in Threads \ {t} : todo'[u] = todo[u]
  BY DoesStep, TypeParts, ListTypes
<1>2. Paired(todo[t])
  BY DEF PairedAll
<1>3. /\ Paired(todo'[t]) /\ \A q \in Sessions \ {s} : Owes(todo'[t], q) = Owes(todo[t], q)
      /\ \E n \in Owes(todo[t], s) : Owes(todo'[t], s) = Owes(todo[t], s) \ {n}
  BY <1>1, <1>2, PaidStep
<1>4. PairedAll'
  BY <1>1, <1>3 DEF PairedAll
<1>5. \A q \in Sessions \ {s} : Owed(q)' = Owed(q)
  <2> TAKE q \in Sessions \ {s}
  <2>1. Spread(OwesAll(todo', q)) = Spread(OwesAll(todo, q))
    BY <1>1, <1>3, OthersOwe
  <2> QED
    BY <1>1, <2>1, OwedSpread
<1>6. IsFiniteSet(Spread(OwesAll(todo, s))) =>
        /\ IsFiniteSet(Spread(OwesAll(todo', s)))
        /\ Cardinality(Spread(OwesAll(todo, s))) \in Nat
        /\ Cardinality(Spread(OwesAll(todo', s))) = Cardinality(Spread(OwesAll(todo, s))) - 1
  <2>1. PICK n \in Owes(todo[t], s) : Owes(todo'[t], s) = Owes(todo[t], s) \ {n}
    BY <1>3
  <2>2. n \in Nat
    BY DEF Owes
  <2>3. /\ \A u \in Threads \ {t} : OwesAll(todo', s)[u] = OwesAll(todo, s)[u]
        /\ n \in OwesAll(todo, s)[t]
        /\ OwesAll(todo', s)[t] = OwesAll(todo, s)[t] \ {n}
    BY <1>1, <2>1, OthersOwe
  <2> QED
    BY <2>2, <2>3, SpreadRemove
<1> QED
  BY <1>1, <1>4, <1>5, <1>6, OwedSpread

LEMMA RefusedDoes ==
  ASSUME TypeOK, PairedAll, NEW t \in Threads, NEW io \in IoTypes,
         NEW s \in Sessions, Does(t, io, s, ReleaseRef(s))
  PROVE  /\ PairedAll' /\ \A q \in Sessions \ {s} : Owed(q)' = Owed(q)
         /\ IsFiniteSet(Owed(s)) =>
              IsFiniteSet(Owed(s)') /\ Cardinality(Owed(s)') = Cardinality(Owed(s))
<1>1. /\ todo' \in [Threads -> Lists] /\ todo \in [Threads -> Lists]
      /\ Shifted(todo[t], ReleaseRef(s), todo'[t])
      /\ At(todo[t], Len(todo[t])).do = io /\ At(todo[t], Len(todo[t])).s = s
      /\ \A u \in Threads \ {t} : todo'[u] = todo[u]
  BY DoesStep, TypeParts, ListTypes
<1>2. Paired(todo[t])
  BY DEF PairedAll
<1>3. /\ Paired(todo'[t])
      /\ Moved(Owes(todo[t], s), Owes(todo'[t], s))
      /\ \A q \in Sessions \ {s} : Owes(todo'[t], q) = Owes(todo[t], q)
  <2>1. PICK l, f, r : l = todo[t] /\ f = ReleaseRef(s) /\ r = todo'[t]
    OBVIOUS
  <2>2. /\ Shifted(l, f, r) /\ Paired(l) /\ f = ReleaseRef(s)
        /\ At(l, Len(l)).do \in IoTypes /\ At(l, Len(l)).s = s
    BY <1>1, <1>2, <2>1
  <2>3. /\ Paired(r) /\ Moved(Owes(l, s), Owes(r, s))
        /\ OwesElse(l, r, s)
    BY <2>2, RefusedStep
  <2> QED
    BY <2>1, <2>3 DEF OwesElse
<1>4. PairedAll'
  BY <1>1, <1>3 DEF PairedAll
<1>5. \A q \in Sessions \ {s} : Owed(q)' = Owed(q)
  <2> TAKE q \in Sessions \ {s}
  <2>1. Spread(OwesAll(todo', q)) = Spread(OwesAll(todo, q))
    BY <1>1, <1>3, OthersOwe
  <2> QED
    BY <1>1, <2>1, OwedSpread
<1>6. IsFiniteSet(Spread(OwesAll(todo, s))) =>
        /\ IsFiniteSet(Spread(OwesAll(todo', s)))
        /\ Cardinality(Spread(OwesAll(todo', s))) = Cardinality(Spread(OwesAll(todo, s)))
  <2>1. PICK n \in Owes(todo[t], s), m \in Nat :
           m \notin Owes(todo[t], s) /\ Owes(todo'[t], s) = (Owes(todo[t], s) \ {n}) \cup {m}
    BY <1>3 DEF Moved
  <2>2. n \in Nat
    BY DEF Owes
  <2>3. /\ \A u \in Threads \ {t} : OwesAll(todo', s)[u] = OwesAll(todo, s)[u]
        /\ n \in OwesAll(todo, s)[t] /\ m \notin OwesAll(todo, s)[t]
        /\ OwesAll(todo', s)[t] = (OwesAll(todo, s)[t] \ {n}) \cup {m}
    BY <1>1, <2>1, OthersOwe
  <2> QED
    BY <2>2, <2>3, SpreadMove
<1> QED
  BY <1>1, <1>4, <1>5, <1>6, OwedSpread

\* An idle thread gets a list.
LEMMA QuietTakes ==
  ASSUME TypeOK, PairedAll, NEW t \in Threads, NEW l \in Lists, Quiet(l),
         todo[t] = <<>>, todo' = [todo EXCEPT ![t] = l]
  PROVE  PairedAll' /\ \A q \in Sessions : Owed(q)' = Owed(q)
<1>1. /\ todo' \in [Threads -> Lists] /\ todo \in [Threads -> Lists] /\ todo'[t] = l
      /\ \A u \in Threads \ {t} : todo'[u] = todo[u]
  BY TypeParts
<1>2. Paired(l) /\ \A q \in Sessions : Owes(l, q) = {}
  BY NewList
<1>3. \A q \in Sessions : Owes(todo[t], q) = {}
  BY QuietLists, NewList
<1>4. PairedAll'
  BY <1>1, <1>2 DEF PairedAll
<1>5. \A q \in Sessions : Owed(q)' = Owed(q)
  <2> TAKE q \in Sessions
  <2>1. Spread(OwesAll(todo', q)) = Spread(OwesAll(todo, q))
    BY <1>1, <1>2, <1>3, OthersOwe
  <2> QED
    BY <1>1, <2>1, OwedSpread
<1> QED
  BY <1>4, <1>5

LEMMA CompleteTakes ==
  ASSUME TypeOK, PairedAll, NEW t \in Threads, NEW io \in IoTypes, NEW s \in Sessions,
         todo[t] = <<>>, todo' = [todo EXCEPT ![t] = Complete(io, s)]
  PROVE  /\ PairedAll' /\ \A q \in Sessions \ {s} : Owed(q)' = Owed(q)
         /\ IsFiniteSet(Owed(s)) =>
              /\ IsFiniteSet(Owed(s)') /\ Cardinality(Owed(s)) \in Nat
              /\ Cardinality(Owed(s)') = Cardinality(Owed(s)) + 1
<1>1. PICK l : l = Complete(io, s)
  OBVIOUS
<1>2. /\ l \in Lists /\ Paired(l)
      /\ Owes(l, s) = {2} /\ \A q \in Sessions \ {s} : Owes(l, q) = {}
  BY <1>1, CompleteList
<1>3. /\ todo' \in [Threads -> Lists] /\ todo \in [Threads -> Lists] /\ todo'[t] = l
      /\ \A u \in Threads \ {t} : todo'[u] = todo[u]
  BY <1>1, <1>2, TypeParts
<1>4. \A q \in Sessions : Owes(todo[t], q) = {}
  BY QuietLists, NewList
<1>5. PairedAll'
  BY <1>2, <1>3 DEF PairedAll
<1>6. \A q \in Sessions \ {s} : Owed(q)' = Owed(q)
  <2> TAKE q \in Sessions \ {s}
  <2>1. Spread(OwesAll(todo', q)) = Spread(OwesAll(todo, q))
    BY <1>2, <1>3, <1>4, OthersOwe
  <2> QED
    BY <1>3, <2>1, OwedSpread
<1>7. IsFiniteSet(Spread(OwesAll(todo, s))) =>
        /\ IsFiniteSet(Spread(OwesAll(todo', s)))
        /\ Cardinality(Spread(OwesAll(todo, s))) \in Nat
        /\ Cardinality(Spread(OwesAll(todo', s))) = Cardinality(Spread(OwesAll(todo, s))) + 1
  <2>1. /\ \A u \in Threads \ {t} : OwesAll(todo', s)[u] = OwesAll(todo, s)[u]
        /\ 2 \notin OwesAll(todo, s)[t]
        /\ OwesAll(todo', s)[t] = OwesAll(todo, s)[t] \cup {2}
    <3>1. /\ \A u \in Threads \ {t} : OwesAll(todo', s)[u] = OwesAll(todo, s)[u]
          /\ OwesAll(todo', s)[t] = Owes(todo'[t], s)
          /\ OwesAll(todo, s)[t] = Owes(todo[t], s)
      BY <1>3 DEF OwesAll
    <3>2. Owes(todo'[t], s) = {2} /\ Owes(todo[t], s) = {}
      BY <1>2, <1>3, <1>4
    <3> QED
      BY <3>1, <3>2
  <2> QED
    BY <2>1, SpreadAdd
<1> QED
  BY <1>3, <1>5, <1>6, <1>7, OwedSpread

-----------------------------------------------------------------------------
(* Who still receives from a session *)

LEMMA OthersListen ==
  ASSUME NEW T, NEW t \in Threads, NEW s, \A u \in Threads \ {t} : T[u] = todo[u]
  PROVE  /\ \A u \in Threads \ {t} : ListensAll(T, s)[u] = ListensAll(todo, s)[u]
         /\ ListensAll(T, s)[t] = Listens(T[t], s)
         /\ ListensAll(todo, s)[t] = Listens(todo[t], s)
         /\ Listens(T[t], s) = Listens(todo[t], s) =>
              Spread(ListensAll(T, s)) = Spread(ListensAll(todo, s))
<1>1. /\ \A u \in Threads \ {t} : ListensAll(T, s)[u] = ListensAll(todo, s)[u]
      /\ ListensAll(T, s)[t] = Listens(T[t], s)
      /\ ListensAll(todo, s)[t] = Listens(todo[t], s)
  BY DEF ListensAll
<1> QED
  BY <1>1, SpreadSame

LEMMA ListensKept ==
  ASSUME TypeOK, TypeOK', NEW t \in Threads, NEW q \in Sessions,
         \A u \in Threads \ {t} : todo'[u] = todo[u],
         Listens(todo'[t], q) = Listens(todo[t], q)
  PROVE  Receivers(q)' = Receivers(q)
<1>1. todo' \in [Threads -> Lists] /\ todo \in [Threads -> Lists]
  BY TypeParts
<1>2. Spread(ListensAll(todo', q)) = Spread(ListensAll(todo, q))
  BY OthersListen
<1> QED
  BY <1>1, <1>2, ReceiversSpread

\* The first step was not about receiving from q, nor are the new ones.
LEMMA DoesElse ==
  ASSUME TypeOK, NEW t \in Threads, NEW do, NEW s \in Sessions, NEW f \in Lists,
         Does(t, do, s, f), NEW q \in Sessions,
         q # s \/ do \notin {"RECV", "IfConnected"},
         \A i \in 1 .. Len(f) : f[i].s = q => f[i].do \notin {"RECV", "IfConnected"}
  PROVE  Listens(todo'[t], q) = Listens(todo[t], q)
<1>1. /\ Shifted(todo[t], f, todo'[t])
      /\ At(todo[t], Len(todo[t])).do = do /\ At(todo[t], Len(todo[t])).s = s
  BY DoesStep
<1>2. Listens(todo'[t], q) = Listens(todo[t], q) \ {Len(todo[t])}
  BY <1>1, ListenStep
<1>3. Len(todo[t]) \notin Listens(todo[t], q)
  BY <1>1 DEF Listens
<1> QED
  BY <1>2, <1>3

\* It was, and the new ones are not.
LEMMA DoesReceive ==
  ASSUME TypeOK, TypeOK', NEW t \in Threads, NEW do \in {"RECV", "IfConnected"},
         NEW s \in Sessions, NEW f \in Lists, Does(t, do, s, f), IsFiniteSet(Receivers(s)),
         \A i \in 1 .. Len(f) : f[i].s = s => f[i].do \notin {"RECV", "IfConnected"}
  PROVE  /\ IsFiniteSet(Receivers(s)') /\ Cardinality(Receivers(s)) \in Nat
         /\ Cardinality(Receivers(s)') = Cardinality(Receivers(s)) - 1
<1>1. /\ Shifted(todo[t], f, todo'[t]) /\ Len(todo[t]) > 0
      /\ At(todo[t], Len(todo[t])).do = do /\ At(todo[t], Len(todo[t])).s = s
      /\ \A u \in Threads \ {t} : todo'[u] = todo[u]
      /\ todo' \in [Threads -> Lists] /\ todo \in [Threads -> Lists]
  BY DoesStep, TypeParts
<1>2. Listens(todo'[t], s) = Listens(todo[t], s) \ {Len(todo[t])}
  BY <1>1, ListenStep
<1>3. Len(todo[t]) \in Nat /\ Len(todo[t]) \in Listens(todo[t], s)
  <2>1. Len(todo[t]) \in Nat
    BY <1>1, LenProperties DEF Lists
  <2> QED
    BY <1>1, <2>1 DEF Listens
<1>4. /\ \A u \in Threads \ {t} : ListensAll(todo', s)[u] = ListensAll(todo, s)[u]
      /\ Len(todo[t]) \in ListensAll(todo, s)[t]
      /\ ListensAll(todo', s)[t] = ListensAll(todo, s)[t] \ {Len(todo[t])}
  BY <1>1, <1>2, <1>3, OthersListen
<1>5. IsFiniteSet(Spread(ListensAll(todo, s)))
  BY <1>1, ReceiversSpread
<1>6. /\ IsFiniteSet(Spread(ListensAll(todo', s)))
      /\ Cardinality(Spread(ListensAll(todo, s))) \in Nat
      /\ Cardinality(Spread(ListensAll(todo', s))) = Cardinality(Spread(ListensAll(todo, s))) - 1
  BY <1>3, <1>4, <1>5, SpreadRemove
<1> QED
  BY <1>1, <1>6, ReceiversSpread

\* An idle thread gets the handler that receives next.
LEMMA TakesReceive ==
  ASSUME TypeOK, TypeOK', NEW t \in Threads, NEW s \in Sessions, NEW n \in Nat,
         \A u \in Threads \ {t} : todo'[u] = todo[u], IsFiniteSet(Receivers(s)),
         Listens(todo[t], s) = {}, Listens(todo'[t], s) = {n}
  PROVE  /\ IsFiniteSet(Receivers(s)') /\ Cardinality(Receivers(s)) \in Nat
         /\ Cardinality(Receivers(s)') = Cardinality(Receivers(s)) + 1
<1>1. todo' \in [Threads -> Lists] /\ todo \in [Threads -> Lists]
  BY TypeParts
<1>2. /\ \A u \in Threads \ {t} : ListensAll(todo', s)[u] = ListensAll(todo, s)[u]
      /\ n \notin ListensAll(todo, s)[t]
      /\ ListensAll(todo', s)[t] = ListensAll(todo, s)[t] \cup {n}
  BY OthersListen
<1>3. IsFiniteSet(Spread(ListensAll(todo, s)))
  BY <1>1, ReceiversSpread
<1>4. /\ IsFiniteSet(Spread(ListensAll(todo', s)))
      /\ Cardinality(Spread(ListensAll(todo, s))) \in Nat
      /\ Cardinality(Spread(ListensAll(todo', s))) = Cardinality(Spread(ListensAll(todo, s))) + 1
  BY <1>2, <1>3, SpreadAdd
<1> QED
  BY <1>1, <1>4, ReceiversSpread

-----------------------------------------------------------------------------
(* Where a session is *)

\* Steps that change nothing for a session that is not connected, and those
\* there are for one that is.
IdleSteps == {"Brodcast", "Unlock"}
ServingSteps ==
  {"AddRef", "RECV", "SEND", "Decrement", "IfDisconnected", "Count", "IfConnected",
   "RequestSend"}
    \cup IdleSteps

OnPool(s) ==
  \E k \in 1 .. Len(m_sessionPool) :
    \A j \in 1 .. Len(m_sessionPool) : m_sessionPool[j] = s <=> j = k

OffPool(s) == \A j \in 1 .. Len(m_sessionPool) : m_sessionPool[j] # s

Unused(s) == \A io \in IoTypes : pending[s][io] = 0

\* What is left of AcceptSessions: AcceptEx to be called, or refused and its
\* reference to be released, which gives the session back to the pool.
AcceptShape(l, s) ==
  /\ Len(l) \in 2 .. 6
  /\ \A n \in 1 .. Len(l) : At(l, n).s = s
  /\ At(l, 1).do = "Unlock"
  /\ \/ Len(l) = 3 /\ At(l, 2).do = "ACCEPT" /\ At(l, 3).do = "AddRef"
     \/ Len(l) = 2 /\ At(l, 2).do = "ACCEPT"
     \/ Len(l) = 3 /\ At(l, 2).do = "IfDisconnected" /\ At(l, 3).do = "Decrement"
     \/ Len(l) = 2 /\ At(l, 2).do \in {"IfDisconnected", "IfZero"}
     \/ /\ Len(l) > 2
        /\ At(l, 2).do = "Unlock" /\ At(l, 3).do = "PushPool"
        /\ Len(l) > 3 => At(l, 4).do = "ZeroRef"
        /\ Len(l) > 4 => At(l, 5).do = "Disconnected"
        /\ Len(l) > 5 => At(l, 6).do = "Lock"

\* What AcceptSessions is about to do.
LEMMA AcceptTop ==
  ASSUME NEW l, NEW s, AcceptShape(l, s)
  PROVE  /\ l # <<>> /\ Len(l) > 0 /\ At(l, Len(l)).s = s
         /\ At(l, Len(l)).do \in {"AddRef", "ACCEPT", "Decrement", "IfDisconnected",
              "IfZero", "Lock", "Disconnected", "ZeroRef", "PushPool"}
<1>1. PICK h \in 2 .. 6 : h = Len(l)
  BY DEF AcceptShape
<1>2. At(l, h).s = s /\ h > 0
  BY <1>1 DEF AcceptShape
<1>3. l # <<>>
  BY <1>1
<1>4. CASE h = 2
  BY <1>1, <1>2, <1>3, <1>4 DEF AcceptShape
<1>5. CASE h = 3
  BY <1>1, <1>2, <1>3, <1>5 DEF AcceptShape
<1>6. CASE h = 4
  BY <1>1, <1>2, <1>3, <1>6 DEF AcceptShape
<1>7. CASE h = 5
  BY <1>1, <1>2, <1>3, <1>7 DEF AcceptShape
<1>8. CASE h = 6
  BY <1>1, <1>2, <1>3, <1>8 DEF AcceptShape
<1> QED
  BY <1>4, <1>5, <1>6, <1>7, <1>8

\* In the pool, once.
Pooled(s) ==
  /\ OnPool(s) /\ Unused(s)
  /\ \A t \in Threads : Only(todo[t], s, IdleSteps)
  /\ Cardinality(Receivers(s)) = 0

\* In the hands of AcceptSessions.
Accepting(s) ==
  /\ OffPool(s) /\ Unused(s)
  /\ \A t \in IoThreads : Only(todo[t], s, IdleSteps)
  /\ AcceptShape(todo[Main], s)
  /\ Cardinality(Receivers(s)) = 0

\* Waiting for a client.
Accepted(s) ==
  /\ OffPool(s)
  /\ pending[s] = [io \in IoTypes |-> IF io = "ACCEPT" THEN 1 ELSE 0]
  /\ \A t \in Threads : Only(todo[t], s, IdleSteps)
  /\ Cardinality(Receivers(s)) = 0

\* A client came: an IO thread is about to mark the session connected.
Completing(s) ==
  /\ OffPool(s) /\ Unused(s)
  /\ \E t \in IoThreads :
       /\ todo[t] = Complete("ACCEPT", s)
       /\ \A u \in Threads \ {t} : Only(todo[u], s, IdleSteps)
  /\ Cardinality(Receivers(s)) = 1

\* Connected: no accept or disconnect is under way, and there is one receiver,
\* or none if a receive was refused.
Serving(s) ==
  /\ OffPool(s) /\ pending[s]["ACCEPT"] = 0 /\ pending[s]["DISCONNECT"] = 0
  /\ \A t \in Threads : Only(todo[t], s, ServingSteps)
  /\ Receiving(s) = 1 \/ (s \in deaf /\ Receiving(s) = 0)

Place(s) ==
  /\ IsFiniteSet(Receivers(s))
  /\ m_bConnected[s] => Serving(s)
  /\ ~m_bConnected[s] => Pooled(s) \/ Accepting(s) \/ Accepted(s) \/ Completing(s)

\* A step that leaves the session alone leaves it where it is.
LEMMA Frame ==
  ASSUME TypeOK, TypeOK', NEW t \in Threads, NEW q \in Sessions, Place(q),
         \A u \in Threads \ {t} : todo'[u] = todo[u],
         \/ todo[t] = <<>>
         \/ /\ Len(todo[t]) > 0
            /\ \/ At(todo[t], Len(todo[t])).s # q
               \/ At(todo[t], Len(todo[t])).do \in IdleSteps,
         \A D \in {IdleSteps, ServingSteps} : Only(todo[t], q, D) => Only(todo'[t], q, D),
         Listens(todo'[t], q) = Listens(todo[t], q),
         m_bConnected'[q] = m_bConnected[q], pending'[q] = pending[q],
         q \in deaf => q \in deaf',
         OnPool(q) => OnPool(q)', OffPool(q) => OffPool(q)'
  PROVE  Place(q)'
<1>1. Receivers(q)' = Receivers(q)
  BY ListensKept
<1>2. Receiving(q)' = Receiving(q) /\ (Unused(q) => Unused(q)')
  BY <1>1 DEF Receiving, Unused
<1>3. ASSUME NEW u \in Threads, NEW D \in {IdleSteps, ServingSteps}, Only(todo[u], q, D)
      PROVE  Only(todo'[u], q, D)
  <2>1. CASE u = t
    BY <1>3, <2>1
  <2>2. CASE u # t
    BY <1>3, <2>2
  <2> QED
    BY <2>1, <2>2
<1>4. Serving(q) => Serving(q)'
  BY <1>2, <1>3 DEF Serving
<1>5. Pooled(q) => Pooled(q)'
  BY <1>1, <1>2, <1>3 DEF Pooled
<1>6. Accepted(q) => Accepted(q)'
  BY <1>1, <1>3 DEF Accepted
<1>7. AcceptShape(todo[Main], q) => t # Main
  <2> SUFFICES ASSUME AcceptShape(todo[t], q) PROVE FALSE
    OBVIOUS
  <2> QED
    BY AcceptTop DEF IdleSteps
<1>8. Accepting(q) => Accepting(q)'
  <2> SUFFICES ASSUME Accepting(q) PROVE Accepting(q)'
    OBVIOUS
  <2>1. todo'[Main] = todo[Main]
    BY <1>7 DEF Accepting, Threads
  <2> QED
    BY <1>1, <1>2, <1>3, <2>1 DEF Accepting, Threads
<1>9. Completing(q) => Completing(q)'
  <2> SUFFICES ASSUME Completing(q) PROVE Completing(q)'
    OBVIOUS
  <2>1. PICK v \in IoThreads : /\ todo[v] = Complete("ACCEPT", q)
                               /\ \A u \in Threads \ {v} : Only(todo[u], q, IdleSteps)
    BY DEF Completing
  <2>2. v # t
    <3> SUFFICES ASSUME v = t PROVE FALSE
      OBVIOUS
    <3>1. PICK l : l = todo[t]
      OBVIOUS
    <3>2. Len(l) = 6 /\ l[1] = Step("Connected", q)
      BY <2>1, <3>1, AcceptedList
    <3>3. l # <<>>
      <4>1. Len(<<>>) = 0
        OBVIOUS
      <4>2. Len(l) # 0
        BY <3>2
      <4> QED
        BY <4>1, <4>2, Zenon
    <3>4. At(l, Len(l)).do = "Connected" /\ At(l, Len(l)).s = q
      <4>1. (6 + 1) - 6 = 1
        OBVIOUS
      <4>2. At(l, Len(l)) = Step("Connected", q)
        BY <3>2, <4>1 DEF At
      <4> QED
        BY <4>2 DEF Step
    <3> QED
      BY <3>1, <3>3, <3>4 DEF IdleSteps
  <2>3. v \in Threads /\ todo'[v] = todo[v]
    BY <2>2 DEF Threads
  <2>4. \A u \in Threads \ {v} : Only(todo'[u], q, IdleSteps)
    BY <1>3, <2>1
  <2> QED
    BY <1>1, <1>2, <2>1, <2>3, <2>4 DEF Completing
<1> QED
  BY <1>1, <1>4, <1>5, <1>6, <1>8, <1>9 DEF Place

\* The steps of f are those of session s, but for the rounds of Brodcast.
About(f, s) == \A i \in 1 .. Len(f) : f[i].s = s \/ f[i].do = "Brodcast"

LEMMA AboutLists ==
  ASSUME NEW s \in Sessions
  PROVE  /\ About(<<>>, s) /\ About(<<Step("IfZero", s)>>, s)
         /\ About(<<Step("RequestSend", s)>>, s)
         /\ About(ReleaseRef(s), s) /\ About(ReturnSession(s), s)
         /\ About(Request("SEND", s), s)
         /\ About(AcceptSteps(s), s) /\ About(Abandon(s), s)
         /\ \A io \in IoTypes : About(Complete(io, s), s)
<1>1. About(<<>>, s)
  BY DEF About
<1>2. About(<<Step("IfZero", s)>>, s) /\ About(<<Step("RequestSend", s)>>, s)
  <2>1. \A p \in Steps : Len(<<p>>) = 1 /\ <<p>>[1] = p
    BY Single
  <2>2. \A i \in 1 .. 1 : i = 1
    OBVIOUS
  <2> QED
    BY <2>1, <2>2, StepTypes, StepIs DEF About
<1>3. \A l, p, q : Len(l) = 2 /\ l[1] = Step(p, s) /\ l[2] = Step(q, s) => About(l, s)
  <2> TAKE l, p, q
  <2>1. \A i \in 1 .. 2 : i = 1 \/ i = 2
    OBVIOUS
  <2> QED
    BY <2>1 DEF About, Step
<1>4. \A l, p, q, r : Len(l) = 3 /\ l[1] = Step(p, s) /\ l[2] = Step(q, s) /\ l[3] = Step(r, s)
        => About(l, s)
  <2> TAKE l, p, q, r
  <2>1. \A i \in 1 .. 3 : i = 1 \/ i = 2 \/ i = 3
    OBVIOUS
  <2> QED
    BY <2>1 DEF About, Step
<1>5. \A l, a, b, c, d, e :
        /\ Len(l) = 5 /\ l[1] = Step(a, s) /\ l[2] = Step(b, s) /\ l[3] = Step(c, s)
        /\ l[4] = Step(d, s) /\ l[5] = Step(e, s)
        => About(l, s)
  <2> TAKE l, a, b, c, d, e
  <2>1. \A i \in 1 .. 5 : i = 1 \/ i = 2 \/ i = 3 \/ i = 4 \/ i = 5
    OBVIOUS
  <2> QED
    BY <2>1 DEF About, Step
<1>6. About(ReleaseRef(s), s) /\ About(Request("SEND", s), s)
  BY <1>3, ReleaseList, RequestList DEF IoTypes
<1>7. About(ReturnSession(s), s)
  BY <1>5, ReturnList
<1>8. About(AcceptSteps(s), s) /\ About(Abandon(s), s)
  BY <1>4, AcceptingList, AbandonList
<1>9. \A io \in IoTypes : About(Complete(io, s), s)
  <2>1. About(Complete("RECV", s), s)
    BY <1>4, ReceivedList
  <2>2. About(Complete("SEND", s), s)
    BY <1>6, SentList
  <2>3. About(Complete("DISCONNECT", s), s)
    BY <1>5, DisconnectedList
  <2>4. About(Complete("ACCEPT", s), s)
    <3>1. PICK l : l = Complete("ACCEPT", s)
      OBVIOUS
    <3>2. /\ Len(l) = 6
          /\ l[1] = Step("Connected", s) /\ l[2] = Step("Count", s)
          /\ l[3] = Step("AddRef", s) /\ l[4] = Step("RECV", s)
          /\ l[5] = Step("Decrement", s) /\ l[6] = Step("IfDisconnected", s)
      BY <3>1, AcceptedList
    <3>3. \A i \in 1 .. 6 : i = 1 \/ i = 2 \/ i = 3 \/ i = 4 \/ i = 5 \/ i = 6
      OBVIOUS
    <3>4. About(l, s)
      BY <3>2, <3>3 DEF About, Step
    <3> QED
      BY <3>1, <3>4
  <2> QED
    BY <2>1, <2>2, <2>3, <2>4 DEF IoTypes
<1> QED
  BY <1>1, <1>2, <1>6, <1>7, <1>8, <1>9

\* A step on another session, or one that sends or unlocks.
LEMMA SideStep ==
  ASSUME TypeOK, TypeOK', NEW t \in Threads, NEW do, NEW s \in Sessions, NEW f \in Lists,
         Does(t, do, s, f), NEW q \in Sessions, q # s \/ do \in IdleSteps,
         \A i \in 1 .. Len(f) : f[i].s = q => f[i].do = "Brodcast", Place(q),
         m_bConnected'[q] = m_bConnected[q], pending'[q] = pending[q],
         q \in deaf => q \in deaf',
         OnPool(q) => OnPool(q)', OffPool(q) => OffPool(q)'
  PROVE  Place(q)'
<1>1. /\ Shifted(todo[t], f, todo'[t]) /\ Len(todo[t]) > 0
      /\ At(todo[t], Len(todo[t])).do = do /\ At(todo[t], Len(todo[t])).s = s
      /\ \A u \in Threads \ {t} : todo'[u] = todo[u]
  BY DoesStep
<1>2. \A D \in {IdleSteps, ServingSteps} : Only(todo[t], q, D) => Only(todo'[t], q, D)
  <2> TAKE D \in {IdleSteps, ServingSteps}
  <2>1. "Brodcast" \in D
    BY DEF IdleSteps, ServingSteps
  <2>2. \A i \in 1 .. Len(f) : f[i].s = q => f[i].do \in D
    BY <2>1
  <2> QED
    BY <1>1, <2>2, OnlyStep
<1>3. Listens(todo'[t], q) = Listens(todo[t], q)
  <2>1. q # s \/ do \notin {"RECV", "IfConnected"}
    BY DEF IdleSteps
  <2>2. \A i \in 1 .. Len(f) : f[i].s = q => f[i].do \notin {"RECV", "IfConnected"}
    OBVIOUS
  <2> QED
    BY <2>1, <2>2, DoesElse
<1>4. At(todo[t], Len(todo[t])).s # q \/ At(todo[t], Len(todo[t])).do \in IdleSteps
  BY <1>1
<1> QED
  BY <1>1, <1>2, <1>3, <1>4, Frame

\* An idle thread gets steps on other sessions.
LEMMA SideTakes ==
  ASSUME TypeOK, TypeOK', NEW t \in Threads, NEW l \in Lists, todo[t] = <<>>,
         todo' = [todo EXCEPT ![t] = l], NEW q \in Sessions,
         \A i \in 1 .. Len(l) : l[i].s = q => l[i].do = "Brodcast", Place(q),
         m_bConnected'[q] = m_bConnected[q], pending'[q] = pending[q],
         q \in deaf => q \in deaf',
         OnPool(q) => OnPool(q)', OffPool(q) => OffPool(q)'
  PROVE  Place(q)'
<1>1. todo'[t] = l /\ \A u \in Threads \ {t} : todo'[u] = todo[u]
  BY TypeParts
<1>2. \A D \in {IdleSteps, ServingSteps} : Only(todo[t], q, D) => Only(todo'[t], q, D)
  <2> TAKE D \in {IdleSteps, ServingSteps}
  <2>1. "Brodcast" \in D
    BY DEF IdleSteps, ServingSteps
  <2>2. \A i \in 1 .. Len(l) : l[i].s = q => l[i].do \in D
    BY <2>1
  <2> QED
    BY <1>1, <2>2, OnlyNew
<1>3. Listens(todo'[t], q) = Listens(todo[t], q)
  <2>1. \A i \in 1 .. Len(l) : l[i].s = q => l[i].do \in StepNames \ {"RECV", "IfConnected"}
    BY DEF StepNames
  <2>2. Listens(l, q) = {}
    BY <2>1, OnlyNew, ListenNew
  <2>3. Only(<<>>, q, StepNames \ {"RECV", "IfConnected"})
    BY DEF Only
  <2>4. Listens(<<>>, q) = {}
    BY <2>3, ListTypes, ListenNew
  <2> QED
    BY <1>1, <2>2, <2>4
<1> QED
  BY <1>1, <1>2, <1>3, Frame

\* A step of a session that is served.
LEMMA ServeStep ==
  ASSUME TypeOK, TypeOK', NEW t \in Threads, NEW do, NEW s \in Sessions, NEW f \in Lists,
         Does(t, do, s, f), Place(s), m_bConnected[s], m_bConnected'[s],
         m_sessionPool' = m_sessionPool,
         pending'[s]["ACCEPT"] = pending[s]["ACCEPT"],
         pending'[s]["DISCONNECT"] = pending[s]["DISCONNECT"],
         \A i \in 1 .. Len(f) : f[i].s = s => f[i].do \in ServingSteps,
         IsFiniteSet(Receivers(s)'),
         Receiving(s)' = 1 \/ (s \in deaf' /\ Receiving(s)' = 0)
  PROVE  Place(s)'
<1>1. /\ Shifted(todo[t], f, todo'[t])
      /\ \A u \in Threads \ {t} : todo'[u] = todo[u]
  BY DoesStep
<1>2. Serving(s)
  BY DEF Place
<1>3. \A u \in Threads : Only(todo'[u], s, ServingSteps)
  <2> TAKE u \in Threads
  <2>1. CASE u = t
    BY <1>1, <1>2, <2>1, OnlyStep DEF Serving
  <2>2. CASE u # t
    BY <1>1, <1>2, <2>2 DEF Serving
  <2> QED
    BY <2>1, <2>2
<1>4. OffPool(s)'
  BY <1>2 DEF Serving, OffPool
<1>5. Serving(s)'
  BY <1>2, <1>3, <1>4 DEF Serving
<1> QED
  BY <1>5 DEF Place

\* One step of AcceptSessions.
LEMMA AcceptPop ==
  ASSUME NEW l, NEW s, NEW r, AcceptShape(l, s), Shifted(l, <<>>, r)
  PROVE  /\ At(l, Len(l)).do \in {"AddRef", "Decrement", "Lock", "Disconnected", "ZeroRef"}
              => AcceptShape(r, s)
         /\ At(l, Len(l)).do \in {"ACCEPT", "PushPool"} => Only(r, s, IdleSteps)
<1>1. PICK h \in 2 .. 6 : h = Len(l) /\ Len(r) = h - 1
  <2>1. Len(l) \in 2 .. 6 /\ Len(r) = Len(l) - 1
    BY DEF AcceptShape, Shifted
  <2> QED
    BY <2>1
<1>2. \A n \in 1 .. h - 1 : At(r, n) = At(l, n) /\ At(r, n).s = s
  BY <1>1 DEF AcceptShape, Shifted
<1>3. CASE h = 2
  <2>1. Len(r) = 1 /\ At(r, 1).do = "Unlock" /\ \A n \in 1 .. 1 : n = 1
    BY <1>1, <1>2, <1>3 DEF AcceptShape
  <2>2. Only(r, s, IdleSteps)
    BY <2>1 DEF Only, IdleSteps
  <2>3. At(l, 2).do \in {"ACCEPT", "IfDisconnected", "IfZero"}
    BY <1>1, <1>3 DEF AcceptShape
  <2> QED
    BY <1>1, <1>3, <2>2, <2>3
<1>4. CASE h = 3
  <2>1. /\ Len(r) = 2 /\ At(r, 1).do = "Unlock" /\ At(r, 2) = At(l, 2)
        /\ \A n \in 1 .. 2 : n = 1 \/ n = 2
    BY <1>1, <1>2, <1>4 DEF AcceptShape
  <2>2. \/ At(l, 2).do = "ACCEPT" /\ At(l, 3).do = "AddRef"
        \/ At(l, 2).do = "IfDisconnected" /\ At(l, 3).do = "Decrement"
        \/ At(l, 2).do = "Unlock" /\ At(l, 3).do = "PushPool"
    BY <1>1, <1>4 DEF AcceptShape
  <2>3. \A n \in 1 .. 2 : At(r, n).s = s
    BY <1>2, <1>4
  <2>4. At(l, Len(l)).do \in {"ACCEPT", "PushPool"} => Only(r, s, IdleSteps)
    BY <1>1, <1>4, <2>1, <2>2 DEF Only, IdleSteps
  <2>5. At(l, 3).do \in {"AddRef", "Decrement"} => AcceptShape(r, s)
    BY <2>1, <2>2, <2>3 DEF AcceptShape
  <2> QED
    BY <1>1, <1>4, <2>2, <2>4, <2>5
<1>5. CASE h > 3
  <2>1. /\ At(l, 1).do = "Unlock" /\ At(l, 2).do = "Unlock" /\ At(l, 3).do = "PushPool"
        /\ At(l, 4).do = "ZeroRef" /\ (h > 4 => At(l, 5).do = "Disconnected")
        /\ h > 5 => At(l, 6).do = "Lock"
    BY <1>1, <1>5 DEF AcceptShape
  <2>2. /\ h - 1 \in 3 .. 5 /\ At(r, 1).do = "Unlock" /\ At(r, 2).do = "Unlock"
        /\ At(r, 3).do = "PushPool" /\ (h - 1 > 3 => At(r, 4).do = "ZeroRef")
        /\ h - 1 > 4 => At(r, 5).do = "Disconnected"
    BY <1>2, <1>5, <2>1
  <2>3. AcceptShape(r, s)
    BY <1>1, <1>2, <2>2 DEF AcceptShape
  <2>4. At(l, h).do \notin {"ACCEPT", "PushPool"}
    <3>1. h = 4 \/ h = 5 \/ h = 6
      BY <1>5
    <3> QED
      BY <2>1, <3>1
  <2> QED
    BY <1>1, <2>3, <2>4
<1>6. h = 2 \/ h = 3 \/ h > 3
  OBVIOUS
<1> QED
  BY <1>3, <1>4, <1>5, <1>6

LEMMA AcceptPush ==
  ASSUME NEW l, NEW s \in Sessions, NEW f, NEW r, AcceptShape(l, s), Shifted(l, f, r)
  PROVE  /\ At(l, Len(l)).do = "ACCEPT" /\ f = ReleaseRef(s) => AcceptShape(r, s)
         /\ At(l, Len(l)).do = "IfDisconnected" /\ f = <<Step("IfZero", s)>>
              => AcceptShape(r, s)
         /\ At(l, Len(l)).do = "IfZero" /\ f = ReturnSession(s) => AcceptShape(r, s)
<1>1. PICK h \in 2 .. 6 : h = Len(l)
  BY DEF AcceptShape
<1>2. At(l, h).do \in {"ACCEPT", "IfDisconnected", "IfZero"} => h = 2
  <2>1. CASE h = 2
    BY <2>1
  <2>2. CASE h = 3
    BY <1>1, <2>2 DEF AcceptShape
  <2>3. CASE h > 3
    <3>1. /\ At(l, 4).do = "ZeroRef" /\ (h > 4 => At(l, 5).do = "Disconnected")
          /\ h > 5 => At(l, 6).do = "Lock"
      BY <1>1, <2>3 DEF AcceptShape
    <3>2. h = 4 \/ h = 5 \/ h = 6
      BY <2>3
    <3> QED
      BY <3>1, <3>2
  <2> QED
    BY <2>1, <2>2, <2>3
<1>3. h = 2 => At(r, 1).do = "Unlock" /\ At(r, 1).s = s
  <2>1. h = 2 => At(r, 1) = At(l, 1)
    BY <1>1 DEF Shifted
  <2> QED
    BY <1>1, <2>1 DEF AcceptShape
<1>4. h = 2 => Len(r) = 1 + Len(f) /\ \A n \in 2 .. Len(r) : At(r, n) = f[Len(r) + 1 - n]
  <2>1. h = 2 => Len(r) = 2 - 1 + Len(f) /\ \A n \in 2 .. Len(r) : At(r, n) = f[Len(r) + 1 - n]
    BY <1>1 DEF Shifted
  <2>2. Len(f) \in Nat
    BY LenProperties DEF Shifted, Lists
  <2> QED
    BY <2>1, <2>2
<1>5. ASSUME h = 2, f = ReleaseRef(s)
      PROVE  AcceptShape(r, s)
  <2>1. /\ Len(f) = 2 /\ f[1].do = "Decrement" /\ f[1].s = s
        /\ f[2].do = "IfDisconnected" /\ f[2].s = s
    <3>1. Len(f) = 2 /\ f[1] = Step("Decrement", s) /\ f[2] = Step("IfDisconnected", s)
      BY <1>5, ReleaseList
    <3> QED
      BY <3>1 DEF Step
  <2>2. Len(r) = 3 /\ At(r, 2) = f[2] /\ At(r, 3) = f[1]
    <3>1. Len(r) = 3
      BY <1>4, <1>5, <2>1
    <3>2. At(r, 2) = f[(3 + 1) - 2] /\ At(r, 3) = f[(3 + 1) - 3]
      BY <1>4, <1>5, <3>1
    <3>3. (3 + 1) - 2 = 2 /\ (3 + 1) - 3 = 1
      OBVIOUS
    <3> QED
      BY <3>1, <3>2, <3>3, Zenon
  <2>3. \A n \in 1 .. 3 : n = 1 \/ n = 2 \/ n = 3
    OBVIOUS
  <2> QED
    BY <1>3, <1>5, <2>1, <2>2, <2>3 DEF AcceptShape
<1>6. ASSUME h = 2, f = <<Step("IfZero", s)>>
      PROVE  AcceptShape(r, s)
  <2>1. Len(f) = 1 /\ f[1].do = "IfZero" /\ f[1].s = s
    BY <1>6, Single, StepTypes, StepIs
  <2>2. Len(r) = 2 /\ At(r, 2) = f[1]
    <3>1. Len(r) = 2
      BY <1>4, <1>6, <2>1
    <3>2. At(r, 2) = f[(2 + 1) - 2]
      BY <1>4, <1>6, <3>1
    <3>3. (2 + 1) - 2 = 1
      OBVIOUS
    <3> QED
      BY <3>1, <3>2, <3>3, Zenon
  <2>3. \A n \in 1 .. 2 : n = 1 \/ n = 2
    OBVIOUS
  <2> QED
    BY <1>3, <1>6, <2>1, <2>2, <2>3 DEF AcceptShape
<1>7. ASSUME h = 2, f = ReturnSession(s)
      PROVE  AcceptShape(r, s)
  <2>1. /\ Len(f) = 5 /\ f[1].do = "Lock" /\ f[2].do = "Disconnected"
        /\ f[3].do = "ZeroRef" /\ f[4].do = "PushPool" /\ f[5].do = "Unlock"
        /\ f[1].s = s /\ f[2].s = s /\ f[3].s = s /\ f[4].s = s /\ f[5].s = s
    <3>1. /\ Len(f) = 5 /\ f[1] = Step("Lock", s) /\ f[2] = Step("Disconnected", s)
          /\ f[3] = Step("ZeroRef", s) /\ f[4] = Step("PushPool", s)
          /\ f[5] = Step("Unlock", s)
      BY <1>7, ReturnList
    <3> QED
      BY <3>1 DEF Step
  <2>2. /\ Len(r) = 6 /\ At(r, 2) = f[5] /\ At(r, 3) = f[4] /\ At(r, 4) = f[3]
        /\ At(r, 5) = f[2] /\ At(r, 6) = f[1]
    <3>1. Len(r) = 6
      BY <1>4, <1>7, <2>1
    <3>2. /\ At(r, 2) = f[(6 + 1) - 2] /\ At(r, 3) = f[(6 + 1) - 3]
          /\ At(r, 4) = f[(6 + 1) - 4] /\ At(r, 5) = f[(6 + 1) - 5]
          /\ At(r, 6) = f[(6 + 1) - 6]
      BY <1>4, <1>7, <3>1
    <3>3. /\ (6 + 1) - 2 = 5 /\ (6 + 1) - 3 = 4 /\ (6 + 1) - 4 = 3
          /\ (6 + 1) - 5 = 2 /\ (6 + 1) - 6 = 1
      OBVIOUS
    <3> QED
      BY <3>1, <3>2, <3>3, Zenon
  <2>3. \A n \in 1 .. 6 : n = 1 \/ n = 2 \/ n = 3 \/ n = 4 \/ n = 5 \/ n = 6
    OBVIOUS
  <2> QED
    BY <1>3, <1>7, <2>1, <2>2, <2>3 DEF AcceptShape
<1> QED
  BY <1>1, <1>2, <1>5, <1>6, <1>7

\* Nothing is owed to a session that AcceptSessions is done with.
LEMMA AcceptOwes ==
  ASSUME NEW l, NEW s, AcceptShape(l, s), At(l, Len(l)).do \in {"IfZero", "ZeroRef"}
  PROVE  Owes(l, s) = {}
<1>1. PICK h \in 2 .. 6 : h = Len(l)
  BY DEF AcceptShape
<1>2. At(l, h).do = "IfZero" \/ At(l, h).do = "ZeroRef"
  BY <1>1
<1>3. CASE h = 2
  <2>1. At(l, 1).do = "Unlock" /\ At(l, 2).do = "IfZero"
    BY <1>1, <1>2, <1>3 DEF AcceptShape
  <2>2. \A n \in 1 .. 2 : n = 1 \/ n = 2
    OBVIOUS
  <2> QED
    BY <1>1, <1>3, <2>1, <2>2 DEF Owes, IoTypes
<1>4. CASE h = 3
  BY <1>1, <1>2, <1>4 DEF AcceptShape
<1>5. CASE h > 3
  <2>1. /\ At(l, 1).do = "Unlock" /\ At(l, 2).do = "Unlock" /\ At(l, 3).do = "PushPool"
        /\ At(l, 4).do = "ZeroRef" /\ (h > 4 => At(l, 5).do = "Disconnected")
        /\ h > 5 => At(l, 6).do = "Lock"
    BY <1>1, <1>5 DEF AcceptShape
  <2>2. \A n \in 1 .. h : n = 1 \/ n = 2 \/ n = 3 \/ n = 4 \/ (n = 5 /\ h > 4) \/ (n = 6 /\ h > 5)
    OBVIOUS
  <2>3. \A n \in 1 .. h : At(l, n).do # "Decrement" /\ At(l, n).do \notin IoTypes
    BY <2>1, <2>2 DEF IoTypes
  <2> QED
    BY <1>1, <2>3 DEF Owes
<1> QED
  BY <1>3, <1>4, <1>5

\* Which steps there can be on a session, where it is.
LEMMA Stage ==
  ASSUME TypeOK, NEW t \in Threads, NEW do, NEW s \in Sessions, NEW f \in Lists,
         Does(t, do, s, f), Place(s)
  PROVE  /\ m_bConnected[s] => Serving(s) /\ do \in ServingSteps
         /\ ~m_bConnected[s] =>
              \/ do \in IdleSteps
              \/ Accepting(s) /\ t = Main /\ AcceptShape(todo[t], s)
              \/ Completing(s) /\ do = "Connected" /\ todo[t] = Complete("ACCEPT", s)
<1>1. /\ Shifted(todo[t], f, todo'[t]) /\ Len(todo[t]) > 0
      /\ At(todo[t], Len(todo[t])).do = do /\ At(todo[t], Len(todo[t])).s = s
  BY DoesStep
<1>2. \A D : Only(todo[t], s, D) => do \in D
  <2>1. Len(todo[t]) \in 1 .. Len(todo[t])
    BY <1>1, LenProperties DEF Shifted, Lists
  <2> QED
    BY <1>1, <2>1 DEF Only
<1>3. m_bConnected[s] => Serving(s) /\ do \in ServingSteps
  BY <1>2 DEF Place, Serving
<1>4. Pooled(s) \/ Accepted(s) => do \in IdleSteps
  BY <1>2 DEF Pooled, Accepted
<1>5. Accepting(s) => do \in IdleSteps \/ (t = Main /\ AcceptShape(todo[t], s))
  BY <1>2 DEF Accepting, Threads
<1>6. ASSUME Completing(s)
      PROVE  do \in IdleSteps \/ (do = "Connected" /\ todo[t] = Complete("ACCEPT", s))
  <2>1. PICK v \in IoThreads : /\ todo[v] = Complete("ACCEPT", s)
                               /\ \A u \in Threads \ {v} : Only(todo[u], s, IdleSteps)
    BY <1>6 DEF Completing
  <2>2. CASE v # t
    BY <1>2, <2>1, <2>2
  <2>3. CASE v = t
    <3>1. PICK l : l = todo[t]
      OBVIOUS
    <3>2. Len(l) = 6 /\ l[1] = Step("Connected", s)
      BY <2>1, <2>3, <3>1, AcceptedList
    <3>3. (6 + 1) - 6 = 1
      OBVIOUS
    <3>4. At(l, Len(l)) = Step("Connected", s)
      BY <3>2, <3>3 DEF At
    <3>5. do = "Connected"
      BY <1>1, <3>1, <3>4 DEF Step
    <3> QED
      BY <2>1, <2>3, <3>5
  <2> QED
    BY <2>2, <2>3
<1> QED
  BY <1>3, <1>4, <1>5, <1>6 DEF Place

-----------------------------------------------------------------------------
(* The invariant *)

Balanced(s) ==
  IsFiniteSet(Owed(s)) /\ m_nRef[s] = Outstanding(s) + Cardinality(Owed(s))

IInv ==
  /\ TypeOK
  /\ PairedAll
  /\ \A s \in Sessions \ broken : Place(s) /\ Balanced(s)

Kept == PairedAll' /\ \A s \in Sessions \ broken' : Place(s)' /\ Balanced(s)'

\* The kinds of the steps of a list.
Kinds(f, D) == \A i \in 1 .. Len(f) : f[i].do \in D

LEMMA KindsLists ==
  ASSUME NEW s \in Sessions
  PROVE  /\ Kinds(<<>>, {})
         /\ Kinds(<<Step("IfZero", s)>>, {"IfZero"})
         /\ Kinds(ReleaseRef(s), {"Decrement", "IfDisconnected"})
         /\ Kinds(ReturnSession(s), {"Lock", "Disconnected", "ZeroRef", "PushPool", "Unlock"})
         /\ Kinds(Request("SEND", s), {"AddRef", "SEND"})
         /\ Kinds(<<Step("RequestSend", s)>>, {"RequestSend"})
         /\ Kinds(Complete("RECV", s), {"IfConnected", "Decrement", "IfDisconnected"})
<1>1. Kinds(<<>>, {})
  BY DEF Kinds
<1>2. /\ Kinds(<<Step("IfZero", s)>>, {"IfZero"})
      /\ Kinds(<<Step("RequestSend", s)>>, {"RequestSend"})
  <2>1. \A p \in Steps : Len(<<p>>) = 1 /\ <<p>>[1] = p
    BY Single
  <2>2. \A i \in 1 .. 1 : i = 1
    OBVIOUS
  <2> QED
    BY <2>1, <2>2, StepTypes, StepIs DEF Kinds
<1>3. \A l, p, q : Len(l) = 2 /\ l[1] = Step(p, s) /\ l[2] = Step(q, s) => Kinds(l, {p, q})
  <2> TAKE l, p, q
  <2>1. \A i \in 1 .. 2 : i = 1 \/ i = 2
    OBVIOUS
  <2> QED
    BY <2>1 DEF Kinds, Step
<1>4. Kinds(ReleaseRef(s), {"Decrement", "IfDisconnected"})
  BY <1>3, ReleaseList
<1>5. Kinds(Request("SEND", s), {"AddRef", "SEND"})
  BY <1>3, RequestList DEF IoTypes
<1>6. Kinds(ReturnSession(s), {"Lock", "Disconnected", "ZeroRef", "PushPool", "Unlock"})
  <2>1. PICK l : l = ReturnSession(s)
    OBVIOUS
  <2>2. /\ Len(l) = 5 /\ l[1] = Step("Lock", s) /\ l[2] = Step("Disconnected", s)
        /\ l[3] = Step("ZeroRef", s) /\ l[4] = Step("PushPool", s)
        /\ l[5] = Step("Unlock", s)
    BY <2>1, ReturnList
  <2>3. \A i \in 1 .. 5 : i = 1 \/ i = 2 \/ i = 3 \/ i = 4 \/ i = 5
    OBVIOUS
  <2>4. Kinds(l, {"Lock", "Disconnected", "ZeroRef", "PushPool", "Unlock"})
    BY <2>2, <2>3 DEF Kinds, Step
  <2> QED
    BY <2>1, <2>4
<1>7. Kinds(Complete("RECV", s), {"IfConnected", "Decrement", "IfDisconnected"})
  <2>1. PICK l : l = Complete("RECV", s)
    OBVIOUS
  <2>2. Len(l) = 3 /\ l[1] = Step("IfConnected", s) /\ l[2] = Step("Decrement", s)
        /\ l[3] = Step("IfDisconnected", s)
    BY <2>1, ReceivedList
  <2>3. \A i \in 1 .. 3 : i = 1 \/ i = 2 \/ i = 3
    OBVIOUS
  <2>4. Kinds(l, {"IfConnected", "Decrement", "IfDisconnected"})
    BY <2>2, <2>3 DEF Kinds, Step
  <2> QED
    BY <2>1, <2>4
<1> QED
  BY <1>1, <1>2, <1>4, <1>5, <1>6, <1>7

\* What the handler of a packet of s is about.
LEMMA HandleAbout ==
  ASSUME NEW s \in Sessions, NEW a \in Lists, Sends(a, s), NEW l, l = HandleSteps(s, a)
  PROVE  About(l, s) /\ Kinds(l, {"Brodcast", "RequestSend", "AddRef", "RECV"})
<1>1. PICK k \in Nat :
        /\ Len(l) = k + 2
        /\ \A i \in 1 .. k : l[i].do = "Brodcast" \/ (l[i].do = "RequestSend" /\ l[i].s = s)
        /\ l[k + 1].do = "AddRef" /\ l[k + 1].s = s
        /\ l[k + 2].do = "RECV" /\ l[k + 2].s = s
  BY HandlingList
<1>2. \A i \in 1 .. k + 2 : i \in 1 .. k \/ i = k + 1 \/ i = k + 2
  OBVIOUS
<1> QED
  BY <1>1, <1>2 DEF About, Kinds

\* The other sessions, when a step is about s.
LEMMA OtherSessions ==
  ASSUME IInv, TypeOK', NEW t \in Threads, NEW do, NEW s \in Sessions, NEW f \in Lists,
         Does(t, do, s, f), About(f, s), NEW q \in Sessions \ broken, q # s,
         Owed(q)' = Owed(q),
         m_bConnected'[q] = m_bConnected[q], pending'[q] = pending[q],
         m_nRef'[q] = m_nRef[q], q \in deaf => q \in deaf',
         m_sessionPool' = m_sessionPool
  PROVE  Place(q)' /\ Balanced(q)'
<1>1. TypeOK /\ Place(q) /\ Balanced(q)
  BY DEF IInv
<1>2. \A i \in 1 .. Len(f) : f[i].s = q => f[i].do = "Brodcast"
  BY DEF About
<1>3. (OnPool(q) => OnPool(q)') /\ (OffPool(q) => OffPool(q)')
  BY DEF OnPool, OffPool
<1>4. Place(q)'
  <2>1. q \in Sessions /\ (q # s \/ do \in IdleSteps)
    OBVIOUS
  <2>2. TypeOK /\ TypeOK' /\ Does(t, do, s, f) /\ Place(q)
    BY <1>1
  <2>3. ASSUME NEW x \in Sessions, x # s \/ do \in IdleSteps,
         \A i \in 1 .. Len(f) : f[i].s = x => f[i].do = "Brodcast", Place(x),
         m_bConnected'[x] = m_bConnected[x], pending'[x] = pending[x],
         x \in deaf => x \in deaf',
         OnPool(x) => OnPool(x)', OffPool(x) => OffPool(x)'
        PROVE Place(x)'
    BY <2>2, <2>3, SideStep
  <2>4. m_bConnected'[q] = m_bConnected[q] /\ pending'[q] = pending[q] /\
         (q \in deaf => q \in deaf')
    OBVIOUS
  <2> QED
    BY <1>2, <1>3, <2>1, <2>2, <2>3, <2>4
<1>5. Balanced(q)'
  <2>1. Outstanding(q)' = Outstanding(q)
    BY DEF Outstanding
  <2>2. IsFiniteSet(Owed(q)') /\ Cardinality(Owed(q))' = Cardinality(Owed(q))
    BY <1>1 DEF Balanced
  <2>3. m_nRef[q]' = Outstanding(q)' + Cardinality(Owed(q))'
    <3>1. m_nRef[q] = Outstanding(q) + Cardinality(Owed(q))
      BY <1>1 DEF Balanced
    <3> QED
      BY <2>1, <2>2, <3>1
  <2> QED
    BY <2>2, <2>3 DEF Balanced
<1> QED
  BY <1>4, <1>5

\* AcceptSessions goes on.
LEMMA AcceptingStep ==
  ASSUME TypeOK, TypeOK', NEW do, NEW s \in Sessions, NEW f \in Lists,
         Does(Main, do, s, f), Place(s), Accepting(s), ~m_bConnected'[s],
         AcceptShape(todo'[Main], s), do \notin {"RECV", "IfConnected"},
         Kinds(f, StepNames \ {"RECV", "IfConnected"}),
         m_sessionPool' = m_sessionPool, pending'[s] = pending[s]
  PROVE  Place(s)'
<1>1. Main \in Threads /\ \A u \in IoThreads : u \in Threads /\ u # Main
  BY PoolAssumption DEF Threads
<1>2. \A u \in IoThreads : todo'[u] = todo[u]
  BY <1>1, DoesStep
<1>3. \A i \in 1 .. Len(f) : f[i].s = s => f[i].do \notin {"RECV", "IfConnected"}
  BY DEF Kinds
<1>4. Listens(todo'[Main], s) = Listens(todo[Main], s)
  BY <1>1, <1>3, DoesElse
<1>5. Receivers(s)' = Receivers(s)
  <2>1. \A u \in Threads \ {Main} : todo'[u] = todo[u]
    BY <1>1, DoesStep
  <2> QED
    BY <1>1, <1>4, <2>1, ListensKept
<1>6. OffPool(s)' /\ Unused(s)'
  BY DEF Accepting, OffPool, Unused
<1>7. Accepting(s)'
  BY <1>2, <1>5, <1>6 DEF Accepting
<1> QED
  BY <1>5, <1>7 DEF Place

LEMMA KindsIn ==
  ASSUME NEW f, NEW D, NEW E, Kinds(f, D), D \subseteq E
  PROVE  Kinds(f, E)
BY DEF Kinds

LEMMA SameBalance ==
  ASSUME NEW q \in Sessions, Balanced(q), Owed(q)' = Owed(q),
         pending'[q] = pending[q], m_nRef'[q] = m_nRef[q]
  PROVE  Balanced(q)'
<1>1. Outstanding(q)' = Outstanding(q)
  BY DEF Outstanding
<1>2. IsFiniteSet(Owed(q)') /\ Cardinality(Owed(q))' = Cardinality(Owed(q))
  BY DEF Balanced
<1>3. m_nRef[q]' = Outstanding(q)' + Cardinality(Owed(q))'
  <2>1. m_nRef[q] = Outstanding(q) + Cardinality(Owed(q))
    BY DEF Balanced
  <2> QED
    BY <1>1, <1>2, <2>1
<1> QED
  BY <1>2, <1>3 DEF Balanced

\* A step about s keeps the invariant of the others.
LEMMA RestKept ==
  ASSUME IInv, TypeOK', NEW t \in Threads, NEW do, NEW s \in Sessions, NEW f \in Lists,
         Does(t, do, s, f), About(f, s), PairedAll',
         \A q \in Sessions \ {s} :
           /\ Owed(q)' = Owed(q) /\ m_bConnected'[q] = m_bConnected[q]
           /\ pending'[q] = pending[q] /\ m_nRef'[q] = m_nRef[q],
         deaf \subseteq deaf', broken' = broken, m_sessionPool' = m_sessionPool,
         s \notin broken => Place(s)' /\ Balanced(s)'
  PROVE  Kept
<1>1. ASSUME NEW q \in Sessions \ broken, q # s
      PROVE  Place(q)' /\ Balanced(q)'
  <2>1. /\ Owed(q)' = Owed(q) /\ m_bConnected'[q] = m_bConnected[q]
        /\ pending'[q] = pending[q] /\ m_nRef'[q] = m_nRef[q]
        /\ q \in deaf => q \in deaf'
    BY <1>1
  <2> QED
    BY <1>1, <2>1, OtherSessions
<1>2. \A q \in Sessions \ broken : Place(q)' /\ Balanced(q)'
  <2> TAKE q \in Sessions \ broken
  <2>1. CASE q = s
    BY <2>1
  <2>2. CASE q # s
    BY <2>2, <1>1
  <2> QED
    BY <2>1, <2>2
<1> QED
  BY <1>2 DEF Kept

\* So does one that changes no reference and starts no operation.
LEMMA QuietKept ==
  ASSUME IInv, TypeOK', NEW t \in Threads, NEW do, NEW s \in Sessions, NEW f \in Lists,
         Does(t, do, s, f), About(f, s), Quiet(f),
         do \notin IoTypes \cup {"AddRef", "Decrement"},
         \A q \in Sessions \ {s} : m_bConnected'[q] = m_bConnected[q],
         pending' = pending, m_nRef' = m_nRef, deaf' = deaf, broken' = broken,
         m_sessionPool' = m_sessionPool,
         s \notin broken => Place(s)'
  PROVE  Kept
<1>1. TypeOK /\ PairedAll
  BY DEF IInv
<1>2. PairedAll' /\ \A q \in Sessions : Owed(q)' = Owed(q)
  BY <1>1, QuietDoes
<1>3. s \notin broken => Balanced(s)'
  <2> SUFFICES ASSUME s \notin broken PROVE Balanced(s)'
    OBVIOUS
  <2>1. Balanced(s)
    BY DEF IInv
  <2> QED
    BY <1>2, <2>1, SameBalance
<1>4. \A q \in Sessions \ {s} :
         /\ Owed(q)' = Owed(q) /\ m_bConnected'[q] = m_bConnected[q]
         /\ pending'[q] = pending[q] /\ m_nRef'[q] = m_nRef[q]
  BY <1>2
<1> QED
  BY <1>2, <1>3, <1>4, RestKept

\* A step that is not about receiving.
LEMMA SameReceivers ==
  ASSUME TypeOK, TypeOK', NEW t \in Threads, NEW do, NEW s \in Sessions, NEW f \in Lists,
         Does(t, do, s, f), do \notin {"RECV", "IfConnected"},
         Kinds(f, StepNames \ {"RECV", "IfConnected"})
  PROVE  Receivers(s)' = Receivers(s)
<1>1. \A i \in 1 .. Len(f) : f[i].s = s => f[i].do \notin {"RECV", "IfConnected"}
  BY DEF Kinds
<1>2. Listens(todo'[t], s) = Listens(todo[t], s)
  BY <1>1, DoesElse
<1>3. \A u \in Threads \ {t} : todo'[u] = todo[u]
  BY DoesStep
<1> QED
  BY <1>2, <1>3, ListensKept

\* Of a session that is served.
LEMMA ServeElse ==
  ASSUME TypeOK, TypeOK', NEW t \in Threads, NEW do, NEW s \in Sessions, NEW f \in Lists,
         Does(t, do, s, f), do \notin {"RECV", "IfConnected"},
         Kinds(f, ServingSteps \ {"RECV", "IfConnected"}),
         Place(s), m_bConnected[s], m_bConnected'[s], m_sessionPool' = m_sessionPool,
         pending'[s]["ACCEPT"] = pending[s]["ACCEPT"],
         pending'[s]["DISCONNECT"] = pending[s]["DISCONNECT"],
         pending'[s]["RECV"] = pending[s]["RECV"], deaf \subseteq deaf'
  PROVE  Place(s)'
<1>1. Kinds(f, StepNames \ {"RECV", "IfConnected"})
  <2>1. ServingSteps \subseteq StepNames
    BY DEF ServingSteps, IdleSteps, StepNames, IoTypes
  <2> QED
    BY <2>1, KindsIn
<1>2. Receivers(s)' = Receivers(s)
  BY <1>1, SameReceivers
<1>3. Receiving(s)' = Receiving(s)
  BY <1>2 DEF Receiving
<1>4. IsFiniteSet(Receivers(s)') /\ (Receiving(s)' = 1 \/ (s \in deaf' /\ Receiving(s)' = 0))
  BY <1>2, <1>3 DEF Place, Serving
<1>5. \A i \in 1 .. Len(f) : f[i].s = s => f[i].do \in ServingSteps
  BY DEF Kinds
<1> QED
  BY <1>4, <1>5, ServeStep

LEMMA EmptyKinds ==
  /\ \A D : Kinds(<<>>, D)
  /\ <<>> \in Lists /\ \A s : About(<<>>, s)
BY ListTypes DEF Kinds, About

\* The session of a first step that is not an idle one: it is served, or
\* AcceptSessions has it.
LEMMA StageElse ==
  ASSUME TypeOK, NEW t \in Threads, NEW do, NEW s \in Sessions, NEW f \in Lists,
         Does(t, do, s, f), Place(s), do \notin IdleSteps, do # "Connected",
         ~m_bConnected[s]
  PROVE  Accepting(s) /\ t = Main /\ AcceptShape(todo[t], s)
BY Stage

LEMMA AddRefKept ==
  ASSUME IInv, TypeOK', NEW t \in Threads, NEW s \in Sessions, AddRef(t, s)
  PROVE  Kept
<1>1. /\ Does(t, "AddRef", s, <<>>) /\ <<>> \in Lists /\ About(<<>>, s)
      /\ m_nRef' = [m_nRef EXCEPT ![s] = @ + 1]
      /\ UNCHANGED <<m_sessionPool, m_bConnected, pending, broken, deaf>>
  BY EmptyKinds DEF AddRef
<1>2. TypeOK /\ PairedAll
  BY DEF IInv
<1>3. /\ m_nRef'[s] = m_nRef[s] + 1 /\ m_nRef[s] \in Int
      /\ \A q \in Sessions \ {s} : m_nRef'[q] = m_nRef[q]
  BY <1>1, <1>2, TypeParts DEF RestOK
<1>4. /\ PairedAll' /\ \A q \in Sessions \ {s} : Owed(q)' = Owed(q)
      /\ IsFiniteSet(Owed(s)) =>
           /\ IsFiniteSet(Owed(s)') /\ Cardinality(Owed(s)) \in Nat
           /\ Cardinality(Owed(s)') = Cardinality(Owed(s)) + 1
  BY <1>1, <1>2, AddRefDoes
<1>5. ASSUME s \notin broken
      PROVE  Balanced(s)'
  <2>1. Balanced(s)
    BY <1>5 DEF IInv
  <2>2. Outstanding(s)' = Outstanding(s) /\ Outstanding(s) \in Int
    BY <1>1, <1>2, TypeParts DEF Outstanding, RestOK, IoTypes
  <2> QED
    BY <1>3, <1>4, <2>1, <2>2 DEF Balanced
<1>6. ASSUME s \notin broken
      PROVE  Place(s)'
  <2>1. Place(s)
    BY <1>6 DEF IInv
  <2>2. CASE m_bConnected[s]
    <3>1. Kinds(<<>>, ServingSteps \ {"RECV", "IfConnected"})
      BY EmptyKinds
    <3> QED
      BY <1>1, <1>2, <2>1, <2>2, <3>1, ServeElse
  <2>3. CASE ~m_bConnected[s]
    <3>1. Accepting(s) /\ t = Main /\ AcceptShape(todo[t], s)
      BY <1>1, <1>2, <2>1, <2>3, StageElse DEF IdleSteps
    <3>2. Shifted(todo[t], <<>>, todo'[t]) /\ At(todo[t], Len(todo[t])).do = "AddRef"
      BY <1>1, <1>2, DoesStep
    <3>3. AcceptShape(todo'[Main], s)
      BY <3>1, <3>2, AcceptPop
    <3>4. Kinds(<<>>, StepNames \ {"RECV", "IfConnected"})
      BY EmptyKinds
    <3> QED
      BY <1>1, <1>2, <2>1, <2>3, <3>1, <3>3, <3>4, AcceptingStep
  <2> QED
    BY <2>2, <2>3
<1>7. \A q \in Sessions \ {s} :
         /\ Owed(q)' = Owed(q) /\ m_bConnected'[q] = m_bConnected[q]
         /\ pending'[q] = pending[q] /\ m_nRef'[q] = m_nRef[q]
  BY <1>1, <1>3, <1>4
<1>8. deaf \subseteq deaf' /\ broken' = broken /\ m_sessionPool' = m_sessionPool
  BY <1>1
<1> QED
  BY <1>1, <1>4, <1>5, <1>6, <1>7, <1>8, RestKept

LEMMA DecrementKept ==
  ASSUME IInv, TypeOK', NEW t \in Threads, NEW s \in Sessions, Decrement(t, s)
  PROVE  Kept
<1>1. /\ Does(t, "Decrement", s, <<>>) /\ <<>> \in Lists /\ About(<<>>, s)
      /\ m_nRef' = [m_nRef EXCEPT ![s] = @ - 1]
      /\ UNCHANGED <<m_sessionPool, m_bConnected, pending, broken, deaf>>
  BY EmptyKinds DEF Decrement
<1>2. TypeOK /\ PairedAll
  BY DEF IInv
<1>3. /\ m_nRef'[s] = m_nRef[s] - 1 /\ m_nRef[s] \in Int
      /\ \A q \in Sessions \ {s} : m_nRef'[q] = m_nRef[q]
  BY <1>1, <1>2, TypeParts DEF RestOK
<1>4. /\ PairedAll' /\ \A q \in Sessions \ {s} : Owed(q)' = Owed(q)
      /\ IsFiniteSet(Owed(s)) =>
           /\ IsFiniteSet(Owed(s)') /\ Cardinality(Owed(s)) \in Nat
           /\ Cardinality(Owed(s)') = Cardinality(Owed(s)) - 1
  BY <1>1, <1>2, PaidDoes
<1>5. ASSUME s \notin broken
      PROVE  Balanced(s)'
  <2>1. Balanced(s)
    BY <1>5 DEF IInv
  <2>2. Outstanding(s)' = Outstanding(s) /\ Outstanding(s) \in Int
    BY <1>1, <1>2, TypeParts DEF Outstanding, RestOK, IoTypes
  <2> QED
    BY <1>3, <1>4, <2>1, <2>2 DEF Balanced
<1>6. ASSUME s \notin broken
      PROVE  Place(s)'
  <2>1. Place(s)
    BY <1>6 DEF IInv
  <2>2. CASE m_bConnected[s]
    <3>1. Kinds(<<>>, ServingSteps \ {"RECV", "IfConnected"})
      BY EmptyKinds
    <3> QED
      BY <1>1, <1>2, <2>1, <2>2, <3>1, ServeElse
  <2>3. CASE ~m_bConnected[s]
    <3>1. Accepting(s) /\ t = Main /\ AcceptShape(todo[t], s)
      BY <1>1, <1>2, <2>1, <2>3, StageElse DEF IdleSteps
    <3>2. Shifted(todo[t], <<>>, todo'[t]) /\ At(todo[t], Len(todo[t])).do = "Decrement"
      BY <1>1, <1>2, DoesStep
    <3>3. AcceptShape(todo'[Main], s)
      BY <3>1, <3>2, AcceptPop
    <3>4. Kinds(<<>>, StepNames \ {"RECV", "IfConnected"})
      BY EmptyKinds
    <3> QED
      BY <1>1, <1>2, <2>1, <2>3, <3>1, <3>3, <3>4, AcceptingStep
  <2> QED
    BY <2>2, <2>3
<1>7. \A q \in Sessions \ {s} :
         /\ Owed(q)' = Owed(q) /\ m_bConnected'[q] = m_bConnected[q]
         /\ pending'[q] = pending[q] /\ m_nRef'[q] = m_nRef[q]
  BY <1>1, <1>3, <1>4
<1>8. deaf \subseteq deaf' /\ broken' = broken /\ m_sessionPool' = m_sessionPool
  BY <1>1
<1> QED
  BY <1>1, <1>4, <1>5, <1>6, <1>7, <1>8, RestKept

LEMMA StartKept ==
  ASSUME IInv, TypeOK', NEW t \in Threads, NEW io \in IoTypes, NEW s \in Sessions,
         Start(t, io, s)
  PROVE  Kept
<1>1. /\ Does(t, io, s, <<>>) /\ <<>> \in Lists /\ About(<<>>, s)
      /\ pending' = [pending EXCEPT ![s][io] = @ + 1]
      /\ UNCHANGED <<m_sessionPool, m_bConnected, m_nRef, broken, deaf>>
  BY EmptyKinds DEF Start
<1>2. TypeOK /\ PairedAll
  BY DEF IInv
<1>3. /\ pending[s] \in [IoTypes -> Nat]
      /\ pending'[s] = [pending[s] EXCEPT ![io] = pending[s][io] + 1]
      /\ \A q \in Sessions \ {s} : pending'[q] = pending[q]
  <2>1. pending' = [pending EXCEPT ![s] = [pending[s] EXCEPT ![io] = pending[s][io] + 1]]
    BY <1>1
  <2> QED
    BY <1>2, <2>1, TypeParts DEF RestOK
<1>4. /\ PairedAll' /\ \A q \in Sessions \ {s} : Owed(q)' = Owed(q)
      /\ IsFiniteSet(Owed(s)) =>
           /\ IsFiniteSet(Owed(s)') /\ Cardinality(Owed(s)) \in Nat
           /\ Cardinality(Owed(s)') = Cardinality(Owed(s)) - 1
  BY <1>1, <1>2, PaidDoes
<1>5. ASSUME s \notin broken
      PROVE  Balanced(s)'
  <2>1. Balanced(s)
    BY <1>5 DEF IInv
  <2>2. Outstanding(s)' = Outstanding(s) + 1 /\ Outstanding(s) \in Int
    <3>1. pending[s]["ACCEPT"] \in Nat /\ pending[s]["RECV"] \in Nat
          /\ pending[s]["SEND"] \in Nat /\ pending[s]["DISCONNECT"] \in Nat
      BY <1>3 DEF IoTypes
    <3>2. /\ pending'[s]["ACCEPT"] = pending[s]["ACCEPT"] + (IF io = "ACCEPT" THEN 1 ELSE 0)
          /\ pending'[s]["RECV"] = pending[s]["RECV"] + (IF io = "RECV" THEN 1 ELSE 0)
          /\ pending'[s]["SEND"] = pending[s]["SEND"] + (IF io = "SEND" THEN 1 ELSE 0)
          /\ pending'[s]["DISCONNECT"]
               = pending[s]["DISCONNECT"] + (IF io = "DISCONNECT" THEN 1 ELSE 0)
      BY <1>3, <3>1 DEF IoTypes
    <3>3. io = "ACCEPT" \/ io = "RECV" \/ io = "SEND" \/ io = "DISCONNECT"
      BY DEF IoTypes
    <3> QED
      BY <3>1, <3>2, <3>3 DEF Outstanding
  <2> QED
    BY <1>1, <1>2, <1>4, <2>1, <2>2 DEF Balanced
<1>6. ASSUME s \notin broken
      PROVE  Place(s)'
  <2>1. Place(s)
    BY <1>6 DEF IInv
  <2>2. Kinds(<<>>, ServingSteps \ {"RECV", "IfConnected"})
        /\ Kinds(<<>>, StepNames \ {"RECV", "IfConnected"})
    BY EmptyKinds
  <2>3. CASE m_bConnected[s]
    <3>1. Serving(s) /\ io \in {"RECV", "SEND"}
      <4>1. Serving(s) /\ io \in ServingSteps
        BY <1>1, <1>2, <2>1, <2>3, Stage
      <4> QED
        BY <4>1 DEF ServingSteps, IdleSteps, IoTypes
    <3>2. /\ pending'[s]["ACCEPT"] = pending[s]["ACCEPT"]
          /\ pending'[s]["DISCONNECT"] = pending[s]["DISCONNECT"]
      BY <1>3, <3>1 DEF IoTypes
    <3>3. CASE io = "SEND"
      <4>1. pending'[s]["RECV"] = pending[s]["RECV"] /\ deaf \subseteq deaf'
        BY <1>1, <1>3, <3>3 DEF IoTypes
      <4>2. m_bConnected'[s] /\ m_sessionPool' = m_sessionPool
        BY <1>1, <2>3
      <4>3. io \notin {"RECV", "IfConnected"}
        BY <3>3
      <4> QED
        BY <1>1, <1>2, <2>1, <2>2, <2>3, <3>2, <4>1, <4>2, <4>3, ServeElse
    <3>4. CASE io = "RECV"
      <4>1. \A i \in 1 .. Len(<<>>) : FALSE
        OBVIOUS
      <4>2. /\ IsFiniteSet(Receivers(s)') /\ Cardinality(Receivers(s)) \in Nat
            /\ Cardinality(Receivers(s)') = Cardinality(Receivers(s)) - 1
        <5>1. IsFiniteSet(Receivers(s))
          BY <2>1 DEF Place
        <5> QED
          BY <1>1, <1>2, <3>4, <4>1, <5>1, DoesReceive
      <4>3. pending'[s]["RECV"] = pending[s]["RECV"] + 1 /\ pending[s]["RECV"] \in Nat
        BY <1>3, <3>4 DEF IoTypes
      <4>4. Receiving(s)' = Receiving(s)
        BY <4>2, <4>3 DEF Receiving
      <4>5. Receiving(s)' = 1 \/ (s \in deaf' /\ Receiving(s)' = 0)
        BY <1>1, <3>1, <4>4 DEF Serving
      <4>6. m_bConnected'[s] /\ m_sessionPool' = m_sessionPool
        BY <1>1, <2>3
      <4> QED
        BY <1>1, <1>2, <2>1, <2>3, <3>2, <4>1, <4>2, <4>5, <4>6, ServeStep
    <3> QED
      BY <3>1, <3>3, <3>4
  <2>4. CASE ~m_bConnected[s]
    <3>1. Accepting(s) /\ t = Main /\ AcceptShape(todo[t], s)
      BY <1>1, <1>2, <2>1, <2>4, StageElse DEF IdleSteps, IoTypes
    <3>2. /\ Shifted(todo[t], <<>>, todo'[t]) /\ At(todo[t], Len(todo[t])).do = io
          /\ \A u \in Threads \ {t} : todo'[u] = todo[u]
      BY <1>1, <1>2, DoesStep
    <3>3. io = "ACCEPT"
      BY <3>1, <3>2, AcceptTop DEF IoTypes
    <3>4. Only(todo'[Main], s, IdleSteps)
      BY <3>1, <3>2, <3>3, AcceptPop
    <3>5. \A u \in Threads : Only(todo'[u], s, IdleSteps)
      BY <3>1, <3>2, <3>4 DEF Accepting, Threads
    <3>6. Receivers(s)' = Receivers(s)
      BY <1>1, <1>2, <2>2, <3>3, SameReceivers
    <3>7. pending'[s] = [i \in IoTypes |-> IF i = "ACCEPT" THEN 1 ELSE 0]
      <4>1. \A i \in IoTypes : pending[s][i] = 0
        BY <3>1 DEF Accepting, Unused
      <4>2. PICK f, g : f = pending[s] /\ g = pending'[s]
        OBVIOUS
      <4>3. /\ f \in [IoTypes -> Nat] /\ g = [f EXCEPT !["ACCEPT"] = f["ACCEPT"] + 1]
            /\ \A i \in IoTypes : f[i] = 0
        BY <1>3, <3>3, <4>1, <4>2
      <4>4. g = [i \in IoTypes |-> IF i = "ACCEPT" THEN 1 ELSE 0]
        <5>1. f["ACCEPT"] + 1 = 1
          BY <3>3, <4>3
        <5> QED
          BY <4>3, <5>1
      <4> QED
        BY <4>2, <4>4
    <3>8. OffPool(s)'
      BY <1>1, <3>1 DEF Accepting, OffPool
    <3>9. Accepted(s)'
      BY <3>1, <3>5, <3>6, <3>7, <3>8 DEF Accepted, Accepting
    <3> QED
      BY <1>1, <2>1, <2>4, <3>6, <3>9 DEF Place
  <2> QED
    BY <2>3, <2>4
<1>7. \A q \in Sessions \ {s} :
         /\ Owed(q)' = Owed(q) /\ m_bConnected'[q] = m_bConnected[q]
         /\ pending'[q] = pending[q] /\ m_nRef'[q] = m_nRef[q]
  BY <1>1, <1>3, <1>4
<1>8. deaf \subseteq deaf' /\ broken' = broken /\ m_sessionPool' = m_sessionPool
  BY <1>1
<1> QED
  BY <1>1, <1>4, <1>5, <1>6, <1>7, <1>8, RestKept

LEMMA StartFailsKept ==
  ASSUME IInv, TypeOK', NEW t \in Threads, NEW io \in IoTypes, NEW s \in Sessions,
         StartFails(t, io, s)
  PROVE  Kept
<1> DEFINE f == ReleaseRef(s)
<1>1. /\ Does(t, io, s, f) /\ f \in Lists /\ About(f, s)
      /\ Kinds(f, {"Decrement", "IfDisconnected"})
      /\ deaf' = IF io = "RECV" THEN deaf \cup {s} ELSE deaf
      /\ UNCHANGED <<m_sessionPool, m_bConnected, m_nRef, pending, broken>>
  BY ListTypes, AboutLists, KindsLists DEF StartFails
<1>2. TypeOK /\ PairedAll
  BY DEF IInv
<1>3. /\ PairedAll' /\ \A q \in Sessions \ {s} : Owed(q)' = Owed(q)
      /\ IsFiniteSet(Owed(s)) =>
           IsFiniteSet(Owed(s)') /\ Cardinality(Owed(s)') = Cardinality(Owed(s))
  BY <1>1, <1>2, RefusedDoes
<1> HIDE DEF f
<1>4. f = ReleaseRef(s)
  BY DEF f
<1>5. ASSUME s \notin broken
      PROVE  Balanced(s)'
  <2>1. Balanced(s)
    BY <1>5 DEF IInv
  <2>2. Outstanding(s)' = Outstanding(s)
    BY <1>1 DEF Outstanding
  <2> QED
    BY <1>1, <1>3, <2>1, <2>2 DEF Balanced
<1>6. ASSUME s \notin broken
      PROVE  Place(s)'
  <2>1. Place(s)
    BY <1>6 DEF IInv
  <2>2. /\ Kinds(f, ServingSteps \ {"RECV", "IfConnected"})
        /\ Kinds(f, StepNames \ {"RECV", "IfConnected"})
    <3>1. /\ {"Decrement", "IfDisconnected"} \subseteq ServingSteps \ {"RECV", "IfConnected"}
          /\ {"Decrement", "IfDisconnected"} \subseteq StepNames \ {"RECV", "IfConnected"}
      BY DEF ServingSteps, StepNames
    <3> QED
      BY <1>1, <3>1, KindsIn
  <2>3. deaf \subseteq deaf' /\ m_sessionPool' = m_sessionPool
    BY <1>1
  <2>4. CASE m_bConnected[s]
    <3>1. Serving(s) /\ io \in {"RECV", "SEND"}
      <4>1. Serving(s) /\ io \in ServingSteps
        BY <1>1, <1>2, <2>1, <2>4, Stage
      <4> QED
        BY <4>1 DEF ServingSteps, IdleSteps, IoTypes
    <3>2. /\ pending'[s]["ACCEPT"] = pending[s]["ACCEPT"]
          /\ pending'[s]["DISCONNECT"] = pending[s]["DISCONNECT"]
          /\ pending'[s]["RECV"] = pending[s]["RECV"] /\ m_bConnected'[s]
      BY <1>1, <2>4
    <3>3. CASE io = "SEND"
      <4>1. io \notin {"RECV", "IfConnected"}
        BY <3>3
      <4> QED
        BY <1>1, <1>2, <2>1, <2>2, <2>3, <2>4, <3>2, <4>1, ServeElse
    <3>4. CASE io = "RECV"
      <4>1. \A i \in 1 .. Len(f) :
              f[i].do \in ServingSteps /\ f[i].do \notin {"RECV", "IfConnected"}
        BY <2>2 DEF Kinds
      <4>2. /\ IsFiniteSet(Receivers(s)') /\ Cardinality(Receivers(s)) \in Nat
            /\ Cardinality(Receivers(s)') = Cardinality(Receivers(s)) - 1
        <5>1. IsFiniteSet(Receivers(s))
          BY <2>1 DEF Place
        <5>2. \A i \in 1 .. Len(f) : f[i].s = s => f[i].do \notin {"RECV", "IfConnected"}
          BY <4>1
        <5> QED
          BY <1>1, <1>2, <3>4, <5>1, <5>2, DoesReceive
      <4>3. Cardinality(Receivers(s)') \in Nat /\ pending[s]["RECV"] \in Nat
        BY <1>2, <4>2, TypeParts, FS_CardinalityType DEF RestOK, IoTypes
      <4>4. Receiving(s)' = Receiving(s) - 1 /\ Receiving(s)' >= 0 /\ Receiving(s) \in Nat
        BY <3>2, <4>2, <4>3 DEF Receiving
      <4>5. s \in deaf' /\ Receiving(s)' = 0
        BY <1>1, <3>1, <3>4, <4>4 DEF Serving
      <4>6. \A i \in 1 .. Len(f) : f[i].s = s => f[i].do \in ServingSteps
        BY <4>1
      <4> QED
        BY <1>1, <1>2, <2>1, <2>3, <2>4, <3>2, <4>2, <4>5, <4>6, ServeStep
    <3> QED
      BY <3>1, <3>3, <3>4
  <2>5. CASE ~m_bConnected[s]
    <3>1. Accepting(s) /\ t = Main /\ AcceptShape(todo[t], s)
      BY <1>1, <1>2, <2>1, <2>5, StageElse DEF IdleSteps, IoTypes
    <3>2. Shifted(todo[t], f, todo'[t]) /\ At(todo[t], Len(todo[t])).do = io
      BY <1>1, <1>2, DoesStep
    <3>3. io = "ACCEPT"
      BY <3>1, <3>2, AcceptTop DEF IoTypes
    <3>4. AcceptShape(todo'[Main], s)
      BY <1>4, <3>1, <3>2, <3>3, AcceptPush
    <3>5. ~m_bConnected'[s] /\ pending'[s] = pending[s] /\ io \notin {"RECV", "IfConnected"}
      BY <1>1, <2>5, <3>3
    <3> QED
      BY <1>1, <1>2, <2>1, <2>2, <2>3, <3>1, <3>4, <3>5, AcceptingStep
  <2> QED
    BY <2>4, <2>5
<1>7. \A q \in Sessions \ {s} :
         /\ Owed(q)' = Owed(q) /\ m_bConnected'[q] = m_bConnected[q]
         /\ pending'[q] = pending[q] /\ m_nRef'[q] = m_nRef[q]
  BY <1>1, <1>3
<1>8. deaf \subseteq deaf' /\ broken' = broken /\ m_sessionPool' = m_sessionPool
  BY <1>1
<1> QED
  BY <1>1, <1>3, <1>5, <1>6, <1>7, <1>8, RestKept

LEMMA IfDisconnectedKept ==
  ASSUME IInv, TypeOK', NEW t \in Threads, NEW s \in Sessions, IfDisconnected(t, s)
  PROVE  Kept
<1>1. TypeOK
  BY DEF IInv
<1>2. UNCHANGED <<m_sessionPool, m_bConnected, m_nRef, pending, broken, deaf>>
  BY DEF IfDisconnected
<1>3. \A q \in Sessions \ {s} : m_bConnected'[q] = m_bConnected[q]
  BY <1>2
<1>4. CASE m_bConnected[s]
  <2>1. /\ Does(t, "IfDisconnected", s, <<>>) /\ <<>> \in Lists /\ About(<<>>, s)
        /\ Quiet(<<>>) /\ Kinds(<<>>, ServingSteps \ {"RECV", "IfConnected"})
    BY <1>4, EmptyKinds, QuietLists DEF IfDisconnected
  <2>2. ASSUME s \notin broken
        PROVE  Place(s)'
    <3>1. Place(s) /\ m_bConnected'[s] /\ deaf \subseteq deaf'
      BY <1>2, <1>4, <2>2 DEF IInv
    <3> QED
      BY <1>1, <1>2, <1>4, <2>1, <3>1, ServeElse
  <2> QED
    BY <1>2, <1>3, <2>1, <2>2, QuietKept DEF IoTypes
<1>5. CASE ~m_bConnected[s]
  <2> DEFINE f == <<Step("IfZero", s)>>
  <2>1. /\ Does(t, "IfDisconnected", s, f) /\ f \in Lists /\ About(f, s)
        /\ Quiet(f) /\ Kinds(f, {"IfZero"})
    BY <1>5, KindsLists, QuietLists, AboutLists DEF IfDisconnected
  <2> HIDE DEF f
  <2>2. f = <<Step("IfZero", s)>>
    BY DEF f
  <2>3. Kinds(f, StepNames \ {"RECV", "IfConnected"})
    BY <2>1 DEF Kinds, StepNames
  <2>4. ASSUME s \notin broken
        PROVE  Place(s)'
    <3>1. Place(s)
      BY <2>4 DEF IInv
    <3>2. Accepting(s) /\ t = Main /\ AcceptShape(todo[t], s)
      BY <1>1, <1>5, <2>1, <3>1, StageElse DEF IdleSteps
    <3>3. Shifted(todo[t], f, todo'[t]) /\ At(todo[t], Len(todo[t])).do = "IfDisconnected"
      BY <1>1, <2>1, DoesStep
    <3>4. AcceptShape(todo'[Main], s)
      BY <2>2, <3>2, <3>3, AcceptPush
    <3>5. ~m_bConnected'[s] /\ pending'[s] = pending[s] /\ m_sessionPool' = m_sessionPool
      BY <1>2, <1>5
    <3> QED
      BY <1>1, <2>1, <2>3, <3>1, <3>2, <3>4, <3>5, AcceptingStep
  <2> QED
    BY <1>2, <1>3, <2>1, <2>4, QuietKept DEF IoTypes
<1> QED
  BY <1>4, <1>5

\* AcceptSessions gives back a session that nothing is owed to.
LEMMA NothingOwed ==
  ASSUME TypeOK, NEW s \in Sessions, Accepting(s), Balanced(s),
         At(todo[Main], Len(todo[Main])).do \in {"IfZero", "ZeroRef"}
  PROVE  m_nRef[s] = 0
<1>1. Main \in Threads /\ \A u \in Threads : u = Main \/ u \in IoThreads
  BY DEF Threads
<1>2. Owes(todo[Main], s) = {}
  BY AcceptOwes DEF Accepting
<1>3. \A u \in IoThreads : Owes(todo[u], s) = {}
  <2> TAKE u \in IoThreads
  <2>1. Only(todo[u], s, IdleSteps)
    BY DEF Accepting
  <2> QED
    BY <2>1 DEF Only, Owes, IdleSteps, IoTypes
<1>4. \A u \in Threads : OwesAll(todo, s)[u] = {}
  BY <1>1, <1>2, <1>3 DEF OwesAll
<1>5. Cardinality(Owed(s)) = 0
  BY <1>4, SpreadEmpty, OwedSpread, TypeParts
<1>6. Outstanding(s) = 0
  BY DEF Accepting, Unused, Outstanding, IoTypes
<1> QED
  BY <1>5, <1>6 DEF Balanced

LEMMA IfZeroKept ==
  ASSUME IInv, TypeOK', NEW t \in Threads, NEW s \in Sessions, IfZero(t, s)
  PROVE  Kept
<1>1. TypeOK
  BY DEF IInv
<1>2. UNCHANGED <<m_sessionPool, m_bConnected, m_nRef, pending, broken, deaf>>
  BY DEF IfZero
<1>3. \A q \in Sessions \ {s} : m_bConnected'[q] = m_bConnected[q]
  BY <1>2
<1>4. PICK f \in Lists : /\ Does(t, "IfZero", s, f) /\ About(f, s) /\ Quiet(f)
                         /\ Kinds(f, StepNames \ {"RECV", "IfConnected"})
                         /\ m_nRef[s] = 0 => f = ReturnSession(s)
  <2>1. Kinds(ReturnSession(s), StepNames \ {"RECV", "IfConnected"})
    <3>1. {"Lock", "Disconnected", "ZeroRef", "PushPool", "Unlock"}
            \subseteq StepNames \ {"RECV", "IfConnected"}
      BY DEF StepNames
    <3>2. Kinds(ReturnSession(s), {"Lock", "Disconnected", "ZeroRef", "PushPool", "Unlock"})
      BY KindsLists
    <3> QED
      BY <3>1, <3>2, KindsIn
  <2>2. CASE m_nRef[s] = 0
    <3>1. Does(t, "IfZero", s, ReturnSession(s))
      BY <2>2 DEF IfZero
    <3> QED
      BY <2>1, <3>1, ListTypes, AboutLists, QuietLists
  <2>3. CASE m_nRef[s] # 0
    <3>1. Does(t, "IfZero", s, <<>>)
      BY <2>3 DEF IfZero
    <3> QED
      BY <2>3, <3>1, EmptyKinds, QuietLists
  <2> QED
    BY <2>2, <2>3
<1>5. ASSUME s \notin broken
      PROVE  Place(s)'
  <2>1. Place(s) /\ Balanced(s)
    BY <1>5 DEF IInv
  <2>2. ~m_bConnected[s]
    <3>1. "IfZero" \notin ServingSteps
      BY DEF ServingSteps, IdleSteps
    <3> QED
      BY <1>1, <1>4, <2>1, <3>1, Stage
  <2>3. Accepting(s) /\ t = Main /\ AcceptShape(todo[t], s)
    BY <1>1, <1>4, <2>1, <2>2, StageElse DEF IdleSteps
  <2>4. Shifted(todo[t], f, todo'[t]) /\ At(todo[t], Len(todo[t])).do = "IfZero"
    BY <1>1, <1>4, DoesStep
  <2>5. m_nRef[s] = 0
    BY <1>1, <2>1, <2>3, <2>4, NothingOwed
  <2>6. AcceptShape(todo'[Main], s)
    BY <1>4, <2>3, <2>4, <2>5, AcceptPush
  <2>7. ~m_bConnected'[s] /\ pending'[s] = pending[s] /\ m_sessionPool' = m_sessionPool
    BY <1>2, <2>2
  <2> QED
    BY <1>1, <1>4, <2>1, <2>3, <2>6, <2>7, AcceptingStep
<1> QED
  BY <1>2, <1>3, <1>4, <1>5, QuietKept DEF IoTypes

\* AcceptSessions gives a session back, up to the pool.
LEMMA ReturnStep ==
  ASSUME IInv, TypeOK', NEW t \in Threads, NEW do \in {"Lock", "Disconnected", "ZeroRef"},
         NEW s \in Sessions \ broken, Does(t, do, s, <<>>),
         ~m_bConnected[s] => ~m_bConnected'[s],
         m_sessionPool' = m_sessionPool, pending' = pending
  PROVE  /\ Place(s)' /\ ~m_bConnected[s]
         /\ do = "ZeroRef" => m_nRef[s] = 0
<1>1. TypeOK /\ Place(s) /\ Balanced(s)
  BY DEF IInv
<1>2. <<>> \in Lists /\ Kinds(<<>>, StepNames \ {"RECV", "IfConnected"})
  BY EmptyKinds
<1>3. ~m_bConnected[s]
  <2>1. do \notin ServingSteps
    BY DEF ServingSteps, IdleSteps
  <2> QED
    BY <1>1, <1>2, <2>1, Stage
<1>4. Accepting(s) /\ t = Main /\ AcceptShape(todo[t], s)
  <2>1. do \notin IdleSteps /\ do # "Connected"
    BY DEF IdleSteps
  <2> QED
    BY <1>1, <1>2, <1>3, <2>1, StageElse
<1>5. Shifted(todo[t], <<>>, todo'[t]) /\ At(todo[t], Len(todo[t])).do = do
  BY <1>1, <1>2, DoesStep
<1>6. AcceptShape(todo'[Main], s)
  BY <1>4, <1>5, AcceptPop
<1>7. Place(s)'
  <2>1. pending'[s] = pending[s] /\ ~m_bConnected'[s] /\ do \notin {"RECV", "IfConnected"}
    BY <1>3
  <2> QED
    BY <1>1, <1>2, <1>4, <1>6, <2>1, AcceptingStep
<1>8. do = "ZeroRef" => m_nRef[s] = 0
  BY <1>1, <1>4, <1>5, NothingOwed
<1> QED
  BY <1>3, <1>7, <1>8

LEMMA LockKept ==
  ASSUME IInv, TypeOK', NEW t \in Threads, NEW s \in Sessions, Lock(t, s)
  PROVE  Kept
<1>1. /\ Does(t, "Lock", s, <<>>) /\ <<>> \in Lists /\ About(<<>>, s) /\ Quiet(<<>>)
      /\ UNCHANGED <<m_sessionPool, m_bConnected, m_nRef, pending, broken, deaf>>
  BY EmptyKinds, QuietLists DEF Lock
<1>2. s \notin broken => Place(s)'
  BY <1>1, ReturnStep
<1>3. \A q \in Sessions \ {s} : m_bConnected'[q] = m_bConnected[q]
  BY <1>1
<1> QED
  BY <1>1, <1>2, <1>3, QuietKept DEF IoTypes

LEMMA ZeroRefKept ==
  ASSUME IInv, TypeOK', NEW t \in Threads, NEW s \in Sessions, ZeroRef(t, s)
  PROVE  Kept
<1>1. /\ Does(t, "ZeroRef", s, <<>>) /\ <<>> \in Lists /\ About(<<>>, s) /\ Quiet(<<>>)
      /\ m_nRef' = [m_nRef EXCEPT ![s] = 0]
      /\ UNCHANGED <<m_sessionPool, m_bConnected, pending, broken, deaf>>
  BY EmptyKinds, QuietLists DEF ZeroRef
<1>2. TypeOK /\ PairedAll
  BY DEF IInv
<1>3. m_nRef'[s] = 0 /\ \A q \in Sessions \ {s} : m_nRef'[q] = m_nRef[q]
  BY <1>1, <1>2, TypeParts DEF RestOK
<1>4. PairedAll' /\ \A q \in Sessions : Owed(q)' = Owed(q)
  BY <1>1, <1>2, QuietDoes DEF IoTypes
<1>5. ASSUME s \notin broken
      PROVE  Place(s)' /\ Balanced(s)'
  <2>1. Place(s)' /\ m_nRef[s] = 0
    BY <1>1, <1>5, ReturnStep
  <2>2. Balanced(s)
    BY <1>5 DEF IInv
  <2> QED
    BY <1>1, <1>3, <1>4, <2>1, <2>2, SameBalance
<1>6. \A q \in Sessions \ {s} :
         /\ Owed(q)' = Owed(q) /\ m_bConnected'[q] = m_bConnected[q]
         /\ pending'[q] = pending[q] /\ m_nRef'[q] = m_nRef[q]
  BY <1>1, <1>3, <1>4
<1>7. deaf \subseteq deaf' /\ broken' = broken /\ m_sessionPool' = m_sessionPool
  BY <1>1
<1> QED
  BY <1>1, <1>4, <1>5, <1>6, <1>7, RestKept

\* A step that is the same for every session.
LEMMA IdleKept ==
  ASSUME IInv, TypeOK', NEW t \in Threads, NEW do \in IdleSteps, NEW s \in Sessions,
         Does(t, do, s, <<>>),
         UNCHANGED <<m_sessionPool, m_bConnected, m_nRef, pending, broken, deaf>>
  PROVE  Kept
<1>1. <<>> \in Lists /\ About(<<>>, s) /\ Quiet(<<>>)
  BY EmptyKinds, QuietLists
<1>2. ASSUME s \notin broken
      PROVE  Place(s)'
  <2>1. TypeOK /\ Place(s)
    BY <1>2 DEF IInv
  <2>2. \A i \in 1 .. Len(<<>>) : FALSE
    OBVIOUS
  <2>3. (OnPool(s) => OnPool(s)') /\ (OffPool(s) => OffPool(s)')
    BY DEF OnPool, OffPool
  <2>4. m_bConnected'[s] = m_bConnected[s] /\ pending'[s] = pending[s] /\ deaf' = deaf
    OBVIOUS
  <2> QED
    BY <1>1, <2>1, <2>2, <2>3, <2>4, SideStep
<1>3. \A q \in Sessions \ {s} : m_bConnected'[q] = m_bConnected[q]
  OBVIOUS
<1>4. do \notin IoTypes \cup {"AddRef", "Decrement"}
  BY DEF IdleSteps, IoTypes
<1> QED
  BY <1>1, <1>2, <1>3, <1>4, QuietKept

LEMMA UnlockKept ==
  ASSUME IInv, TypeOK', NEW t \in Threads, NEW s \in Sessions, Unlock(t, s)
  PROVE  Kept
BY IdleKept DEF Unlock, IdleSteps

LEMMA CountKept ==
  ASSUME IInv, TypeOK', NEW t \in Threads, NEW s \in Sessions,
         IncreaseConnectionCount(t, s)
  PROVE  Kept
<1>1. /\ Does(t, "Count", s, <<>>) /\ <<>> \in Lists /\ About(<<>>, s) /\ Quiet(<<>>)
      /\ UNCHANGED <<m_sessionPool, m_bConnected, m_nRef, pending, broken, deaf>>
  BY EmptyKinds, QuietLists DEF IncreaseConnectionCount
<1>2. ASSUME s \notin broken
      PROVE  Place(s)'
  <2>1. TypeOK /\ Place(s)
    BY <1>2 DEF IInv
  <2>2. m_bConnected[s]
    <3> SUFFICES ASSUME ~m_bConnected[s] PROVE FALSE
      OBVIOUS
    <3>1. Accepting(s) /\ t = Main /\ AcceptShape(todo[t], s)
      BY <1>1, <2>1, StageElse DEF IdleSteps
    <3>2. At(todo[t], Len(todo[t])).do = "Count"
      BY <1>1, <2>1, DoesStep
    <3> QED
      BY <3>1, <3>2, AcceptTop
  <2>3. Kinds(<<>>, ServingSteps \ {"RECV", "IfConnected"})
    BY EmptyKinds
  <2>4. m_bConnected'[s] /\ deaf \subseteq deaf'
    BY <1>1, <2>2
  <2> QED
    BY <1>1, <2>1, <2>2, <2>3, <2>4, ServeElse
<1>3. \A q \in Sessions \ {s} : m_bConnected'[q] = m_bConnected[q]
  BY <1>1
<1> QED
  BY <1>1, <1>2, <1>3, QuietKept DEF IoTypes

LEMMA BrodcastRoundKept ==
  ASSUME IInv, TypeOK', NEW t \in Threads, NEW s \in Sessions, BrodcastRound(t, s)
  PROVE  Kept
<1>1. UNCHANGED <<m_sessionPool, m_bConnected, m_nRef, pending, broken, deaf>>
  BY DEF BrodcastRound
<1>2. CASE ~m_bConnected[s]
  <2>1. Does(t, "Brodcast", s, <<>>)
    BY <1>2 DEF BrodcastRound
  <2> QED
    BY <1>1, <2>1, IdleKept DEF IdleSteps
<1>3. CASE m_bConnected[s]
  <2>1. PICK f \in Lists : /\ Does(t, "Brodcast", s, f) /\ About(f, s) /\ Quiet(f)
                           /\ Kinds(f, {"RequestSend"})
    BY <1>3, ListTypes, AboutLists, QuietLists, KindsLists DEF BrodcastRound
  <2>2. Kinds(f, ServingSteps \ {"RECV", "IfConnected"})
    BY <2>1 DEF Kinds, ServingSteps
  <2>3. ASSUME s \notin broken
        PROVE  Place(s)'
    <3>1. TypeOK /\ Place(s)
      BY <2>3 DEF IInv
    <3>2. m_bConnected'[s] /\ deaf \subseteq deaf' /\ m_bConnected[s]
      BY <1>1, <1>3
    <3> QED
      BY <1>1, <2>1, <2>2, <3>1, <3>2, ServeElse
  <2>4. \A q \in Sessions \ {s} : m_bConnected'[q] = m_bConnected[q]
    BY <1>1
  <2> QED
    BY <1>1, <2>1, <2>3, <2>4, QuietKept DEF IoTypes
<1> QED
  BY <1>2, <1>3

\* RequestSend does not ask whether the session is connected: of the sessions
\* on which nothing has failed, only one that is served is ever sent to.
LEMMA RequestSendKept ==
  ASSUME IInv, TypeOK', NEW t \in Threads, NEW s \in Sessions, RequestSend(t, s)
  PROVE  Kept
<1>1. UNCHANGED <<m_sessionPool, m_bConnected, m_nRef, pending, broken, deaf>>
  BY DEF RequestSend
<1>2. PICK f \in Lists : /\ Does(t, "RequestSend", s, f) /\ About(f, s) /\ Quiet(f)
                         /\ Kinds(f, {"AddRef", "SEND"})
  <2>1. CASE Does(t, "RequestSend", s, <<>>)
    BY <2>1, EmptyKinds, QuietLists
  <2>2. CASE Does(t, "RequestSend", s, Request("SEND", s))
    BY <2>2, ListTypes, AboutLists, QuietLists, KindsLists DEF IoTypes
  <2> QED
    BY <2>1, <2>2 DEF RequestSend
<1>3. ASSUME s \notin broken
      PROVE  Place(s)'
  <2>1. TypeOK /\ Place(s)
    BY <1>3 DEF IInv
  <2>2. m_bConnected[s]
    <3> SUFFICES ASSUME ~m_bConnected[s] PROVE FALSE
      OBVIOUS
    <3>1. Accepting(s) /\ t = Main /\ AcceptShape(todo[t], s)
      BY <1>2, <2>1, StageElse DEF IdleSteps
    <3>2. At(todo[t], Len(todo[t])).do = "RequestSend"
      BY <1>2, <2>1, DoesStep
    <3> QED
      BY <3>1, <3>2, AcceptTop
  <2>3. Kinds(f, ServingSteps \ {"RECV", "IfConnected"})
    BY <1>2 DEF Kinds, ServingSteps
  <2>4. m_bConnected'[s] /\ deaf \subseteq deaf'
    BY <1>1, <2>2
  <2> QED
    BY <1>1, <1>2, <2>1, <2>2, <2>3, <2>4, ServeElse
<1>4. \A q \in Sessions \ {s} : m_bConnected'[q] = m_bConnected[q]
  BY <1>1
<1> QED
  BY <1>1, <1>2, <1>3, <1>4, QuietKept DEF IoTypes

LEMMA IfConnectedKept ==
  ASSUME IInv, TypeOK', NEW t \in Threads, NEW s \in Sessions, IfConnected(t, s)
  PROVE  Kept
<1>1. TypeOK
  BY DEF IInv
<1>2. UNCHANGED <<m_sessionPool, m_bConnected, m_nRef, pending, broken, deaf>>
  BY DEF IfConnected
<1>3. \A q \in Sessions \ {s} : m_bConnected'[q] = m_bConnected[q]
  BY <1>2
<1>4. CASE ~m_bConnected[s] /\ Does(t, "IfConnected", s, <<>>)
  <2>1. <<>> \in Lists /\ About(<<>>, s) /\ Quiet(<<>>)
    BY EmptyKinds, QuietLists
  <2>2. s \in broken
    <3> SUFFICES ASSUME s \notin broken PROVE FALSE
      OBVIOUS
    <3>1. Place(s)
      BY DEF IInv
    <3>2. AcceptShape(todo[t], s)
      BY <1>1, <1>4, <2>1, <3>1, StageElse DEF IdleSteps
    <3>3. At(todo[t], Len(todo[t])).do = "IfConnected"
      BY <1>1, <1>4, <2>1, DoesStep
    <3> QED
      BY <3>2, <3>3, AcceptTop
  <2> QED
    BY <1>2, <1>3, <1>4, <2>1, <2>2, QuietKept DEF IoTypes
<1>5. ASSUME m_bConnected[s], NEW a \in Answers(s),
             Does(t, "IfConnected", s, HandleSteps(s, a))
      PROVE  Kept
  <2> a \in Lists /\ Sends(a, s)
    BY AnswersSend
  <2>1. PICK f : f = HandleSteps(s, a)
    OBVIOUS
  <2>2. /\ Does(t, "IfConnected", s, f) /\ f \in Lists /\ About(f, s) /\ Quiet(f)
        /\ Kinds(f, {"Brodcast", "RequestSend", "AddRef", "RECV"})
    BY <1>5, <2>1, HandlingList, HandleQuiet, HandleAbout
  <2>3. \A i \in 1 .. Len(f) : f[i].s = s => f[i].do \in ServingSteps
    BY <2>2 DEF Kinds, ServingSteps, IdleSteps
  <2>4. ASSUME s \notin broken
        PROVE  Place(s)'
    <3>1. Place(s)
      BY <2>4 DEF IInv
    <3>2. /\ Shifted(todo[t], f, todo'[t])
          /\ At(todo[t], Len(todo[t])) = Step("IfConnected", s)
          /\ \A u \in Threads \ {t} : todo'[u] = todo[u]
      BY <1>1, <2>2, DoesStep
    <3>3. Listens(todo'[t], s) = Listens(todo[t], s)
      BY <2>1, <3>2, HandleStep
    <3>4. Receivers(s)' = Receivers(s)
      BY <1>1, <3>2, <3>3, ListensKept
    <3>5. Receiving(s)' = Receiving(s)
      BY <1>2, <3>4 DEF Receiving
    <3>6. IsFiniteSet(Receivers(s)') /\ (Receiving(s)' = 1 \/ (s \in deaf' /\ Receiving(s)' = 0))
      BY <1>2, <1>5, <3>1, <3>4, <3>5 DEF Place, Serving
    <3>7. /\ m_bConnected'[s] /\ m_sessionPool' = m_sessionPool
          /\ pending'[s]["ACCEPT"] = pending[s]["ACCEPT"]
          /\ pending'[s]["DISCONNECT"] = pending[s]["DISCONNECT"]
      BY <1>2, <1>5
    <3> QED
      BY <1>1, <1>5, <2>2, <2>3, <3>1, <3>6, <3>7, ServeStep
  <2> QED
    BY <1>2, <1>3, <2>2, <2>4, QuietKept DEF IoTypes
<1> QED
  BY <1>4, <1>5 DEF IfConnected, HandleSteps

\* A session on the free sessions stays there when another one is put at the
\* end of them.
LEMMA LongerPool ==
  ASSUME NEW q, NEW h \in Nat, OnPool(q),
         Len(m_sessionPool) = h, Len(m_sessionPool') = h + 1,
         \A j \in 1 .. h : m_sessionPool'[j] = m_sessionPool[j],
         m_sessionPool'[h + 1] # q
  PROVE  OnPool(q)'
<1>1. PICK n \in 1 .. h : \A j \in 1 .. h : m_sessionPool[j] = q <=> j = n
  BY DEF OnPool
<1>2. n \in 1 .. h + 1
  OBVIOUS
<1>3. ASSUME NEW j \in 1 .. h + 1
      PROVE  m_sessionPool'[j] = q <=> j = n
  <2>1. CASE j = h + 1
    BY <2>1
  <2>2. CASE j \in 1 .. h
    BY <1>1, <2>2
  <2> QED
    BY <2>1, <2>2
<1> QED
  BY <1>2, <1>3 DEF OnPool

\* A session that was not on the free sessions is on them once it is put at
\* their end.
LEMMA EndOfPool ==
  ASSUME NEW q, NEW h \in Nat, OffPool(q),
         Len(m_sessionPool) = h, Len(m_sessionPool') = h + 1,
         \A j \in 1 .. h : m_sessionPool'[j] = m_sessionPool[j],
         m_sessionPool'[h + 1] = q
  PROVE  OnPool(q)'
<1>1. h + 1 \in 1 .. h + 1
  OBVIOUS
<1>2. ASSUME NEW j \in 1 .. h + 1
      PROVE  m_sessionPool'[j] = q <=> j = h + 1
  <2>1. CASE j = h + 1
    BY <2>1
  <2>2. CASE j \in 1 .. h
    BY <2>2 DEF OffPool
  <2> QED
    BY <2>1, <2>2
<1> QED
  BY <1>1, <1>2 DEF OnPool

\* A session is put on the free sessions.
LEMMA PushedPool ==
  ASSUME TypeOK, NEW s \in Sessions, m_sessionPool' = Append(m_sessionPool, s)
  PROVE  /\ \A q \in Sessions \ {s} : /\ OnPool(q) => OnPool(q)'
                                      /\ OffPool(q) => OffPool(q)'
         /\ OffPool(s) => OnPool(s)'
<1>1. PICK h \in Nat : h = Len(m_sessionPool)
  BY LenProperties, TypeParts DEF RestOK
<1>2. /\ Len(m_sessionPool') = h + 1 /\ m_sessionPool'[h + 1] = s
      /\ \A j \in 1 .. h : m_sessionPool'[j] = m_sessionPool[j]
  BY <1>1, AppendProperties, TypeParts DEF RestOK
<1>3. \A j \in 1 .. h + 1 : j = h + 1 \/ j \in 1 .. h
  OBVIOUS
<1>4. ASSUME NEW q \in Sessions \ {s}
      PROVE  (OnPool(q) => OnPool(q)') /\ (OffPool(q) => OffPool(q)')
  <2>1. OffPool(q) => OffPool(q)'
    BY <1>1, <1>2, <1>3 DEF OffPool
  <2>2. m_sessionPool'[h + 1] # q
    BY <1>2
  <2>3. OnPool(q) => OnPool(q)'
    BY <1>1, <1>2, <2>2, LongerPool
  <2> QED
    BY <2>1, <2>3
<1>5. OffPool(s) => OnPool(s)'
  BY <1>1, <1>2, EndOfPool
<1> QED
  BY <1>4, <1>5

LEMMA PushPoolKept ==
  ASSUME IInv, TypeOK', NEW t \in Threads, NEW s \in Sessions, PushPool(t, s)
  PROVE  Kept
<1>1. /\ Does(t, "PushPool", s, <<>>) /\ <<>> \in Lists /\ Quiet(<<>>)
      /\ m_sessionPool' = Append(m_sessionPool, s)
      /\ UNCHANGED <<m_bConnected, m_nRef, pending, broken, deaf>>
  BY EmptyKinds, QuietLists DEF PushPool
<1>2. TypeOK /\ PairedAll
  BY DEF IInv
<1>3. PairedAll' /\ \A q \in Sessions : Owed(q)' = Owed(q)
  BY <1>1, <1>2, QuietDoes DEF IoTypes
<1>4. ASSUME NEW q \in Sessions \ broken
      PROVE  Balanced(q)'
  <2>1. Balanced(q)
    BY DEF IInv
  <2> QED
    BY <1>1, <1>3, <2>1, SameBalance
<1>5. ASSUME NEW q \in Sessions \ broken, q # s
      PROVE  Place(q)'
  <2>1. Place(q)
    BY DEF IInv
  <2>2. (OnPool(q) => OnPool(q)') /\ (OffPool(q) => OffPool(q)')
    BY <1>1, <1>2, <1>5, PushedPool
  <2>3. \A i \in 1 .. Len(<<>>) : FALSE
    OBVIOUS
  <2>4. m_bConnected'[q] = m_bConnected[q] /\ pending'[q] = pending[q] /\ deaf' = deaf
    BY <1>1
  <2> QED
    BY <1>1, <1>2, <1>5, <2>1, <2>2, <2>3, <2>4, SideStep
<1>6. ASSUME s \notin broken
      PROVE  Place(s)'
  <2>1. Place(s)
    BY <1>6 DEF IInv
  <2>2. ~m_bConnected[s]
    <3>1. "PushPool" \notin ServingSteps
      BY DEF ServingSteps, IdleSteps
    <3> QED
      BY <1>1, <1>2, <2>1, <3>1, Stage
  <2>3. Accepting(s) /\ t = Main /\ AcceptShape(todo[t], s)
    BY <1>1, <1>2, <2>1, <2>2, StageElse DEF IdleSteps
  <2>4. /\ Shifted(todo[t], <<>>, todo'[t]) /\ At(todo[t], Len(todo[t])).do = "PushPool"
        /\ \A u \in Threads \ {t} : todo'[u] = todo[u]
    BY <1>1, <1>2, DoesStep
  <2>5. Only(todo'[Main], s, IdleSteps)
    BY <2>3, <2>4, AcceptPop
  <2>6. \A u \in Threads : Only(todo'[u], s, IdleSteps)
    BY <2>3, <2>4, <2>5 DEF Accepting, Threads
  <2>7. Receivers(s)' = Receivers(s)
    <3>1. Kinds(<<>>, StepNames \ {"RECV", "IfConnected"})
      BY EmptyKinds
    <3> QED
      BY <1>1, <1>2, <3>1, SameReceivers
  <2>8. OnPool(s)' /\ Unused(s)'
    BY <1>1, <1>2, <2>3, PushedPool DEF Accepting, Unused
  <2>9. Pooled(s)'
    BY <2>3, <2>6, <2>7, <2>8 DEF Pooled, Accepting
  <2> QED
    BY <1>1, <2>1, <2>2, <2>7, <2>9 DEF Place
<1>7. \A q \in Sessions \ broken' : Place(q)' /\ Balanced(q)'
  <2> TAKE q \in Sessions \ broken'
  <2>1. q \in Sessions \ broken
    BY <1>1
  <2> QED
    BY <1>4, <1>5, <1>6, <2>1
<1> QED
  BY <1>3, <1>7 DEF Kept

LEMMA DisconnectedKept ==
  ASSUME IInv, TypeOK', NEW t \in Threads, NEW s \in Sessions,
         Does(t, "Disconnected", s, <<>>), m_bConnected' = [m_bConnected EXCEPT ![s] = FALSE],
         UNCHANGED <<m_sessionPool, m_nRef, pending, broken, deaf>>
  PROVE  Kept
<1>1. <<>> \in Lists /\ About(<<>>, s) /\ Quiet(<<>>)
  BY EmptyKinds, QuietLists
<1>2. ~m_bConnected'[s] /\ \A q \in Sessions \ {s} : m_bConnected'[q] = m_bConnected[q]
  BY TypeParts DEF IInv, RestOK
<1>3. s \notin broken => Place(s)'
  BY <1>2, ReturnStep
<1> QED
  BY <1>1, <1>2, <1>3, QuietKept DEF IoTypes

\* The client that was accepted is served from now on.
LEMMA ConnectedKept ==
  ASSUME IInv, TypeOK', NEW t \in Threads, NEW s \in Sessions,
         Does(t, "Connected", s, <<>>), m_bConnected' = [m_bConnected EXCEPT ![s] = TRUE],
         UNCHANGED <<m_sessionPool, m_nRef, pending, broken, deaf>>
  PROVE  Kept
<1>1. <<>> \in Lists /\ About(<<>>, s) /\ Quiet(<<>>)
  BY EmptyKinds, QuietLists
<1>2. m_bConnected'[s] /\ \A q \in Sessions \ {s} : m_bConnected'[q] = m_bConnected[q]
  BY TypeParts DEF IInv, RestOK
<1>3. ASSUME s \notin broken
      PROVE  Place(s)'
  <2>1. TypeOK /\ Place(s)
    BY <1>3 DEF IInv
  <2>2. /\ Shifted(todo[t], <<>>, todo'[t]) /\ Len(todo[t]) > 0
        /\ At(todo[t], Len(todo[t])).do = "Connected" /\ At(todo[t], Len(todo[t])).s = s
        /\ \A u \in Threads \ {t} : todo'[u] = todo[u]
    BY <1>1, <2>1, DoesStep
  <2>3. Completing(s) /\ todo[t] = Complete("ACCEPT", s)
    <3>1. "Connected" \notin ServingSteps /\ "Connected" \notin IdleSteps
      BY DEF ServingSteps, IdleSteps
    <3>2. ~AcceptShape(todo[t], s)
      BY <2>2, AcceptTop
    <3> QED
      BY <1>1, <2>1, <3>1, <3>2, Stage
  <2>4. \A u \in Threads \ {t} : Only(todo[u], s, IdleSteps)
    <3>1. PICK v \in IoThreads : \A u \in Threads \ {v} : Only(todo[u], s, IdleSteps)
      BY <2>3 DEF Completing
    <3>2. Len(todo[t]) \in 1 .. Len(todo[t])
      BY <2>2, LenProperties DEF Shifted, Lists
    <3>3. ~Only(todo[t], s, IdleSteps)
      BY <2>2, <3>2 DEF Only, IdleSteps
    <3> QED
      BY <3>1, <3>3
  <2>5. Only(todo'[t], s, ServingSteps)
    <3>1. PICK l : l = todo[t]
      OBVIOUS
    <3>2. /\ Len(l) = 6
          /\ l[2] = Step("Count", s) /\ l[3] = Step("AddRef", s) /\ l[4] = Step("RECV", s)
          /\ l[5] = Step("Decrement", s) /\ l[6] = Step("IfDisconnected", s)
      BY <2>3, <3>1, AcceptedList
    <3>3. \A n \in 1 .. 5 : At(l, n).do \in ServingSteps
      <4>1. \A i \in 2 .. 6 : l[i].do \in ServingSteps
        <5>1. \A i \in 2 .. 6 : i = 2 \/ i = 3 \/ i = 4 \/ i = 5 \/ i = 6
          OBVIOUS
        <5> QED
          BY <3>2, <5>1 DEF ServingSteps, Step
      <4>2. \A n \in 1 .. 5 : (6 + 1) - n \in 2 .. 6
        OBVIOUS
      <4> QED
        BY <3>2, <4>1, <4>2 DEF At
    <3>4. Len(todo'[t]) = 5 /\ \A n \in 1 .. 5 : At(todo'[t], n) = At(l, n)
      <4>1. Len(l) - 1 + Len(<<>>) = 5 /\ Len(l) - 1 = 5
        BY <3>2
      <4> QED
        BY <2>2, <3>1, <4>1 DEF Shifted
    <3> QED
      BY <3>3, <3>4 DEF Only
  <2>6. \A u \in Threads : Only(todo'[u], s, ServingSteps)
    <3>1. \A l : Only(l, s, IdleSteps) => Only(l, s, ServingSteps)
      BY DEF Only, ServingSteps
    <3> QED
      BY <2>2, <2>4, <2>5, <3>1
  <2>7. Receivers(s)' = Receivers(s)
    <3>1. Kinds(<<>>, StepNames \ {"RECV", "IfConnected"})
      BY EmptyKinds
    <3> QED
      BY <1>1, <2>1, <3>1, SameReceivers
  <2>8. Receiving(s)' = 1
    <3>1. pending'[s]["RECV"] = 0
      BY <2>3 DEF Completing, Unused, IoTypes
    <3>2. Cardinality(Receivers(s))' = 1
      BY <2>3, <2>7 DEF Completing
    <3> QED
      BY <3>1, <3>2 DEF Receiving
  <2>9. OffPool(s)' /\ pending'[s]["ACCEPT"] = 0 /\ pending'[s]["DISCONNECT"] = 0
    BY <2>3 DEF Completing, OffPool, Unused, IoTypes
  <2>10. Serving(s)'
    BY <2>6, <2>8, <2>9 DEF Serving
  <2> QED
    BY <1>2, <2>1, <2>7, <2>10 DEF Place
<1> QED
  BY <1>1, <1>2, <1>3, QuietKept DEF IoTypes

LEMMA SetConnectionKept ==
  ASSUME IInv, TypeOK', NEW t \in Threads, NEW s \in Sessions, SetConnection(t, s)
  PROVE  Kept
BY ConnectedKept, DisconnectedKept DEF SetConnection

\* The receiver of the handlers.
LEMMA HandlersListen ==
  ASSUME NEW s \in Sessions
  PROVE  /\ Listens(<<>>, s) = {}
         /\ Listens(Complete("ACCEPT", s), s) = {3}
         /\ Listens(Complete("RECV", s), s) = {3}
         /\ Listens(Complete("SEND", s), s) = {}
<1>1. Listens(<<>>, s) = {}
  BY DEF Listens
<1>2. Listens(Complete("ACCEPT", s), s) = {3}
  <2>1. PICK l : l = Complete("ACCEPT", s)
    OBVIOUS
  <2>2. /\ Len(l) = 6
        /\ l[1] = Step("Connected", s) /\ l[2] = Step("Count", s)
        /\ l[3] = Step("AddRef", s) /\ l[4] = Step("RECV", s)
        /\ l[5] = Step("Decrement", s) /\ l[6] = Step("IfDisconnected", s)
    BY <2>1, AcceptedList
  <2>3. /\ At(l, 6) = Step("Connected", s) /\ At(l, 5) = Step("Count", s)
        /\ At(l, 4) = Step("AddRef", s) /\ At(l, 3) = Step("RECV", s)
        /\ At(l, 2) = Step("Decrement", s) /\ At(l, 1) = Step("IfDisconnected", s)
    BY <2>2 DEF At
  <2>4. \A n \in 1 .. 6 : n = 1 \/ n = 2 \/ n = 3 \/ n = 4 \/ n = 5 \/ n = 6
    OBVIOUS
  <2>5. Listens(l, s) = {3}
    BY <2>2, <2>3, <2>4 DEF Listens, Step
  <2> QED
    BY <2>1, <2>5
<1>3. Listens(Complete("RECV", s), s) = {3}
  <2>1. PICK l : l = Complete("RECV", s)
    OBVIOUS
  <2>2. /\ Len(l) = 3 /\ l[1] = Step("IfConnected", s) /\ l[2] = Step("Decrement", s)
        /\ l[3] = Step("IfDisconnected", s)
    BY <2>1, ReceivedList
  <2>3. /\ At(l, 3) = Step("IfConnected", s) /\ At(l, 2) = Step("Decrement", s)
        /\ At(l, 1) = Step("IfDisconnected", s)
    BY <2>2 DEF At
  <2>4. \A n \in 1 .. 3 : n = 1 \/ n = 2 \/ n = 3
    OBVIOUS
  <2>5. Listens(l, s) = {3}
    BY <2>2, <2>3, <2>4 DEF Listens, Step
  <2> QED
    BY <2>1, <2>5
<1>4. Listens(Complete("SEND", s), s) = {}
  <2>1. PICK l : l = Complete("SEND", s)
    OBVIOUS
  <2>2. Len(l) = 2 /\ l[1] = Step("Decrement", s) /\ l[2] = Step("IfDisconnected", s)
    BY <2>1, SentList, ReleaseList
  <2>3. At(l, 2) = Step("Decrement", s) /\ At(l, 1) = Step("IfDisconnected", s)
    BY <2>2 DEF At
  <2>4. \A n \in 1 .. 2 : n = 1 \/ n = 2
    OBVIOUS
  <2>5. Listens(l, s) = {}
    BY <2>2, <2>3, <2>4 DEF Listens, Step
  <2> QED
    BY <2>1, <2>5
<1> QED
  BY <1>1, <1>2, <1>3, <1>4

\* The other sessions, when an idle thread gets steps about s.
LEMMA OthersTake ==
  ASSUME IInv, TypeOK', NEW t \in Threads, NEW l \in Lists, NEW s \in Sessions,
         About(l, s), todo[t] = <<>>, todo' = [todo EXCEPT ![t] = l],
         NEW q \in Sessions \ broken, q # s, Owed(q)' = Owed(q),
         m_bConnected'[q] = m_bConnected[q], pending'[q] = pending[q],
         m_nRef'[q] = m_nRef[q], deaf' = deaf,
         OnPool(q) => OnPool(q)', OffPool(q) => OffPool(q)'
  PROVE  Place(q)' /\ Balanced(q)'
<1>1. TypeOK /\ Place(q) /\ Balanced(q)
  BY DEF IInv
<1>2. \A i \in 1 .. Len(l) : l[i].s = q => l[i].do = "Brodcast"
  BY DEF About
<1>3. q \in Sessions /\ (q \in deaf => q \in deaf')
  OBVIOUS
<1>4. Place(q)'
  BY <1>1, <1>2, <1>3, SideTakes
<1>5. Balanced(q)'
  BY <1>1, SameBalance
<1> QED
  BY <1>4, <1>5

LEMMA SamePool ==
  ASSUME NEW q, m_sessionPool' = m_sessionPool
  PROVE  (OnPool(q) => OnPool(q)') /\ (OffPool(q) => OffPool(q)')
BY DEF OnPool, OffPool

LEMMA DequeueDoes ==
  ASSUME TypeOK, NEW t \in Threads, NEW io \in IoTypes, NEW s \in Sessions,
         Dequeue(t, io, s)
  PROVE  /\ pending[s] \in [IoTypes -> Nat] /\ pending[s][io] > 0
         /\ pending'[s] = [pending[s] EXCEPT ![io] = pending[s][io] - 1]
         /\ \A q \in Sessions \ {s} : pending'[q] = pending[q]
         /\ Outstanding(s)' = Outstanding(s) - 1 /\ Outstanding(s) \in Int
<1>1. /\ pending[s] \in [IoTypes -> Nat] /\ pending[s][io] > 0
      /\ pending'[s] = [pending[s] EXCEPT ![io] = pending[s][io] - 1]
      /\ \A q \in Sessions \ {s} : pending'[q] = pending[q]
  <2>1. /\ pending' = [pending EXCEPT ![s] = [pending[s] EXCEPT ![io] = pending[s][io] - 1]]
        /\ pending[s][io] > 0
    BY DEF Dequeue
  <2> QED
    BY <2>1, TypeParts DEF RestOK
<1>2. pending[s]["ACCEPT"] \in Nat /\ pending[s]["RECV"] \in Nat
      /\ pending[s]["SEND"] \in Nat /\ pending[s]["DISCONNECT"] \in Nat
  BY <1>1 DEF IoTypes
<1>3. /\ pending'[s]["ACCEPT"] = pending[s]["ACCEPT"] - (IF io = "ACCEPT" THEN 1 ELSE 0)
      /\ pending'[s]["RECV"] = pending[s]["RECV"] - (IF io = "RECV" THEN 1 ELSE 0)
      /\ pending'[s]["SEND"] = pending[s]["SEND"] - (IF io = "SEND" THEN 1 ELSE 0)
      /\ pending'[s]["DISCONNECT"]
           = pending[s]["DISCONNECT"] - (IF io = "DISCONNECT" THEN 1 ELSE 0)
  BY <1>1, <1>2 DEF IoTypes
<1>4. io = "ACCEPT" \/ io = "RECV" \/ io = "SEND" \/ io = "DISCONNECT"
  BY DEF IoTypes
<1>5. Outstanding(s)' = Outstanding(s) - 1 /\ Outstanding(s) \in Int
  BY <1>2, <1>3, <1>4 DEF Outstanding
<1> QED
  BY <1>1, <1>5

\* A good completion of an operation of s.
LEMMA CompletionPlace ==
  ASSUME IInv, TypeOK', NEW t \in IoThreads, NEW io \in IoTypes,
         NEW s \in Sessions \ broken, Completion(t, io, s)
  PROVE  Place(s)'
<1>1. TypeOK /\ Place(s) /\ t \in Threads
  BY DEF IInv, Threads
<1>2. /\ Dequeue(t, io, s) /\ todo[t] = <<>> /\ todo' = [todo EXCEPT ![t] = Complete(io, s)]
      /\ UNCHANGED <<m_sessionPool, m_bConnected, deaf>>
  BY DEF Completion, Dequeue
<1>3. todo'[t] = Complete(io, s) /\ \A u \in Threads \ {t} : todo'[u] = todo[u]
  BY <1>1, <1>2, TypeParts
<1>4. /\ pending[s] \in [IoTypes -> Nat] /\ pending[s][io] > 0
      /\ pending'[s] = [pending[s] EXCEPT ![io] = pending[s][io] - 1]
  BY <1>1, <1>2, DequeueDoes
<1>5. Listens(todo[t], s) = {}
  BY <1>2, HandlersListen
<1>6. IsFiniteSet(Receivers(s))
  BY <1>1 DEF Place
<1>7. OffPool(s) => OffPool(s)'
  BY <1>2, SamePool
<1>8. CASE m_bConnected[s]
  <2>1. Serving(s) /\ m_bConnected'[s]
    BY <1>1, <1>2, <1>8 DEF Place
  <2>2. io \in {"RECV", "SEND"}
    BY <1>4, <2>1 DEF Serving, IoTypes
  <2>3. /\ pending'[s]["ACCEPT"] = 0 /\ pending'[s]["DISCONNECT"] = 0
    BY <1>4, <2>1, <2>2 DEF Serving, IoTypes
  <2>4. Only(todo'[t], s, ServingSteps)
    <3>1. CASE io = "RECV"
      <4>1. Complete("RECV", s) \in Lists
            /\ Kinds(Complete("RECV", s), {"IfConnected", "Decrement", "IfDisconnected"})
        BY ListTypes, KindsLists DEF IoTypes
      <4> QED
        BY <1>3, <3>1, <4>1, OnlyNew DEF Kinds, ServingSteps
    <3>2. CASE io = "SEND"
      <4>1. ReleaseRef(s) \in Lists /\ Kinds(ReleaseRef(s), {"Decrement", "IfDisconnected"})
        BY ListTypes, KindsLists
      <4> QED
        BY <1>3, <3>2, <4>1, SentList, OnlyNew DEF Kinds, ServingSteps
    <3> QED
      BY <2>2, <3>1, <3>2
  <2>5. \A u \in Threads : Only(todo'[u], s, ServingSteps)
    BY <1>3, <2>1, <2>4 DEF Serving
  <2>6. IsFiniteSet(Receivers(s)') /\ Receiving(s)' = Receiving(s)
    <3>1. CASE io = "RECV"
      <4>1. Listens(todo'[t], s) = {3}
        BY <1>3, <3>1, HandlersListen
      <4>2. /\ IsFiniteSet(Receivers(s)') /\ Cardinality(Receivers(s)) \in Nat
            /\ Cardinality(Receivers(s)') = Cardinality(Receivers(s)) + 1
        BY <1>1, <1>3, <1>5, <1>6, <4>1, TakesReceive
      <4>3. pending'[s]["RECV"] = pending[s]["RECV"] - 1 /\ pending[s]["RECV"] \in Nat
        BY <1>4, <3>1
      <4> QED
        BY <4>2, <4>3 DEF Receiving
    <3>2. CASE io = "SEND"
      <4>1. Receivers(s)' = Receivers(s)
        BY <1>1, <1>3, <1>5, <3>2, HandlersListen, ListensKept
      <4>2. pending'[s]["RECV"] = pending[s]["RECV"]
        BY <1>4, <3>2 DEF IoTypes
      <4> QED
        BY <1>6, <4>1, <4>2 DEF Receiving
    <3> QED
      BY <2>2, <3>1, <3>2
  <2>7. Receiving(s)' = 1 \/ (s \in deaf' /\ Receiving(s)' = 0)
    BY <1>2, <2>1, <2>6 DEF Serving
  <2>8. OffPool(s)'
    BY <1>7, <2>1 DEF Serving
  <2>9. Serving(s)'
    BY <2>3, <2>5, <2>7, <2>8 DEF Serving
  <2> QED
    BY <2>1, <2>6, <2>9 DEF Place
<1>9. CASE ~m_bConnected[s]
  <2>1. ~Unused(s) /\ ~m_bConnected'[s]
    BY <1>2, <1>4, <1>9 DEF Unused
  <2>2. Accepted(s)
    BY <1>1, <1>9, <2>1 DEF Place, Pooled, Accepting, Completing
  <2>3. io = "ACCEPT"
    BY <1>4, <2>2 DEF Accepted
  <2>4. Unused(s)'
    BY <1>4, <2>2, <2>3 DEF Accepted, Unused
  <2>5. Listens(todo'[t], s) = {3}
    BY <1>3, <2>3, HandlersListen
  <2>6. /\ IsFiniteSet(Receivers(s)')
        /\ Cardinality(Receivers(s)') = Cardinality(Receivers(s)) + 1
    BY <1>1, <1>3, <1>5, <1>6, <2>5, TakesReceive
  <2>7. Cardinality(Receivers(s))' = 1
    BY <2>2, <2>6 DEF Accepted
  <2>8. OffPool(s)'
    BY <1>7, <2>2 DEF Accepted
  <2>9. Completing(s)'
    <3>1. \A u \in Threads \ {t} : Only(todo'[u], s, IdleSteps)
      BY <1>3, <2>2 DEF Accepted
    <3>2. todo'[t] = Complete("ACCEPT", s)
      BY <1>3, <2>3
    <3> QED
      BY <2>4, <2>7, <2>8, <3>1, <3>2 DEF Completing
  <2> QED
    BY <2>1, <2>6, <2>9 DEF Place
<1> QED
  BY <1>8, <1>9

LEMMA CompletionKept ==
  ASSUME IInv, TypeOK', NEW t \in IoThreads, NEW io \in IoTypes, NEW s \in Sessions,
         Completion(t, io, s)
  PROVE  Kept
<1>1. TypeOK /\ PairedAll /\ t \in Threads
  BY DEF IInv, Threads
<1>2. /\ Dequeue(t, io, s) /\ todo[t] = <<>> /\ todo' = [todo EXCEPT ![t] = Complete(io, s)]
      /\ UNCHANGED <<m_sessionPool, m_bConnected, m_nRef, broken, deaf>>
  BY DEF Completion, Dequeue
<1>3. /\ Outstanding(s)' = Outstanding(s) - 1 /\ Outstanding(s) \in Int
      /\ \A q \in Sessions \ {s} : pending'[q] = pending[q]
  BY <1>1, <1>2, DequeueDoes
<1>4. /\ PairedAll' /\ \A q \in Sessions \ {s} : Owed(q)' = Owed(q)
      /\ IsFiniteSet(Owed(s)) =>
           /\ IsFiniteSet(Owed(s)') /\ Cardinality(Owed(s)) \in Nat
           /\ Cardinality(Owed(s)') = Cardinality(Owed(s)) + 1
  BY <1>1, <1>2, CompleteTakes
<1>5. ASSUME s \notin broken
      PROVE  Place(s)' /\ Balanced(s)'
  <2>1. Balanced(s)
    BY <1>5 DEF IInv
  <2>2. Balanced(s)'
    BY <1>2, <1>3, <1>4, <2>1 DEF Balanced
  <2> QED
    BY <1>5, <2>2, CompletionPlace
<1>6. ASSUME NEW q \in Sessions \ broken, q # s
      PROVE  Place(q)' /\ Balanced(q)'
  <2>1. PICK l \in Lists : l = Complete(io, s) /\ About(l, s)
    BY ListTypes, AboutLists
  <2>2. /\ Owed(q)' = Owed(q) /\ m_bConnected'[q] = m_bConnected[q]
        /\ pending'[q] = pending[q] /\ m_nRef'[q] = m_nRef[q] /\ deaf' = deaf
    BY <1>2, <1>3, <1>4, <1>6
  <2>3. (OnPool(q) => OnPool(q)') /\ (OffPool(q) => OffPool(q)')
    BY <1>2, SamePool
  <2> QED
    BY <1>1, <1>2, <1>6, <2>1, <2>2, <2>3, OthersTake
<1>7. \A q \in Sessions \ broken' : Place(q)' /\ Balanced(q)'
  <2> TAKE q \in Sessions \ broken'
  <2>1. q \in Sessions \ broken
    BY <1>2
  <2> QED
    BY <1>5, <1>6, <2>1
<1> QED
  BY <1>4, <1>7 DEF Kept

LEMMA FailedCompletionKept ==
  ASSUME IInv, TypeOK', NEW t \in IoThreads, NEW io \in IoTypes, NEW s \in Sessions,
         FailedCompletion(t, io, s)
  PROVE  Kept
<1>1. TypeOK /\ PairedAll /\ t \in Threads
  BY DEF IInv, Threads
<1>2. /\ Dequeue(t, io, s) /\ todo[t] = <<>> /\ todo' = [todo EXCEPT ![t] = Abandon(s)]
      /\ UNCHANGED <<m_sessionPool, m_bConnected, m_nRef, deaf>>
      /\ broken' = broken \cup {s}
  BY DEF FailedCompletion, Dequeue
<1>3. \A q \in Sessions \ {s} : pending'[q] = pending[q]
  BY <1>1, <1>2, DequeueDoes
<1>4. PICK l \in Lists : l = Abandon(s) /\ About(l, s) /\ Quiet(l)
  BY ListTypes, AboutLists, QuietLists
<1>5. PairedAll' /\ \A q \in Sessions : Owed(q)' = Owed(q)
  BY <1>1, <1>2, <1>4, QuietTakes
<1>6. \A q \in Sessions \ broken' : Place(q)' /\ Balanced(q)'
  <2> TAKE q \in Sessions \ broken'
  <2>1. q \in Sessions \ broken /\ q # s
    BY <1>2
  <2>2. /\ Owed(q)' = Owed(q) /\ m_bConnected'[q] = m_bConnected[q]
        /\ pending'[q] = pending[q] /\ m_nRef'[q] = m_nRef[q] /\ deaf' = deaf
    BY <1>2, <1>3, <1>5, <2>1
  <2>3. (OnPool(q) => OnPool(q)') /\ (OffPool(q) => OffPool(q)')
    BY <1>2, SamePool
  <2> QED
    BY <1>1, <1>2, <1>4, <2>1, <2>2, <2>3, OthersTake
<1> QED
  BY <1>5, <1>6 DEF Kept

\* The last of the free sessions is taken.
LEMMA PoppedPool ==
  ASSUME TypeOK, m_sessionPool # <<>>, NEW s, s = Last(m_sessionPool),
         m_sessionPool' = Front(m_sessionPool)
  PROVE  /\ s \in Sessions /\ ~OffPool(s)
         /\ \A q \in Sessions \ {s} : /\ OnPool(q) => OnPool(q)'
                                      /\ OffPool(q) => OffPool(q)'
         /\ OnPool(s) => OffPool(s)'
<1>1. m_sessionPool \in Seq(Sessions)
  BY TypeParts DEF RestOK
<1>2. PICK h \in Nat : h = Len(m_sessionPool)
  BY <1>1, LenProperties
<1>3. h > 0 /\ \A i \in 1 .. h : m_sessionPool[i] \in Sessions
  BY <1>1, <1>2, EmptySeq, ElementOfSeq
<1>4. s = m_sessionPool[h] /\ h \in 1 .. h
  BY <1>2, <1>3 DEF Last
<1>5. Front(m_sessionPool) = SubSeq(m_sessionPool, 1, h - 1)
  BY <1>2 DEF Front
<1>6. /\ Len(m_sessionPool') = h - 1
      /\ \A j \in 1 .. h - 1 : m_sessionPool'[j] = m_sessionPool[j]
  <2>1. PICK p : p = SubSeq(m_sessionPool, 1, h - 1)
    OBVIOUS
  <2>2. \A i \in 1 .. h - 1 : m_sessionPool[i] \in Sessions
    BY <1>3
  <2>3. Len(p) = h - 1 /\ \A j \in 1 .. h - 1 : p[j] = m_sessionPool[1 + j - 1]
    BY <1>1, <1>2, <1>3, <2>1, <2>2, SubSeqProperties
  <2>4. \A j \in 1 .. h - 1 : 1 + j - 1 = j
    OBVIOUS
  <2> QED
    BY <1>5, <2>1, <2>3, <2>4
<1>7. \A j \in 1 .. h : j = h \/ j \in 1 .. h - 1
  OBVIOUS
<1>8. \A j \in 1 .. h - 1 : j \in 1 .. h /\ j # h
  OBVIOUS
<1>9. s \in Sessions /\ ~OffPool(s)
  BY <1>2, <1>3, <1>4 DEF OffPool
<1>10. OnPool(s) => OffPool(s)'
  BY <1>2, <1>4, <1>6, <1>8 DEF OnPool, OffPool
<1>11. ASSUME NEW q \in Sessions \ {s}
       PROVE  (OnPool(q) => OnPool(q)') /\ (OffPool(q) => OffPool(q)')
  <2>1. OffPool(q) => OffPool(q)'
    BY <1>2, <1>6, <1>8 DEF OffPool
  <2>2. ASSUME NEW k \in 1 .. h, \A j \in 1 .. h : m_sessionPool[j] = q <=> j = k
        PROVE  /\ k \in 1 .. h - 1
               /\ \A j \in 1 .. h - 1 : m_sessionPool'[j] = q <=> j = k
    <3>1. k # h
      BY <1>4, <1>11, <2>2
    <3> QED
      BY <1>6, <1>7, <1>8, <2>2, <3>1
  <2>3. OnPool(q) => OnPool(q)'
    BY <1>2, <1>6, <2>2 DEF OnPool
  <2> QED
    BY <2>1, <2>3
<1> QED
  BY <1>9, <1>10, <1>11

LEMMA AcceptSessionsKept ==
  ASSUME IInv, TypeOK', AcceptSessions
  PROVE  Kept
<1>1. TypeOK /\ PairedAll /\ Main \in Threads
  BY DEF IInv, Threads
<1>2. PICK s : s = Last(m_sessionPool)
  OBVIOUS
<1>3. /\ todo[Main] = <<>> /\ m_sessionPool # <<>>
      /\ todo' = [todo EXCEPT ![Main] = AcceptSteps(s)]
      /\ m_sessionPool' = Front(m_sessionPool)
      /\ UNCHANGED <<m_bConnected, m_nRef, pending, broken, deaf>>
  BY <1>2 DEF AcceptSessions, AcceptSteps
<1>4. /\ s \in Sessions /\ ~OffPool(s)
      /\ \A q \in Sessions \ {s} : /\ OnPool(q) => OnPool(q)'
                                   /\ OffPool(q) => OffPool(q)'
      /\ OnPool(s) => OffPool(s)'
  BY <1>1, <1>2, <1>3, PoppedPool
<1>5. PICK l \in Lists : l = AcceptSteps(s) /\ About(l, s) /\ Quiet(l)
  BY <1>4, ListTypes, AboutLists, QuietLists
<1>6. PairedAll' /\ \A q \in Sessions : Owed(q)' = Owed(q)
  BY <1>1, <1>3, <1>5, QuietTakes
<1>7. todo'[Main] = l /\ \A u \in Threads \ {Main} : todo'[u] = todo[u]
  BY <1>1, <1>3, <1>5, TypeParts
<1>8. ASSUME s \notin broken
      PROVE  Place(s)' /\ Balanced(s)'
  <2>1. Place(s) /\ Balanced(s)
    BY <1>4, <1>8 DEF IInv
  <2>2. Balanced(s)'
    BY <1>3, <1>4, <1>6, <2>1, SameBalance
  <2>3. ~m_bConnected[s] /\ Pooled(s)
    BY <1>4, <2>1 DEF Place, Serving, Accepting, Accepted, Completing
  <2>4. /\ Len(l) = 3 /\ l[1] = Step("AddRef", s) /\ l[2] = Step("ACCEPT", s)
        /\ l[3] = Step("Unlock", s)
    BY <1>4, <1>5, AcceptingList
  <2>5. /\ At(l, 1) = Step("Unlock", s) /\ At(l, 2) = Step("ACCEPT", s)
        /\ At(l, 3) = Step("AddRef", s)
    BY <2>4 DEF At
  <2>6. \A n \in 1 .. 3 : n = 1 \/ n = 2 \/ n = 3
    OBVIOUS
  <2>7. AcceptShape(todo'[Main], s)
    BY <1>7, <2>4, <2>5, <2>6 DEF AcceptShape, Step
  <2>8. Listens(todo'[Main], s) = {} /\ Listens(todo[Main], s) = {}
    <3>1. Listens(l, s) = {}
      BY <2>4, <2>5, <2>6 DEF Listens, Step
    <3> QED
      BY <1>3, <1>4, <1>7, <3>1, HandlersListen
  <2>9. Receivers(s)' = Receivers(s)
    BY <1>1, <1>4, <1>7, <2>8, ListensKept
  <2>10. OffPool(s)' /\ Unused(s)'
    BY <1>3, <1>4, <2>3 DEF Pooled, Unused
  <2>11. \A u \in IoThreads : Only(todo'[u], s, IdleSteps)
    <3>1. \A u \in IoThreads : u \in Threads \ {Main}
      BY PoolAssumption DEF Threads
    <3> QED
      BY <1>7, <2>3, <3>1 DEF Pooled
  <2>12. Accepting(s)'
    BY <2>3, <2>7, <2>9, <2>10, <2>11 DEF Accepting, Pooled
  <2>13. Place(s)'
    BY <1>3, <2>1, <2>3, <2>9, <2>12 DEF Place
  <2> QED
    BY <2>2, <2>13
<1>9. ASSUME NEW q \in Sessions \ broken, q # s
      PROVE  Place(q)' /\ Balanced(q)'
  <2>1. /\ Owed(q)' = Owed(q) /\ m_bConnected'[q] = m_bConnected[q]
        /\ pending'[q] = pending[q] /\ m_nRef'[q] = m_nRef[q] /\ deaf' = deaf
        /\ (OnPool(q) => OnPool(q)') /\ (OffPool(q) => OffPool(q)')
    BY <1>3, <1>4, <1>6, <1>9
  <2> QED
    BY <1>1, <1>3, <1>4, <1>5, <1>9, <2>1, OthersTake
<1>10. \A q \in Sessions \ broken' : Place(q)' /\ Balanced(q)'
  <2> TAKE q \in Sessions \ broken'
  <2>1. q \in Sessions \ broken
    BY <1>3
  <2> QED
    BY <1>8, <1>9, <2>1
<1> QED
  BY <1>6, <1>10 DEF Kept

LEMMA MainBroadcastsKept ==
  ASSUME IInv, TypeOK', MainBroadcasts
  PROVE  Kept
<1>1. TypeOK /\ PairedAll /\ Main \in Threads
  BY DEF IInv, Threads
<1>2. /\ todo[Main] = <<>>
      /\ UNCHANGED <<m_sessionPool, m_bConnected, m_nRef, pending, broken, deaf>>
  BY DEF MainBroadcasts
<1>3. todo' = [todo EXCEPT ![Main] = Brodcast(m_sessionVec)]
  BY DEF MainBroadcasts
<1>4. PICK l \in Lists : /\ l = Brodcast(m_sessionVec) /\ Quiet(l)
                         /\ \A i \in 1 .. Len(l) : l[i].do = "Brodcast"
  BY EverySession, BrodcastList, BrodcastQuiet
<1>5. PairedAll' /\ \A q \in Sessions : Owed(q)' = Owed(q)
  BY <1>1, <1>2, <1>3, <1>4, QuietTakes
<1>6. \A q \in Sessions \ broken' : Place(q)' /\ Balanced(q)'
  <2> TAKE q \in Sessions \ broken'
  <2>1. q \in Sessions \ broken /\ Place(q) /\ Balanced(q)
    BY <1>2 DEF IInv
  <2>2. Balanced(q)'
    BY <1>2, <1>5, <2>1, SameBalance
  <2>3. /\ m_bConnected'[q] = m_bConnected[q] /\ pending'[q] = pending[q]
        /\ q \in deaf => q \in deaf'
    BY <1>2
  <2>4. (OnPool(q) => OnPool(q)') /\ (OffPool(q) => OffPool(q)')
    BY <1>2, SamePool
  <2>5. \A i \in 1 .. Len(l) : l[i].s = q => l[i].do = "Brodcast"
    BY <1>4
  <2>6. todo' = [todo EXCEPT ![Main] = l]
    BY <1>3, <1>4
  <2>7. Place(q)'
    BY <1>1, <1>2, <2>1, <2>3, <2>4, <2>5, <2>6, SideTakes
  <2> QED
    BY <2>2, <2>7
<1> QED
  BY <1>5, <1>6 DEF Kept

LEMMA InvInit == Init => IInv
<1> SUFFICES ASSUME Init PROVE IInv
  OBVIOUS
<1>1. TypeOK
  BY TypeInit
<1>2. \A t \in Threads : todo[t] = <<>>
  BY DEF Init
<1>3. PairedAll
  <2>1. Len(<<>>) = 0 /\ \A i \in 1 .. 0 : FALSE
    OBVIOUS
  <2>2. Paired(<<>>)
    BY <2>1 DEF Paired
  <2> QED
    BY <1>2, <2>2 DEF PairedAll
<1>4. ASSUME NEW s \in Sessions
      PROVE  Place(s) /\ Balanced(s)
  <2>1. \A t \in Threads : /\ Owes(todo[t], s) = {} /\ Listens(todo[t], s) = {}
                           /\ Only(todo[t], s, IdleSteps)
    <3>1. Len(<<>>) = 0 /\ \A n \in 1 .. 0 : FALSE
      OBVIOUS
    <3> QED
      BY <1>2, <3>1 DEF Owes, Listens, Only
  <2>2. /\ \A t \in Threads : OwesAll(todo, s)[t] = {}
        /\ \A t \in Threads : ListensAll(todo, s)[t] = {}
    BY <2>1 DEF OwesAll, ListensAll
  <2>3. /\ IsFiniteSet(Owed(s)) /\ Cardinality(Owed(s)) = 0
        /\ IsFiniteSet(Receivers(s)) /\ Cardinality(Receivers(s)) = 0
    BY <1>1, <2>2, SpreadEmpty, OwedSpread, ReceiversSpread, TypeParts
  <2>4. Unused(s) /\ Outstanding(s) = 0 /\ m_nRef[s] = 0 /\ ~m_bConnected[s]
    BY DEF Init, Unused, Outstanding, IoTypes
  <2>5. OnPool(s)
    <3>1. m_sessionPool = m_sessionVec
      BY DEF Init
    <3>2. PICK k \in 1 .. Len(m_sessionVec) : m_sessionVec[k] = s
      BY EverySession
    <3>3. \A j \in 1 .. Len(m_sessionVec) : m_sessionVec[j] = s <=> j = k
      BY <3>2, EverySession
    <3> QED
      BY <3>1, <3>3 DEF OnPool
  <2>6. Pooled(s)
    BY <2>1, <2>3, <2>4, <2>5 DEF Pooled
  <2> QED
    BY <2>3, <2>4, <2>6 DEF Place, Balanced
<1> QED
  BY <1>1, <1>3, <1>4 DEF IInv

LEMMA InvNext ==
  ASSUME IInv, [Next]_vars
  PROVE  IInv'
<1>1. TypeOK'
  BY TypeNext DEF IInv
<1>2. ASSUME NEW t \in Threads, Run(t)
      PROVE  Kept
  BY <1>1, <1>2, AddRefKept, StartKept, StartFailsKept, DecrementKept, IfDisconnectedKept,
     IfZeroKept, SetConnectionKept, ZeroRefKept, CountKept, LockKept, UnlockKept,
     PushPoolKept, IfConnectedKept, BrodcastRoundKept, RequestSendKept DEF Run
<1>3. ASSUME NEW t \in IoThreads, IOThreadMain(t)
      PROVE  Kept
  BY <1>1, <1>3, CompletionKept, FailedCompletionKept DEF IOThreadMain
<1>4. ASSUME AcceptSessions
      PROVE  Kept
  BY <1>1, <1>4, AcceptSessionsKept
<1>5. ASSUME MainBroadcasts
      PROVE  Kept
  BY <1>1, <1>5, MainBroadcastsKept
<1>6. CASE Next
  <2>1. Kept
    BY <1>2, <1>3, <1>4, <1>5, <1>6 DEF Next
  <2> QED
    BY <1>1, <2>1 DEF IInv, Kept
<1>7. CASE UNCHANGED vars
  <2>1. UNCHANGED <<m_sessionPool, m_nRef, m_bConnected, pending, todo, broken, deaf>>
    BY <1>7 DEF vars
  <2>2. PairedAll'
    BY <2>1 DEF IInv, PairedAll
  <2>3. ASSUME NEW q \in Sessions \ broken
        PROVE  Place(q)' /\ Balanced(q)'
    <3>1. Place(q) /\ Balanced(q)
      BY <2>3 DEF IInv
    <3>2. Owed(q)' = Owed(q) /\ Receivers(q)' = Receivers(q)
      BY <2>1 DEF Owed, Receivers, Undone, StepAt
    <3>3. Receiving(q)' = Receiving(q) /\ (Unused(q) <=> Unused(q)')
      BY <2>1, <3>2 DEF Receiving, Unused
    <3>4. Balanced(q)'
      BY <2>1, <3>1, <3>2, SameBalance
    <3>5. (OnPool(q) => OnPool(q)') /\ (OffPool(q) => OffPool(q)')
      BY <2>1, SamePool
    <3>6. Place(q)'
      BY <2>1, <3>1, <3>2, <3>3, <3>5
         DEF Place, Serving, Pooled, Accepting, Accepted, Completing
    <3> QED
      BY <3>4, <3>6
  <2> QED
    BY <1>1, <2>1, <2>2, <2>3 DEF IInv
<1> QED
  BY <1>6, <1>7

LEMMA Invariance == Spec => []IInv
<1>1. IInv /\ [Next]_vars => IInv'
  BY InvNext
<1> QED
  BY InvInit, <1>1, PTL DEF Spec

\* The reference count of a session on which nothing has failed is that of its
\* outstanding operations and of the handlers that are still to release one,
\* whatever the number of threads, sessions and messages.
THEOREM ReferencesBalance == Spec => []RefBalance
<1>1. IInv => RefBalance
  BY DEF IInv, Balanced, RefBalance
<1> QED
  BY Invariance, <1>1, PTL

\* A session on which nothing has failed has one receive at most, outstanding
\* or about to be handled or posted, and exactly one while it is connected and
\* no receive has been refused.
THEOREM OneReceiver == Spec => []SingleReceiver
<1>1. ASSUME IInv, NEW s \in Sessions \ broken
      PROVE  /\ Receiving(s) <= 1
             /\ m_bConnected[s] /\ s \notin deaf => Receiving(s) = 1
  <2>1. Place(s)
    BY <1>1 DEF IInv
  <2>2. CASE m_bConnected[s]
    BY <2>1, <2>2 DEF Place, Serving
  <2>3. CASE ~m_bConnected[s]
    <3>1. pending[s]["RECV"] = 0 /\ Cardinality(Receivers(s)) \in {0, 1}
      BY <2>1, <2>3 DEF Place, Pooled, Accepting, Accepted, Completing, Unused, IoTypes
    <3> QED
      BY <2>3, <3>1 DEF Receiving
  <2> QED
    BY <2>2, <2>3
<1>2. IInv => SingleReceiver
  BY <1>1 DEF SingleReceiver
<1> QED
  BY Invariance, <1>2, PTL

LEMMA IdleOwesNothing ==
  ASSUME TypeOK, NEW s \in Sessions, \A t \in Threads : Only(todo[t], s, IdleSteps)
  PROVE  Cardinality(Owed(s)) = 0
<1>1. \A t \in Threads : Owes(todo[t], s) = {}
  BY DEF Only, Owes, IdleSteps, IoTypes
<1>2. \A t \in Threads : OwesAll(todo, s)[t] = {}
  BY <1>1 DEF OwesAll
<1> QED
  BY <1>2, SpreadEmpty, OwedSpread, TypeParts

\* A free session on which nothing has failed is in the pool once, has no
\* reference and no operation, and no thread is about to use it.
THEOREM FreeAtRest == Spec => []PoolAtRest
<1>1. ASSUME IInv, NEW s \in Sessions \ broken, NEW i \in 1 .. Len(m_sessionPool),
             m_sessionPool[i] = s
      PROVE  /\ ~m_bConnected[s] /\ Pooled(s)
             /\ \A j \in 1 .. Len(m_sessionPool) : m_sessionPool[j] = s => i = j
  <2>1. Place(s) /\ ~OffPool(s)
    BY <1>1 DEF IInv, OffPool
  <2>2. ~m_bConnected[s] /\ Pooled(s)
    BY <2>1 DEF Place, Serving, Accepting, Accepted, Completing
  <2> QED
    BY <1>1, <2>2 DEF Pooled, OnPool
<1>2. ASSUME IInv
      PROVE  DOMAIN m_sessionPool = 1 .. Len(m_sessionPool)
  BY <1>2, TypeParts, LenProperties DEF IInv, RestOK
<1>3. ASSUME IInv, NEW i \in DOMAIN m_sessionPool, NEW j \in DOMAIN m_sessionPool,
             m_sessionPool[i] = m_sessionPool[j]
      PROVE  i = j \/ m_sessionPool[i] \in broken
  <2>1. m_sessionPool[i] \in Sessions
    BY <1>2, <1>3, TypeParts, ElementOfSeq DEF IInv, RestOK
  <2> QED
    BY <1>1, <1>2, <1>3, <2>1
<1>4. ASSUME IInv, NEW s \in Range(m_sessionPool) \ broken
      PROVE  /\ ~m_bConnected[s] /\ m_nRef[s] = 0 /\ Outstanding(s) = 0
             /\ \A t \in Threads : \A i \in DOMAIN todo[t] :
                  todo[t][i].s = s => todo[t][i].do \in {"Brodcast", "Unlock"}
  <2>1. PICK i \in 1 .. Len(m_sessionPool) : m_sessionPool[i] = s
    BY <1>2, <1>4 DEF Range
  <2>2. s \in Sessions
    BY <1>4, <2>1, TypeParts, ElementOfSeq DEF IInv, RestOK
  <2>3. ~m_bConnected[s] /\ Pooled(s) /\ Balanced(s)
    BY <1>1, <1>4, <2>1, <2>2 DEF IInv
  <2>4. Outstanding(s) = 0
    BY <2>3 DEF Pooled, Unused, Outstanding, IoTypes
  <2>5. Cardinality(Owed(s)) = 0
    BY <1>4, <2>2, <2>3, IdleOwesNothing DEF IInv, Pooled
  <2>6. m_nRef[s] = 0
    BY <2>3, <2>4, <2>5 DEF Balanced
  <2>7. ASSUME NEW t \in Threads, NEW k \in DOMAIN todo[t], todo[t][k].s = s
        PROVE  todo[t][k].do \in {"Brodcast", "Unlock"}
    <3>1. todo[t] \in Lists
      BY <1>4, TypeParts DEF IInv
    <3>2. PICK h \in Nat : h = Len(todo[t]) /\ DOMAIN todo[t] = 1 .. h
      BY <3>1, LenProperties DEF Lists
    <3>3. PICK n \in 1 .. h : n = h + 1 - k
      BY <2>7, <3>2
    <3>4. h + 1 - n = k
      BY <2>7, <3>2, <3>3
    <3>5. At(todo[t], n) = todo[t][k]
      BY <3>2, <3>4 DEF At
    <3> QED
      BY <2>3, <2>7, <3>2, <3>3, <3>5 DEF Pooled, Only, IdleSteps
  <2> QED
    BY <2>3, <2>4, <2>6, <2>7
<1>5. IInv => PoolAtRest
  BY <1>3, <1>4 DEF PoolAtRest
<1> QED
  BY Invariance, <1>5, PTL
=============================================================================
