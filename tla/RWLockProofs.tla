---------------------------- MODULE RWLockProofs ----------------------------
(***************************************************************************)
(* Proofs about RWLock for any number of threads, locks and calls, any     *)
(* width of the word and any orders, of which several locks may share one. *)
(* The mutual exclusion proof rests on what the word says of the guards;   *)
(* the deadlock proof on the guards being the stack of the checker.        *)
(***************************************************************************)
EXTENDS RWLock, FiniteSetTheorems, SequenceTheorems, TLAPS

Modes == {"read", "write"}

\* The stack of the checker holds the locks of the thread's guards, oldest
\* first, and above them the lock the thread spins for; every lock on it was
\* pushed by a call.
Aligned(t) ==
  /\ Len(m_lockStack[t]) = IF Waiting(t) THEN Len(guards[t]) + 1 ELSE Len(guards[t])
  /\ \A k \in 1 .. Len(guards[t]) : m_lockStack[t][k] = guards[t][k].lock
  /\ Len(m_lockStack[t]) <= calls[t]

\* What ReadLock compares with is the reader part of the word.
ExpectedMasked ==
  \A t \in Threads : pc[t] = "cas" => expected[t] <= ON_READ

IInv ==
  /\ TypeOK
  /\ \A t \in Threads : Aligned(t)
  /\ ExpectedMasked
  /\ MutualExclusion
  /\ FlagTellsHolders

\* What the proofs need of the constants.
LEMMA Constants ==
  /\ ON_READ \in Nat \ {0}
  /\ ON_WRITE \in Nat
  /\ ON_WRITE > ON_READ + 1
  /\ MaxCalls \in Nat
  /\ Order \in [Locks -> Nat]
  BY ConstantsAssumption DEF ConstantsAssumption

\* What is left of a sequence without its last element.
LEMMA FrontFacts ==
  ASSUME NEW S, NEW s \in Seq(S), s # <<>>
  PROVE  /\ Len(s) \in Nat /\ Len(s) > 0
         /\ s[Len(s)] \in S
         /\ Front(s) \in Seq(S)
         /\ Len(Front(s)) = Len(s) - 1
         /\ \A i \in 1 .. Len(s) - 1 : Front(s)[i] = s[i]
<1>1. Len(s) \in Nat /\ Len(s) > 0
  BY LenProperties, EmptySeq
<1>2. \A i \in 1 .. Len(s) : s[i] \in S
  BY ElementOfSeq
<1>3. Front(s) = SubSeq(s, 1, Len(s) - 1)
  BY DEF Front
<1>4. /\ SubSeq(s, 1, Len(s) - 1) \in Seq(S)
      /\ Len(SubSeq(s, 1, Len(s) - 1)) = Len(s) - 1
      /\ \A i \in 1 .. Len(s) - 1 : SubSeq(s, 1, Len(s) - 1)[i] = s[i]
  <2> DEFINE n == Len(s) - 1
             f == SubSeq(s, 1, n)
  <2>1. n \in Int /\ 1 \in Int /\ n >= 0 /\ \A i \in 1 .. n : s[i] \in S
    BY <1>1, <1>2
  <2>2. /\ f \in Seq(S)
        /\ Len(f) = IF 1 <= n THEN n - 1 + 1 ELSE 0
        /\ \A i \in 1 .. n - 1 + 1 : f[i] = s[1 + i - 1]
    BY <2>1, SubSeqProperties
  <2>3. Len(f) = n
    <3>1. Len(f) = IF 1 <= n THEN n - 1 + 1 ELSE 0
      BY <2>2
    <3> HIDE DEF f, n
    <3> QED
      BY ONLY <3>1, <2>1
  <2>4. ASSUME NEW i \in 1 .. n PROVE f[i] = s[i]
    <3>1. i \in 1 .. n - 1 + 1 /\ 1 + i - 1 = i
      BY ONLY <2>1, i \in 1 .. n
    <3>2. f[i] = s[1 + i - 1]
      BY <3>1, <2>2
    <3> QED
      BY <3>1, <3>2, Zenon
  <2> QED
    BY <2>2, <2>3, <2>4
<1> QED
  BY <1>1, <1>2, <1>3, <1>4

-----------------------------------------------------------------------------
(* The guards of a lock *)

\* The number of guards is a number: finitely many threads make finitely many
\* calls.
LEMMA GuardsFinite ==
  ASSUME NEW l, NEW mode
  PROVE  IsFiniteSet(Guards(l, mode)) /\ Cardinality(Guards(l, mode)) \in Nat
<1>1. IsFiniteSet(1 .. MaxCalls)
  BY Constants, FS_Interval
<1>2. IsFiniteSet(Threads \X (1 .. MaxCalls))
  BY <1>1, ConstantsAssumption, FS_Product DEF ConstantsAssumption
<1>3. Guards(l, mode) \subseteq Threads \X (1 .. MaxCalls)
  BY DEF Guards
<1>4. IsFiniteSet(Guards(l, mode))
  BY <1>2, <1>3, FS_Subset
<1> QED
  BY <1>4, FS_CardinalityType

\* Two sets of pairs are equal if they have the same pairs.
LEMMA SamePairs ==
  ASSUME NEW S, NEW T, NEW A, NEW B, A \subseteq S \X T, B \subseteq S \X T,
         \A u \in S, i \in T : <<u, i>> \in A <=> <<u, i>> \in B
  PROVE  A = B
<1> SUFFICES ASSUME NEW g PROVE g \in A <=> g \in B
  OBVIOUS
<1>1. CASE g \in S \X T
  <2>1. PICK u \in S, i \in T : g = <<u, i>>
    BY <1>1
  <2> QED
    BY <2>1
<1>2. CASE g \notin S \X T
  BY <1>2
<1> QED
  BY <1>1, <1>2

\* A new guard is one more guard of its lock and mode, and of no other.
LEMMA GuardAdded ==
  ASSUME guards \in [Threads -> Seq(Guard)],
         NEW t \in Threads, NEW l \in Locks, NEW mode \in Modes,
         Len(guards[t]) < MaxCalls,
         guards' = [guards EXCEPT ![t] = Append(@, [lock |-> l, mode |-> mode])]
  PROVE  /\ guards' \in [Threads -> Seq(Guard)]
         /\ <<t, Len(guards[t]) + 1>> \notin Guards(l, mode)
         /\ Guards(l, mode)' = Guards(l, mode) \cup {<<t, Len(guards[t]) + 1>>}
         /\ \A k \in Locks, other \in Modes :
              k # l \/ other # mode => Guards(k, other)' = Guards(k, other)
<1> DEFINE n == Len(guards[t])
           new == [lock |-> l, mode |-> mode]
<1>1. new \in Guard /\ guards[t] \in Seq(Guard) /\ n \in Nat
  BY LenProperties DEF Guard, Modes
<1>2. /\ Append(guards[t], new) \in Seq(Guard)
      /\ Len(Append(guards[t], new)) = n + 1
      /\ Append(guards[t], new)[n + 1] = new
      /\ \A i \in 1 .. n : Append(guards[t], new)[i] = guards[t][i]
  BY <1>1, AppendProperties
<1>3. guards' \in [Threads -> Seq(Guard)]
  BY <1>2
<1>4. guards'[t] = Append(guards[t], new) /\ \A u \in Threads \ {t} : guards'[u] = guards[u]
  OBVIOUS
<1>5. DOMAIN guards[t] = 1 .. n /\ DOMAIN guards'[t] = 1 .. n + 1
  BY <1>1, <1>2, <1>4, LenProperties
<1>6. ASSUME NEW k \in Locks, NEW other \in Modes,
             NEW u \in Threads, NEW i \in 1 .. MaxCalls
      PROVE  <<u, i>> \in Guards(k, other)'
             <=> \/ <<u, i>> \in Guards(k, other)
                 \/ u = t /\ i = n + 1 /\ k = l /\ other = mode
  <2>1. CASE u # t
    BY <2>1, <1>4 DEF Guards
  <2>2. CASE u = t /\ i \in 1 .. n
    BY <2>2, <1>1, <1>2, <1>4, <1>5 DEF Guards
  <2>3. CASE u = t /\ i = n + 1
    BY <2>3, <1>1, <1>2, <1>4, <1>5 DEF Guards
  <2>4. CASE u = t /\ i \notin 1 .. n + 1
    BY <2>4, <1>1, <1>5 DEF Guards
  <2> QED
    BY <2>1, <2>2, <2>3, <2>4, <1>1
<1>7. \A k, other : /\ Guards(k, other) \subseteq Threads \X (1 .. MaxCalls)
                    /\ Guards(k, other)' \subseteq Threads \X (1 .. MaxCalls)
  BY DEF Guards
<1>8. n + 1 \in 1 .. MaxCalls /\ n + 1 \notin 1 .. n
  BY <1>1, Constants
<1>9. <<t, n + 1>> \notin Guards(l, mode)
  BY <1>5, <1>8 DEF Guards
<1>10. Guards(l, mode)' = Guards(l, mode) \cup {<<t, n + 1>>}
  BY <1>6, <1>7, <1>8
<1>11. ASSUME NEW k \in Locks, NEW other \in Modes, k # l \/ other # mode
       PROVE  Guards(k, other)' = Guards(k, other)
  <2>1. ASSUME NEW u \in Threads, NEW i \in 1 .. MaxCalls
        PROVE  <<u, i>> \in Guards(k, other)' <=> <<u, i>> \in Guards(k, other)
    BY <1>6, <1>11
  <2> DEFINE A == Guards(k, other)'
             B == Guards(k, other)
             I == 1 .. MaxCalls
  <2>3. A \subseteq Threads \X I /\ B \subseteq Threads \X I
    BY <1>7, Zenon
  <2>4. \A u \in Threads, i \in I : <<u, i>> \in A <=> <<u, i>> \in B
    BY <2>1
  <2> HIDE DEF A, B, I
  <2>5. A = B
    BY ONLY <2>3, <2>4, SamePairs
  <2> QED
    BY <2>5 DEF A, B
<1> QED
  BY <1>3, <1>9, <1>10, <1>11

\* The guard constructed last ends: its lock has one guard of its mode less.
LEMMA GuardRemoved ==
  ASSUME guards \in [Threads -> Seq(Guard)],
         NEW t \in Threads, NEW l \in Locks, NEW mode \in Modes,
         guards[t] # <<>>, Len(guards[t]) <= MaxCalls,
         Last(guards[t]).lock = l, Last(guards[t]).mode = mode,
         guards' = [guards EXCEPT ![t] = Front(@)]
  PROVE  /\ guards' \in [Threads -> Seq(Guard)]
         /\ Len(guards'[t]) = Len(guards[t]) - 1
         /\ \A i \in 1 .. Len(guards[t]) - 1 : guards'[t][i] = guards[t][i]
         /\ <<t, Len(guards[t])>> \in Guards(l, mode)
         /\ Guards(l, mode)' = Guards(l, mode) \ {<<t, Len(guards[t])>>}
         /\ \A k \in Locks, other \in Modes :
              k # l \/ other # mode => Guards(k, other)' = Guards(k, other)
<1> DEFINE n == Len(guards[t])
           old == [lock |-> l, mode |-> mode]
<1>1. guards[t] \in Seq(Guard) /\ n \in Nat /\ n > 0 /\ guards[t][n] = old
  <2>1. guards[t] \in Seq(Guard)
    OBVIOUS
  <2>2. n \in Nat /\ n > 0 /\ guards[t][n] \in Guard
    BY ONLY <2>1, FrontFacts, guards[t] # <<>>
  <2>3. guards[t][n].lock = l /\ guards[t][n].mode = mode
    BY DEF Last
  <2>4. guards[t][n] = old
    BY ONLY <2>2, <2>3 DEF Guard
  <2> QED
    BY <2>1, <2>2, <2>4
<1>2. /\ Front(guards[t]) \in Seq(Guard)
      /\ Len(Front(guards[t])) = n - 1
      /\ \A i \in 1 .. n - 1 : Front(guards[t])[i] = guards[t][i]
  BY ONLY <1>1, FrontFacts, guards[t] # <<>>
<1>3. guards' \in [Threads -> Seq(Guard)]
  BY <1>2
<1>4. guards'[t] = Front(guards[t]) /\ \A u \in Threads \ {t} : guards'[u] = guards[u]
  OBVIOUS
<1>5. DOMAIN guards[t] = 1 .. n /\ DOMAIN guards'[t] = 1 .. n - 1
  BY <1>1, <1>2, <1>4, LenProperties
<1>6. ASSUME NEW k \in Locks, NEW other \in Modes,
             NEW u \in Threads, NEW i \in 1 .. MaxCalls
      PROVE  <<u, i>> \in Guards(k, other)'
             <=> <<u, i>> \in Guards(k, other) /\ ~(u = t /\ i = n)
  <2>1. CASE u # t
    BY <2>1, <1>4 DEF Guards
  <2>2. CASE u = t /\ i \in 1 .. n - 1
    BY <2>2, <1>1, <1>2, <1>4, <1>5 DEF Guards
  <2>3. CASE u = t /\ i = n
    BY <2>3, <1>1, <1>5 DEF Guards
  <2>4. CASE u = t /\ i \notin 1 .. n
    <3>1. i \notin 1 .. n - 1 /\ i # n
      BY <2>4, <1>1
    <3> QED
      BY <2>4, <3>1, <1>5 DEF Guards
  <2> QED
    BY <2>1, <2>2, <2>3, <2>4, <1>1
<1>7. \A k, other : /\ Guards(k, other) \subseteq Threads \X (1 .. MaxCalls)
                    /\ Guards(k, other)' \subseteq Threads \X (1 .. MaxCalls)
  BY DEF Guards
<1>8. <<t, n>> \in Guards(l, mode)
  BY <1>1, <1>5, Constants DEF Guards
<1>9. Guards(l, mode)' = Guards(l, mode) \ {<<t, n>>}
  BY <1>6, <1>7
<1>10. ASSUME NEW k \in Locks, NEW other \in Modes, k # l \/ other # mode
       PROVE  Guards(k, other)' = Guards(k, other)
  <2>1. <<t, n>> \notin Guards(k, other)
    BY <1>1, <1>10 DEF Guards
  <2>2. ASSUME NEW u \in Threads, NEW i \in 1 .. MaxCalls
        PROVE  <<u, i>> \in Guards(k, other)' <=> <<u, i>> \in Guards(k, other)
    BY <1>6, <2>1
  <2> DEFINE A == Guards(k, other)'
             B == Guards(k, other)
             I == 1 .. MaxCalls
  <2>3. A \subseteq Threads \X I /\ B \subseteq Threads \X I
    BY <1>7, Zenon
  <2>4. \A u \in Threads, i \in I : <<u, i>> \in A <=> <<u, i>> \in B
    BY <2>2
  <2> HIDE DEF A, B, I
  <2>5. A = B
    BY ONLY <2>3, <2>4, SamePairs
  <2> QED
    BY <2>5 DEF A, B
<1> QED
  BY <1>2, <1>3, <1>4, <1>8, <1>9, <1>10

\* A guard alive is a guard of the lock it names.
LEMMA GuardCounted ==
  ASSUME IInv, NEW t \in Threads, NEW k \in 1 .. Len(guards[t])
  PROVE  /\ guards[t][k] \in Guard
         /\ <<t, k>> \in Guards(guards[t][k].lock, guards[t][k].mode)
<1>1. guards[t] \in Seq(Guard) /\ Len(guards[t]) \in Nat /\ DOMAIN guards[t] = 1 .. Len(guards[t])
  BY LenProperties DEF IInv, TypeOK
<1>2. Len(guards[t]) <= MaxCalls
  BY <1>1, Constants DEF IInv, Aligned, TypeOK
<1>3. guards[t][k] \in Guard
  BY <1>1, ElementOfSeq
<1>4. k \in 1 .. MaxCalls /\ k \in DOMAIN guards[t]
  BY <1>1, <1>2, Constants
<1>5. guards[t][k] = [lock |-> guards[t][k].lock, mode |-> guards[t][k].mode]
  BY <1>3 DEF Guard
<1> QED
  BY <1>3, <1>4, <1>5 DEF Guards

\* The shape of a thread's stack in terms of its guards.
LEMMA StackShape ==
  ASSUME IInv, NEW t \in Threads
  PROVE  /\ m_lockStack[t] \in Seq(Locks) /\ guards[t] \in Seq(Guard)
         /\ Len(m_lockStack[t]) \in Nat /\ Len(guards[t]) \in Nat
         /\ Len(m_lockStack[t]) <= calls[t] /\ calls[t] \in 0 .. MaxCalls
         /\ DOMAIN guards[t] = 1 .. Len(guards[t])
         /\ Waiting(t) => Len(m_lockStack[t]) = Len(guards[t]) + 1
         /\ ~Waiting(t) => Len(m_lockStack[t]) = Len(guards[t])
         /\ \A k \in 1 .. Len(guards[t]) : m_lockStack[t][k] = guards[t][k].lock
<1>1. m_lockStack[t] \in Seq(Locks) /\ guards[t] \in Seq(Guard) /\ calls[t] \in 0 .. MaxCalls
  BY DEF IInv, TypeOK
<1>2. /\ Len(m_lockStack[t]) \in Nat /\ Len(guards[t]) \in Nat
      /\ DOMAIN guards[t] = 1 .. Len(guards[t])
  BY <1>1, LenProperties
<1>3. Aligned(t)
  BY DEF IInv
<1> QED
  BY <1>1, <1>2, <1>3 DEF Aligned

\* A spinning thread works on a lock, the one above its guards.
LEMMA TargetIsLock ==
  ASSUME IInv, NEW t \in Threads, Waiting(t)
  PROVE  /\ Target(t) \in Locks
         /\ Target(t) = m_lockStack[t][Len(guards[t]) + 1]
         /\ Len(guards[t]) < MaxCalls
<1> DEFINE s == m_lockStack[t]
<1>1. s \in Seq(Locks) /\ Len(s) = Len(guards[t]) + 1 /\ Len(guards[t]) \in Nat
  BY StackShape
<1>2. Len(s) <= MaxCalls
  BY StackShape, Constants
<1>3. s[Len(s)] \in Locks
  BY <1>1, ElementOfSeq
<1>4. Target(t) = s[Len(s)]
  BY DEF Target, Last
<1> QED
  BY <1>1, <1>2, <1>3, <1>4, Constants

\* One thread's step leaves the stacks of the others alone.
LEMMA OthersAligned ==
  ASSUME IInv, NEW u \in Threads,
         m_lockStack'[u] = m_lockStack[u], guards'[u] = guards[u],
         pc'[u] = "idle" <=> pc[u] = "idle", calls'[u] = calls[u]
  PROVE  Aligned(u)'
  BY DEF IInv, Aligned, Waiting

LEMMA InitIInv == Init => IInv
<1> SUFFICES ASSUME Init PROVE IInv
  OBVIOUS
<1>1. TypeOK
  <2>1. MaxCalls \in Nat
    BY Constants
  <2>2. /\ m_lockFlag \in [Locks -> Nat]
        /\ pc \in [Threads -> {"idle", "write", "load", "cas"}]
        /\ expected \in [Threads -> Nat]
        /\ calls \in [Threads -> 0 .. MaxCalls]
    BY <2>1 DEF Init, EMPTY
  <2>3. aborted \in BOOLEAN
    BY DEF Init
  <2>4. m_lockStack \in [Threads -> Seq(Locks)] /\ guards \in [Threads -> Seq(Guard)]
    BY EmptySeq DEF Init
  <2> QED
    BY <2>2, <2>3, <2>4 DEF TypeOK
<1>2. ASSUME NEW t \in Threads PROVE Aligned(t)
  <2>1. m_lockStack[t] = <<>> /\ guards[t] = <<>> /\ pc[t] = "idle" /\ calls[t] = 0
    BY DEF Init
  <2>2. Len(m_lockStack[t]) = 0 /\ Len(guards[t]) = 0
    BY <2>1, EmptySeq
  <2> QED
    BY <2>1, <2>2 DEF Aligned, Waiting
<1>3. ExpectedMasked
  BY DEF Init, ExpectedMasked
<1>4. \A l \in Locks, mode \in Modes : Guards(l, mode) = {}
  BY DEF Init, Guards
<1>5. MutualExclusion
  BY <1>4 DEF MutualExclusion, Modes
<1>6. \A l \in Locks : Cardinality(Guards(l, "read")) = 0
  BY <1>4, FS_EmptySet DEF Modes
<1>7. FlagTellsHolders
  BY <1>4, <1>6, Constants DEF Init, EMPTY, FlagTellsHolders, Modes
<1> QED
  BY <1>1, <1>2, <1>3, <1>5, <1>7 DEF IInv

\* Starting a call changes neither words nor guards.
LEMMA CallIInv ==
  ASSUME IInv, NEW t \in Threads, NEW l \in Locks, NEW first \in {"write", "load"},
         Call(t, l, first)
  PROVE  IInv'
<1>1. /\ pc[t] = "idle" /\ calls[t] < MaxCalls
      /\ m_lockStack' = [m_lockStack EXCEPT ![t] = Append(@, l)]
      /\ pc' = [pc EXCEPT ![t] = first]
      /\ calls' = [calls EXCEPT ![t] = @ + 1]
      /\ UNCHANGED <<m_lockFlag, guards, expected, aborted>>
  BY DEF Call, MayCall, Push
<1>2. TypeOK'
  <2>1. Append(m_lockStack[t], l) \in Seq(Locks)
    BY StackShape, AppendProperties
  <2>2. m_lockStack' \in [Threads -> Seq(Locks)]
    BY <1>1, <2>1 DEF IInv, TypeOK
  <2>3. calls[t] \in 0 .. MaxCalls /\ calls[t] + 1 \in 0 .. MaxCalls
    BY <1>1, StackShape, Constants
  <2>4. calls' \in [Threads -> 0 .. MaxCalls]
    BY <1>1, <2>3 DEF IInv, TypeOK
  <2>5. pc' \in [Threads -> {"idle", "write", "load", "cas"}]
    BY <1>1 DEF IInv, TypeOK
  <2> QED
    BY <1>1, <2>2, <2>4, <2>5 DEF IInv, TypeOK
<1>3. Aligned(t)'
  <2> DEFINE s == m_lockStack[t]
             n == Len(guards[t])
  <2>1. /\ s \in Seq(Locks) /\ Len(s) = n /\ n \in Nat /\ n <= calls[t] /\ calls[t] \in Nat
        /\ \A k \in 1 .. n : s[k] = guards[t][k].lock
    BY <1>1, StackShape, Constants DEF Waiting
  <2>2. /\ Len(Append(s, l)) = n + 1
        /\ \A k \in 1 .. n : Append(s, l)[k] = s[k]
    BY <2>1, AppendProperties
  <2>3. /\ m_lockStack'[t] = Append(s, l) /\ guards'[t] = guards[t]
        /\ calls'[t] = calls[t] + 1 /\ pc'[t] # "idle"
    BY <1>1 DEF IInv, TypeOK
  <2> QED
    BY <2>1, <2>2, <2>3 DEF Aligned, Waiting
<1>4. ASSUME NEW u \in Threads, u # t PROVE Aligned(u)'
  BY <1>1, <1>4, OthersAligned DEF IInv, TypeOK
<1>5. ExpectedMasked'
  BY <1>1 DEF IInv, ExpectedMasked, TypeOK
<1>6. MutualExclusion' /\ FlagTellsHolders'
  <2>1. \A k, mode : Guards(k, mode)' = Guards(k, mode)
    BY <1>1 DEF Guards
  <2> QED
    BY <1>1, <2>1 DEF IInv, MutualExclusion, FlagTellsHolders
<1> QED
  BY <1>2, <1>3, <1>4, <1>5, <1>6 DEF IInv

\* The exchange that ends a lock call adds a guard of the thread's target.
LEMMA AcquireShape ==
  ASSUME IInv, NEW t \in Threads, NEW l \in Locks, NEW mode \in Modes, NEW flag \in Nat,
         Waiting(t), l = Target(t), Acquire(t, l, mode, flag),
         UNCHANGED <<m_lockStack, expected, calls, aborted>>
  PROVE  /\ TypeOK'
         /\ \A u \in Threads : Aligned(u)'
         /\ ExpectedMasked'
         /\ m_lockFlag'[l] = flag
         /\ \A k \in Locks \ {l} : m_lockFlag'[k] = m_lockFlag[k]
<1> DEFINE n == Len(guards[t])
           new == [lock |-> l, mode |-> mode]
<1>1. /\ m_lockFlag' = [m_lockFlag EXCEPT ![l] = flag]
      /\ guards' = [guards EXCEPT ![t] = Append(@, new)]
      /\ pc' = [pc EXCEPT ![t] = "idle"]
      /\ UNCHANGED <<m_lockStack, expected, calls, aborted>>
  BY DEF Acquire
<1>2. /\ guards[t] \in Seq(Guard) /\ n \in Nat /\ new \in Guard
      /\ Len(m_lockStack[t]) = n + 1 /\ Len(m_lockStack[t]) <= calls[t]
      /\ \A k \in 1 .. n : m_lockStack[t][k] = guards[t][k].lock
  BY StackShape DEF Guard, Modes
<1>3. /\ Append(guards[t], new) \in Seq(Guard)
      /\ Len(Append(guards[t], new)) = n + 1
      /\ Append(guards[t], new)[n + 1] = new
      /\ \A k \in 1 .. n : Append(guards[t], new)[k] = guards[t][k]
  BY <1>2, AppendProperties
<1>4. guards'[t] = Append(guards[t], new) /\ pc'[t] = "idle"
  BY <1>1 DEF IInv, TypeOK
<1>5. m_lockStack'[t][n + 1] = l
  BY <1>1, TargetIsLock
<1>6. Aligned(t)'
  <2>1. ASSUME NEW k \in 1 .. n + 1
        PROVE  m_lockStack'[t][k] = guards'[t][k].lock
    <3>1. CASE k = n + 1
      BY <3>1, <1>3, <1>4, <1>5
    <3>2. CASE k \in 1 .. n
      BY <3>2, <1>1, <1>2, <1>3, <1>4
    <3> QED
      BY <3>1, <3>2, <1>2
  <2>2. Len(guards'[t]) = n + 1 /\ Len(m_lockStack'[t]) = n + 1 /\ Len(m_lockStack'[t]) <= calls'[t]
    BY <1>1, <1>2, <1>3, <1>4
  <2> QED
    BY <2>1, <2>2, <1>4 DEF Aligned, Waiting
<1>7. ASSUME NEW u \in Threads, u # t PROVE Aligned(u)'
  BY <1>1, <1>7, OthersAligned DEF IInv, TypeOK
<1>8. TypeOK'
  BY <1>1, <1>3 DEF IInv, TypeOK
<1>9. ExpectedMasked'
  BY <1>1, <1>4 DEF IInv, ExpectedMasked, TypeOK
<1>10. m_lockFlag'[l] = flag /\ \A k \in Locks \ {l} : m_lockFlag'[k] = m_lockFlag[k]
  BY <1>1 DEF IInv, TypeOK
<1> QED
  BY <1>6, <1>7, <1>8, <1>9, <1>10

\* The exchange of WriteLock: the word was EMPTY, so nobody was inside.
LEMMA WriteCasIInv ==
  ASSUME IInv, NEW t \in Threads, WriteCas(t)
  PROVE  IInv'
<1> DEFINE new == <<t, Len(guards[t]) + 1>>
<1>1. Waiting(t)
  BY DEF WriteCas, Waiting
<1>2. PICK l \in Locks : l = Target(t)
  BY <1>1, TargetIsLock
<1>3. /\ m_lockFlag[l] = 0
      /\ Acquire(t, l, "write", ON_WRITE)
      /\ UNCHANGED <<m_lockStack, expected, calls, aborted>>
  BY <1>2 DEF WriteCas, EMPTY
<1>4. /\ TypeOK' /\ ExpectedMasked' /\ \A u \in Threads : Aligned(u)'
      /\ m_lockFlag'[l] = ON_WRITE /\ \A k \in Locks \ {l} : m_lockFlag'[k] = m_lockFlag[k]
  BY <1>1, <1>2, <1>3, AcquireShape, Constants DEF Modes
<1>5. /\ Guards(l, "write")' = Guards(l, "write") \cup {new}
      /\ \A k \in Locks, other \in Modes :
           k # l \/ other # "write" => Guards(k, other)' = Guards(k, other)
  BY <1>1, <1>3, TargetIsLock, GuardAdded DEF IInv, TypeOK, Acquire, Modes
<1>6. Guards(l, "write") = {} /\ Guards(l, "read") = {}
  <2>1. Guards(l, "write") = {}
    BY <1>3, Constants DEF IInv, FlagTellsHolders
  <2>2. Cardinality(Guards(l, "read")) = 0
    BY <1>3, <2>1 DEF IInv, FlagTellsHolders
  <2> QED
    BY <2>1, <2>2, GuardsFinite, FS_EmptySet
<1>7. Guards(l, "write")' = {new} /\ Guards(l, "read")' = {}
  BY <1>5, <1>6 DEF Modes
<1>8. MutualExclusion'
  BY <1>5, <1>7 DEF IInv, MutualExclusion, Modes
<1>9. FlagTellsHolders'
  <2> SUFFICES ASSUME NEW k \in Locks
               PROVE  /\ m_lockFlag'[k] = IF Guards(k, "write")' # {} THEN ON_WRITE
                                          ELSE Cardinality(Guards(k, "read")')
                      /\ Cardinality(Guards(k, "read")') <= ON_READ + 1
    BY DEF FlagTellsHolders
  <2>1. CASE k = l
    <3>1. Cardinality(Guards(k, "read")') = 0 /\ Guards(k, "write")' # {}
      BY <2>1, <1>7, FS_EmptySet
    <3> QED
      BY <2>1, <3>1, <1>4, Constants
  <2>2. CASE k # l
    BY <2>2, <1>4, <1>5 DEF IInv, FlagTellsHolders, Modes
  <2> QED
    BY <2>1, <2>2
<1> QED
  BY <1>4, <1>8, <1>9 DEF IInv

\* The load of ReadLock and the failed exchanges touch only locals.
LEMMA SpinIInv ==
  ASSUME IInv, NEW t \in Threads, ReadLoad(t) \/ ReadCasFails(t)
  PROVE  IInv'
<1>1. /\ Waiting(t)
      /\ UNCHANGED <<m_lockFlag, m_lockStack, guards, calls, aborted>>
  BY DEF ReadLoad, ReadCasFails, Waiting
<1>2. m_lockFlag[Target(t)] \in Nat
  BY <1>1, TargetIsLock DEF IInv, TypeOK
<1>3. m_lockFlag[Target(t)] % (ON_READ + 1) \in 0 .. ON_READ
  BY <1>2, Constants
<1>4. TypeOK'
  <2>1. m_lockFlag[Target(t)] % (ON_READ + 1) \in Nat
    BY <1>3, Constants
  <2>2. CASE ReadLoad(t)
    BY <1>1, <2>1, <2>2 DEF ReadLoad, IInv, TypeOK
  <2>3. CASE ReadCasFails(t)
    BY <1>1, <2>3 DEF ReadCasFails, IInv, TypeOK
  <2> QED
    BY <2>2, <2>3
<1>5. MutualExclusion' /\ FlagTellsHolders'
  <2>1. \A l, mode : Guards(l, mode)' = Guards(l, mode)
    BY <1>1 DEF Guards
  <2> QED
    BY <1>1, <2>1 DEF IInv, MutualExclusion, FlagTellsHolders
<1>6. ASSUME NEW u \in Threads PROVE Aligned(u)'
  <2>1. pc'[u] = "idle" <=> pc[u] = "idle"
    BY DEF ReadLoad, ReadCasFails, IInv, TypeOK
  <2> QED
    BY <1>1, <2>1, OthersAligned
<1>7. ExpectedMasked'
  <2>1. CASE ReadLoad(t)
    BY <2>1, <1>3, Constants DEF ReadLoad, IInv, ExpectedMasked, TypeOK
  <2>2. CASE ReadCasFails(t)
    BY <2>2 DEF ReadCasFails, IInv, ExpectedMasked, TypeOK
  <2> QED
    BY <2>1, <2>2
<1> QED
  BY <1>4, <1>5, <1>6, <1>7 DEF IInv

\* The exchange of ReadLock: the word was a number of readers below the mask's
\* successor, so no writer was inside and one more reader fits, even one more
\* of the same thread.
LEMMA ReadCasIInv ==
  ASSUME IInv, NEW t \in Threads, ReadCas(t)
  PROVE  IInv'
<1> DEFINE new == <<t, Len(guards[t]) + 1>>
<1>1. Waiting(t)
  BY DEF ReadCas, Waiting
<1>2. PICK l \in Locks : l = Target(t)
  BY <1>1, TargetIsLock
<1>3. /\ pc[t] = "cas" /\ m_lockFlag[l] = expected[t]
      /\ Acquire(t, l, "read", expected[t] + 1)
      /\ UNCHANGED <<m_lockStack, expected, calls, aborted>>
  BY <1>2 DEF ReadCas
<1>4. expected[t] \in Nat /\ expected[t] <= ON_READ
  BY <1>3 DEF IInv, ExpectedMasked, TypeOK
<1>5. /\ TypeOK' /\ ExpectedMasked' /\ \A u \in Threads : Aligned(u)'
      /\ m_lockFlag'[l] = expected[t] + 1
      /\ \A k \in Locks \ {l} : m_lockFlag'[k] = m_lockFlag[k]
  BY <1>1, <1>2, <1>3, <1>4, AcquireShape DEF Modes
<1>6. /\ new \notin Guards(l, "read")
      /\ Guards(l, "read")' = Guards(l, "read") \cup {new}
      /\ \A k \in Locks, other \in Modes :
           k # l \/ other # "read" => Guards(k, other)' = Guards(k, other)
  BY <1>1, <1>3, TargetIsLock, GuardAdded DEF IInv, TypeOK, Acquire, Modes
<1>7. Guards(l, "write") = {} /\ Cardinality(Guards(l, "read")) = expected[t]
  <2>1. Guards(l, "write") = {}
    BY <1>3, <1>4, Constants DEF IInv, FlagTellsHolders
  <2> QED
    BY <1>3, <2>1 DEF IInv, FlagTellsHolders
<1>8. Guards(l, "write")' = {}
  BY <1>6, <1>7 DEF Modes
<1>9. Cardinality(Guards(l, "read")') = expected[t] + 1
  <2>1. Cardinality(Guards(l, "read") \cup {new}) = Cardinality(Guards(l, "read")) + 1
    BY <1>6, GuardsFinite, FS_AddElement, ZenonT(60)
  <2> QED
    BY <2>1, <1>6, <1>7
<1>10. MutualExclusion'
  BY <1>6, <1>8 DEF IInv, MutualExclusion, Modes
<1>11. FlagTellsHolders'
  <2> SUFFICES ASSUME NEW k \in Locks
               PROVE  /\ m_lockFlag'[k] = IF Guards(k, "write")' # {} THEN ON_WRITE
                                          ELSE Cardinality(Guards(k, "read")')
                      /\ Cardinality(Guards(k, "read")') <= ON_READ + 1
    BY DEF FlagTellsHolders
  <2>1. CASE k = l
    BY <2>1, <1>4, <1>5, <1>8, <1>9, Constants
  <2>2. CASE k # l
    BY <2>2, <1>5, <1>6 DEF IInv, FlagTellsHolders, Modes
  <2> QED
    BY <2>1, <2>2
<1> QED
  BY <1>5, <1>10, <1>11 DEF IInv

\* A guard that ends empties the word of a writer and takes one reader off.
LEMMA ReleaseIInv ==
  ASSUME IInv, NEW t \in Threads, WriteUnlock(t) \/ ReadUnlock(t)
  PROVE  IInv'
<1> DEFINE n == Len(guards[t])
           s == m_lockStack[t]
<1>1. /\ pc[t] = "idle" /\ guards[t] # <<>>
      /\ m_lockStack' = [m_lockStack EXCEPT ![t] = IF @ = <<>> THEN @ ELSE Front(@)]
      /\ guards' = [guards EXCEPT ![t] = Front(@)]
      /\ UNCHANGED <<pc, expected, calls, aborted>>
  BY DEF WriteUnlock, ReadUnlock, Release, Pop
<1>2. /\ guards[t] \in Seq(Guard) /\ n \in Nat /\ n > 0
      /\ s \in Seq(Locks) /\ Len(s) = n /\ n <= calls[t] /\ calls[t] \in 0 .. MaxCalls
      /\ \A k \in 1 .. n : s[k] = guards[t][k].lock
  BY <1>1, StackShape, FrontFacts DEF Waiting
<1>3. guards[t][n] \in Guard
  BY <1>2, ElementOfSeq
<1>4. PICK l \in Locks, mode \in Modes : Last(guards[t]) = [lock |-> l, mode |-> mode]
  BY <1>3 DEF Last, Guard, Modes
<1>5. m_lockFlag' = [m_lockFlag EXCEPT ![l] = IF mode = "write" THEN 0 ELSE m_lockFlag[l] - 1]
  BY <1>4 DEF WriteUnlock, ReadUnlock, Release, EMPTY, FetchSub
<1>6. /\ guards' \in [Threads -> Seq(Guard)]
      /\ Len(guards'[t]) = n - 1
      /\ \A i \in 1 .. n - 1 : guards'[t][i] = guards[t][i]
      /\ <<t, n>> \in Guards(l, mode)
      /\ Guards(l, mode)' = Guards(l, mode) \ {<<t, n>>}
      /\ \A k \in Locks, other \in Modes :
           k # l \/ other # mode => Guards(k, other)' = Guards(k, other)
  <2>1. /\ guards \in [Threads -> Seq(Guard)] /\ Len(guards[t]) <= MaxCalls
        /\ guards[t] # <<>>
        /\ guards' = [guards EXCEPT ![t] = Front(@)]
        /\ Last(guards[t]).lock = l /\ Last(guards[t]).mode = mode
    BY <1>1, <1>2, <1>4, Constants DEF IInv, TypeOK
  <2> QED
    BY ONLY <2>1, GuardRemoved, ZenonT(60)
<1>7. /\ Guards(l, "write")' = {}
      /\ Cardinality(Guards(l, "read")') \in Nat
      /\ Cardinality(Guards(l, "read")') <= ON_READ + 1
      /\ m_lockFlag' = [m_lockFlag EXCEPT ![l] = Cardinality(Guards(l, "read")')]
  <2>1. CASE mode = "write"
    <3>1. Guards(l, "write") = {<<t, n>>} /\ Guards(l, "read") = {}
      BY <2>1, <1>6 DEF IInv, MutualExclusion
    <3>2. Guards(l, "write")' = {} /\ Guards(l, "read")' = {}
      BY <2>1, <3>1, <1>6 DEF Modes
    <3>3. Cardinality(Guards(l, "read")') = 0
      BY <3>2, FS_EmptySet
    <3>4. m_lockFlag' = [m_lockFlag EXCEPT ![l] = 0]
      BY <2>1, <1>5
    <3>5. m_lockFlag' = [m_lockFlag EXCEPT ![l] = Cardinality(Guards(l, "read")')]
      BY <3>3, <3>4, Zenon
    <3> QED
      BY <3>2, <3>3, <3>5, Constants
  <2>2. CASE mode = "read"
    <3>1. Guards(l, "write") = {}
      BY <2>2, <1>6 DEF IInv, MutualExclusion
    <3>2. /\ m_lockFlag[l] = Cardinality(Guards(l, "read"))
          /\ Cardinality(Guards(l, "read")) <= ON_READ + 1
      BY <3>1 DEF IInv, FlagTellsHolders
    <3>3. /\ Cardinality(Guards(l, "read") \ {<<t, n>>}) = Cardinality(Guards(l, "read")) - 1
          /\ Cardinality(Guards(l, "read")) \in Nat
          /\ Cardinality(Guards(l, "read") \ {<<t, n>>}) \in Nat
      BY <2>2, <1>6, GuardsFinite, FS_RemoveElement, FS_CardinalityType
    <3>4. Cardinality(Guards(l, "read")') = Cardinality(Guards(l, "read")) - 1
      BY <2>2, <3>3, <1>6
    <3>5. Guards(l, "write")' = {}
      BY <2>2, <3>1, <1>6 DEF Modes
    <3>6. m_lockFlag[l] - 1 = Cardinality(Guards(l, "read")')
      BY <3>2, <3>4
    <3>7. /\ Cardinality(Guards(l, "read")') \in Nat
          /\ Cardinality(Guards(l, "read")') <= ON_READ + 1
      BY <2>2, <1>6, <3>2, <3>3, <3>4, Constants
    <3> QED
      BY <2>2, <3>5, <3>6, <3>7, <1>5
  <2> QED
    BY <2>1, <2>2 DEF Modes
<1>8. TypeOK' /\ m_lockStack'[t] = Front(s)
  <2>1. s # <<>> /\ Front(s) \in Seq(Locks)
    BY <1>2, FrontFacts, EmptySeq
  <2>2. m_lockStack' \in [Threads -> Seq(Locks)] /\ m_lockStack'[t] = Front(s)
    BY <1>1, <2>1 DEF IInv, TypeOK
  <2>3. m_lockFlag' \in [Locks -> Nat]
    BY <1>7 DEF IInv, TypeOK
  <2> QED
    BY <1>1, <1>6, <2>2, <2>3 DEF IInv, TypeOK
<1>9. Aligned(t)'
  <2>1. /\ Len(m_lockStack'[t]) = n - 1
        /\ \A k \in 1 .. n - 1 : m_lockStack'[t][k] = s[k]
    BY <1>2, <1>8, FrontFacts, EmptySeq
  <2>2. ASSUME NEW k \in 1 .. n - 1 PROVE m_lockStack'[t][k] = guards'[t][k].lock
    <3>1. k \in 1 .. n
      BY <1>2
    <3> QED
      BY <3>1, <2>1, <1>2, <1>6
  <2>3. pc'[t] = "idle" /\ n - 1 <= calls'[t]
    BY <1>1, <1>2, Constants
  <2> QED
    BY <2>1, <2>2, <2>3, <1>6 DEF Aligned, Waiting
<1>10. ASSUME NEW u \in Threads, u # t PROVE Aligned(u)'
  BY <1>1, <1>10, OthersAligned DEF IInv, TypeOK
<1>11. ExpectedMasked'
  BY <1>1 DEF IInv, ExpectedMasked
<1>12. MutualExclusion'
  BY <1>6, <1>7 DEF IInv, MutualExclusion, Modes
<1>13. FlagTellsHolders'
  <2>1. /\ m_lockFlag'[l] = Cardinality(Guards(l, "read")')
        /\ \A k \in Locks \ {l} : m_lockFlag'[k] = m_lockFlag[k]
    BY <1>7 DEF IInv, TypeOK
  <2> SUFFICES ASSUME NEW k \in Locks
               PROVE  /\ m_lockFlag'[k] = IF Guards(k, "write")' # {} THEN ON_WRITE
                                          ELSE Cardinality(Guards(k, "read")')
                      /\ Cardinality(Guards(k, "read")') <= ON_READ + 1
    BY DEF FlagTellsHolders
  <2>2. CASE k = l
    BY <2>1, <2>2, <1>7
  <2>3. CASE k # l
    BY <2>1, <2>3, <1>6 DEF IInv, FlagTellsHolders, Modes
  <2> QED
    BY <2>2, <2>3
<1> QED
  BY <1>8, <1>9, <1>10, <1>11, <1>12, <1>13 DEF IInv

\* A failed assert, a failed exchange of WriteLock, the end and a stutter
\* change nothing the invariant reads.
LEMMA OtherIInv ==
  ASSUME IInv,
         \/ \E t \in Threads, l \in Locks : OrderAssertFails(t, l)
         \/ UNCHANGED vars
  PROVE  IInv'
<1>1. /\ UNCHANGED <<m_lockFlag, m_lockStack, guards, pc, expected, calls>>
      /\ aborted' \in BOOLEAN
  BY DEF OrderAssertFails, vars, IInv, TypeOK
<1>2. TypeOK'
  BY <1>1 DEF IInv, TypeOK
<1>3. \A l, mode : Guards(l, mode)' = Guards(l, mode)
  BY <1>1 DEF Guards
<1>4. MutualExclusion' /\ FlagTellsHolders'
  BY <1>1, <1>3 DEF IInv, MutualExclusion, FlagTellsHolders
<1>5. ExpectedMasked' /\ \A t \in Threads : Aligned(t)'
  BY <1>1 DEF IInv, ExpectedMasked, Aligned, Waiting
<1> QED
  BY <1>2, <1>4, <1>5 DEF IInv

\* IInv is inductive.
THEOREM Inductive == Spec => []IInv
<1>1. IInv /\ [Next]_vars => IInv'
  <2> SUFFICES ASSUME IInv, [Next]_vars PROVE IInv'
    OBVIOUS
  <2>1. ASSUME NEW t \in Threads, NEW l \in Locks, WriteLock(t, l) PROVE IInv'
    BY <2>1, CallIInv DEF WriteLock
  <2>2. ASSUME NEW t \in Threads, NEW l \in Locks, ReadLock(t, l) PROVE IInv'
    BY <2>2, CallIInv DEF ReadLock
  <2>3. ASSUME NEW t \in Threads, WriteCasFails(t) PROVE IInv'
    BY <2>3, OtherIInv DEF WriteCasFails
  <2>4. ASSUME NEW t \in Threads, Advance(t) PROVE IInv'
    BY <2>3, <2>4, WriteCasIInv, SpinIInv, ReadCasIInv, ReleaseIInv DEF Advance
  <2>5. CASE \E t \in Threads, l \in Locks : OrderAssertFails(t, l)
    BY <2>5, OtherIInv
  <2>6. CASE Halt \/ UNCHANGED vars
    BY <2>6, OtherIInv DEF Halt
  <2> QED
    BY <2>1, <2>2, <2>4, <2>5, <2>6 DEF Next
<1> QED
  BY <1>1, InitIInv, PTL DEF Spec

\* Every variable keeps its type; in particular the reader count is never
\* taken below zero.
THEOREM TypeCorrect == Spec => []TypeOK
  BY Inductive, PTL DEF IInv

\* No two guards of one lock are alive together unless both are read guards.
THEOREM MutualExclusionHolds == Spec => []MutualExclusion
  BY Inductive, PTL DEF IInv

\* The word of a lock always says who is inside.
THEOREM FlagTellsHoldersHolds == Spec => []FlagTellsHolders
  BY Inductive, PTL DEF IInv

-----------------------------------------------------------------------------
(* Deadlock freedom: the orders along a stack *)

\* The orders of the locks on a stack never fall if the asserts are there.
Climbs(t) ==
  \A i, j \in 1 .. Len(m_lockStack[t]) :
    i < j => Order[m_lockStack[t][i]] <= Order[m_lockStack[t][j]]

StackInv == AssertsOn => \A t \in Threads : Climbs(t)

LEMMA InitStackInv == Init => StackInv
  BY EmptySeq DEF Init, StackInv, Climbs

\* A call pushes a lock whose order Push has compared with the top's.
LEMMA CallStack ==
  ASSUME IInv, StackInv, NEW t \in Threads, NEW l \in Locks,
         NEW first \in {"write", "load"}, Call(t, l, first)
  PROVE  StackInv'
<1> SUFFICES ASSUME AssertsOn PROVE \A u \in Threads : Climbs(u)'
  BY DEF StackInv
<1> DEFINE s == m_lockStack[t]
           n == Len(m_lockStack[t])
<1>1. m_lockStack' = [m_lockStack EXCEPT ![t] = Append(@, l)] /\ InOrder(t, l)
  BY DEF Call, Push
<1>2. s \in Seq(Locks) /\ n \in Nat
  BY StackShape
<1>3. /\ m_lockStack'[t] = Append(s, l)
      /\ Len(m_lockStack'[t]) = n + 1
      /\ \A i \in 1 .. n : m_lockStack'[t][i] = s[i]
      /\ m_lockStack'[t][n + 1] = l
  BY <1>1, <1>2, AppendProperties DEF IInv, TypeOK
<1>4. \A i \in 1 .. n : s[i] \in Locks /\ Order[s[i]] \in Nat
  BY <1>2, ElementOfSeq, Constants
<1>5. Climbs(t)
  BY DEF StackInv
<1>6. ASSUME NEW i \in 1 .. n PROVE Order[s[i]] <= Order[l]
  <2>1. Order[s[n]] <= Order[l]
    BY <1>1, <1>2, EmptySeq DEF InOrder, Last
  <2>2. i = n \/ Order[s[i]] <= Order[s[n]]
    BY <1>2, <1>5 DEF Climbs
  <2>3. Order[s[i]] \in Nat /\ Order[s[n]] \in Nat /\ Order[l] \in Nat
    BY <1>2, <1>4, Constants
  <2> QED
    BY <2>1, <2>2, <2>3
<1>7. Climbs(t)'
  <2> SUFFICES ASSUME NEW i \in 1 .. n + 1, NEW j \in 1 .. n + 1, i < j
               PROVE  Order[m_lockStack'[t][i]] <= Order[m_lockStack'[t][j]]
    BY <1>3 DEF Climbs
  <2>1. CASE j = n + 1
    BY <2>1, <1>2, <1>3, <1>6
  <2>2. CASE j < n + 1
    BY <2>2, <1>2, <1>3, <1>5 DEF Climbs
  <2> QED
    BY <2>1, <2>2, <1>2
<1>8. ASSUME NEW u \in Threads, u # t PROVE Climbs(u)'
  <2>1. m_lockStack'[u] = m_lockStack[u]
    BY <1>1, <1>8 DEF IInv, TypeOK
  <2> QED
    BY <2>1 DEF StackInv, Climbs
<1> QED
  BY <1>7, <1>8

\* A guard that ends leaves a shorter stack of the same locks.
LEMMA ReleaseStack ==
  ASSUME IInv, StackInv, NEW t \in Threads, WriteUnlock(t) \/ ReadUnlock(t)
  PROVE  StackInv'
<1> SUFFICES ASSUME AssertsOn PROVE \A u \in Threads : Climbs(u)'
  BY DEF StackInv
<1> DEFINE s == m_lockStack[t]
           n == Len(m_lockStack[t])
<1>1. m_lockStack' = [m_lockStack EXCEPT ![t] = IF @ = <<>> THEN @ ELSE Front(@)]
  BY DEF WriteUnlock, ReadUnlock, Release, Pop
<1>2. s \in Seq(Locks) /\ n \in Nat
  BY StackShape
<1>3. Climbs(t)
  BY DEF StackInv
<1>4. Climbs(t)'
  <2>1. CASE s = <<>>
    <3>1. m_lockStack'[t] = s
      BY <2>1, <1>1 DEF IInv, TypeOK
    <3> QED
      BY <3>1, <1>3 DEF Climbs
  <2>2. CASE s # <<>>
    <3>1. m_lockStack'[t] = Front(s)
      BY <2>2, <1>1 DEF IInv, TypeOK
    <3>2. /\ Len(m_lockStack'[t]) = n - 1
          /\ \A i \in 1 .. n - 1 : m_lockStack'[t][i] = s[i]
      BY <2>2, <3>1, <1>2, FrontFacts
    <3>3. \A i, j \in 1 .. n : i < j => Order[s[i]] <= Order[s[j]]
      BY <1>3 DEF Climbs
    <3>4. \A i, j \in 1 .. n - 1 : i < j => Order[s[i]] <= Order[s[j]]
      BY ONLY <3>3, <1>2
    <3>5. \A i, j \in 1 .. n - 1 :
            i < j => Order[m_lockStack'[t][i]] <= Order[m_lockStack'[t][j]]
      BY <3>2, <3>4
    <3> QED
      BY <3>2, <3>5 DEF Climbs
  <2> QED
    BY <2>1, <2>2
<1>5. ASSUME NEW u \in Threads, u # t PROVE Climbs(u)'
  <2>1. m_lockStack'[u] = m_lockStack[u]
    BY <1>1, <1>5 DEF IInv, TypeOK
  <2> QED
    BY <2>1 DEF StackInv, Climbs
<1> QED
  BY <1>4, <1>5

LEMMA NextStack == IInv /\ StackInv /\ [Next]_vars => StackInv'
<1> SUFFICES ASSUME IInv, StackInv, [Next]_vars PROVE StackInv'
  OBVIOUS
<1>1. ASSUME NEW t \in Threads, NEW l \in Locks, WriteLock(t, l) \/ ReadLock(t, l)
      PROVE  StackInv'
  BY <1>1, CallStack DEF WriteLock, ReadLock
<1>2. ASSUME m_lockStack' = m_lockStack PROVE StackInv'
  BY <1>2 DEF StackInv, Climbs
<1>3. ASSUME NEW t \in Threads, Advance(t) PROVE StackInv'
  <2>1. CASE WriteUnlock(t) \/ ReadUnlock(t)
    BY <2>1, ReleaseStack
  <2>2. CASE WriteCas(t) \/ WriteCasFails(t) \/ ReadCas(t) \/ ReadLoad(t) \/ ReadCasFails(t)
    BY <2>2, <1>2 DEF WriteCas, WriteCasFails, ReadCas, ReadLoad, ReadCasFails, vars
  <2> QED
    BY <1>3, <2>1, <2>2 DEF Advance
<1>4. CASE (\E t \in Threads, l \in Locks : OrderAssertFails(t, l)) \/ Halt \/ UNCHANGED vars
  BY <1>2, <1>4 DEF OrderAssertFails, Halt, vars
<1> QED
  BY <1>1, <1>3, <1>4 DEF Next

THEOREM Stacks == Spec => []StackInv
  BY InitStackInv, NextStack, Inductive, PTL DEF Spec

\* A spinning thread wants a lock of no lower order than any it is inside, and
\* of a higher one unless it repeats an order.
LEMMA WantsHigher ==
  ASSUME IInv, StackInv, AssertsOn, NEW t \in Threads, Waiting(t), ~Repeats(t),
         NEW k \in DOMAIN guards[t]
  PROVE  Order[guards[t][k].lock] < Order[Target(t)]
<1> DEFINE s == m_lockStack[t]
           n == Len(guards[t])
<1>1. /\ guards[t] \in Seq(Guard) /\ n \in Nat /\ k \in 1 .. n
      /\ Len(s) = n + 1 /\ s[k] = guards[t][k].lock
  BY StackShape
<1>2. Target(t) \in Locks /\ Target(t) = s[n + 1]
  BY TargetIsLock
<1>3. Order[s[k]] <= Order[s[n + 1]]
  BY <1>1 DEF StackInv, Climbs
<1>4. Order[guards[t][k].lock] # Order[Target(t)]
  BY DEF Repeats
<1>5. guards[t][k].lock \in Locks
  <2>1. guards[t][k] \in Guard
    BY ONLY <1>1, ElementOfSeq
  <2> QED
    BY <2>1 DEF Guard
<1> QED
  BY <1>1, <1>2, <1>3, <1>4, <1>5, Constants

\* Of finitely many threads one waits for a lock of highest order; whoever
\* is inside that lock would wait for a higher one.
LEMMA NoCycle == IInv /\ StackInv => NoCircularWait
<1> SUFFICES ASSUME IInv, StackInv, AssertsOn,
                    NEW S \in SUBSET {t \in Threads : ~Repeats(t)}, S # {},
                    \A t \in S : BlockedBy(t, S)
             PROVE  FALSE
  BY DEF NoCircularWait
<1> DEFINE Above(t) == {u \in S : Order[Target(t)] < Order[Target(u)]}
           Sets == {Above(t) : t \in S}
<1>1. IsFiniteSet(S)
  BY ConstantsAssumption, FS_Subset DEF ConstantsAssumption
<1>2. \A t \in S : Target(t) \in Locks /\ Order[Target(t)] \in Nat
  BY TargetIsLock, Constants DEF BlockedBy
<1>3. Sets \subseteq FiniteSubsetsOf(S) /\ Sets # {}
  <2>1. Sets \subseteq SUBSET S /\ Sets # {}
    OBVIOUS
  <2> QED
    BY <1>1, <2>1, FS_FiniteSubsetsOfFinite
<1>4. PICK X \in Sets : \A Y \in Sets : <<Y, X>> \notin StrictSubsetOrdering(S)
  BY <1>3, FS_StrictSubsetOrderingWellFounded, WFMin
<1>5. PICK t \in S : X = Above(t)
  OBVIOUS
<1>6. PICK u \in S : \E k \in DOMAIN guards[u] : guards[u][k].lock = Target(t)
  BY DEF BlockedBy
<1>7. Order[Target(t)] < Order[Target(u)]
  <2>1. PICK k \in DOMAIN guards[u] : guards[u][k].lock = Target(t)
    BY <1>6
  <2>2. u \in Threads /\ Waiting(u) /\ ~Repeats(u)
    BY DEF BlockedBy
  <2>3. Order[guards[u][k].lock] < Order[Target(u)]
    BY <2>2, WantsHigher
  <2> QED
    BY <2>1, <2>3
<1>8. Above(u) \subseteq Above(t) /\ u \in Above(t) /\ u \notin Above(u)
  BY <1>2, <1>7
<1>9. <<Above(u), X>> \in StrictSubsetOrdering(S)
  BY <1>5, <1>8 DEF StrictSubsetOrdering
<1> QED
  BY <1>4, <1>9

\* With the asserts compiled in, a set of threads none of which wants a lock
\* of an order it is already inside never waits in a circle, for any locks and
\* orders, nesting depth and number of threads.
THEOREM NoCircularWaitHolds == Spec => []NoCircularWait
  BY Inductive, Stacks, NoCycle, PTL

=============================================================================
