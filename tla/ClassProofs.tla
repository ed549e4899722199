---------------------------- MODULE ClassProofs ----------------------------
(***************************************************************************)
(* What TLC checks of SyncQueue and of RecvData on small instances, proved *)
(* for every value of the constants.  These are the two classes of         *)
(* include/ that stand alone, and the two parts of this module share       *)
(* nothing.                                                                *)
(*                                                                         *)
(* SyncQueue, for any number of threads and elements: the types, that      *)
(* front() is defined, that no wake-up is lost, and that the class         *)
(* implements FifoQueue.  None of the invariants is inductive alone.       *)
(* IndInv adds what the mutex gives: the thread that holds it is the one   *)
(* past Acquire, and what such a thread has seen of the queue is still so. *)
(*                                                                         *)
(* RecvData, for any text, any length of the buffer and any segmentation:  *)
(* what is collected is what was sent, and a request is taken for complete *)
(* with its last character and not before.  The second rests on what find  *)
(* sees of a part of a text (FindInPart), and is inductive only with the   *)
(* first.                                                                  *)
(***************************************************************************)
EXTENDS SyncQueue, RecvData, FiniteSetTheorems, SequenceTheorems, TLAPS

\* The mutex is held by the one thread whose step needs it, or is free.
MutexHeld == \A t \in Threads : pc[t] \in Locked <=> m_mutex = t

\* The condition variable's waiters are the threads blocked inside wait().
WaitersWait == \A c \in Getters : pc[c] = "wait" <=> c \in m_notEmpty

\* The argument of put, from the call to the push.
Argument == \A p \in Putters : pc[p] \in {"lock", "push"} => x[p] \in Elements

\* The result of get: nothing before the test, the oldest element between
\* front() and pop_front(), an element or nothing afterwards.
Result ==
    \A c \in Getters :
        /\ pc[c] \in {"lock", "wait", "relock", "test", "front"} => x[c] = Nothing
        /\ pc[c] = "front" => m_queue # <<>>
        /\ pc[c] = "pop" => m_queue # <<>> /\ x[c] = Head(m_queue)
        /\ x[c] \in Elements \cup {Nothing}

\* The part of the invariant that the mutex alone maintains.
SafeInv == TypeOK /\ MutexHeld /\ WaitersWait /\ Argument /\ Result

IndInv == SafeInv /\ NoLostWakeup

----------------------------------------------------------------------------
LEMMA InitSafe == Init => SafeInv
<1> SUFFICES ASSUME Init PROVE SafeInv
    OBVIOUS
<1> USE ThreadsAssumption, ElementsAssumption
<1>1. TypeOK
    BY DEF Init, TypeOK, Threads, PutterSteps, GetterSteps
<1>2. MutexHeld
    BY DEF Init, MutexHeld, Locked
<1>3. WaitersWait /\ Argument /\ Result
    BY DEF Init, WaitersWait, Argument, Result, Threads
<1> QED BY <1>1, <1>2, <1>3 DEF SafeInv

\* Every step of a putter keeps SafeInv.
LEMMA PutterKeepsSafe ==
    ASSUME SafeInv, NEW p \in Putters,
           PutStep(p) \/ \E e \in Elements : CallPut(p, e)
    PROVE  SafeInv'
<1> USE ThreadsAssumption, ElementsAssumption
    DEF SafeInv, TypeOK, MutexHeld, WaitersWait, Argument, Result, Threads,
        PutterSteps, GetterSteps, Locked, Goto
<1>1. ASSUME NEW e \in Elements, CallPut(p, e) PROVE SafeInv'
    BY <1>1 DEF CallPut
<1>2. CASE LockPut(p)
    BY <1>2 DEF LockPut, Acquire
<1>3. CASE PushBack(p)
    BY <1>3 DEF PushBack
<1>4. CASE NotifyOne(p)
    BY <1>4 DEF NotifyOne
<1>5. CASE Unlock(p)
    BY <1>5 DEF Unlock
<1> QED BY <1>1, <1>2, <1>3, <1>4, <1>5 DEF PutStep

\* Every step of a getter, or of the condition variable for it, does too.
LEMMA GetterKeepsSafe ==
    ASSUME SafeInv, NEW c \in Getters,
           GetStep(c) \/ SpuriousWakeup(c) \/ \E b \in BOOLEAN : CallGet(c, b)
    PROVE  SafeInv'
<1> USE ThreadsAssumption, ElementsAssumption
    DEF SafeInv, TypeOK, MutexHeld, WaitersWait, Argument, Result, Threads,
        PutterSteps, GetterSteps, Locked, Goto
<1>1. ASSUME NEW b \in BOOLEAN, CallGet(c, b) PROVE SafeInv'
    BY <1>1 DEF CallGet
<1>2. CASE LockGet(c)
    BY <1>2 DEF LockGet, Acquire
<1>3. CASE Wait(c)
    BY <1>3 DEF Wait
<1>4. CASE ThrowEmpty(c)
    BY <1>4 DEF ThrowEmpty
<1>5. CASE LeaveLoop(c)
    BY <1>5 DEF LeaveLoop
<1>6. CASE ReadFront(c)
    BY <1>6 DEF ReadFront
<1>7. CASE PopFront(c)
    BY <1>7 DEF PopFront
<1>8. CASE Unlock(c)
    BY <1>8 DEF Unlock
<1>9. CASE SpuriousWakeup(c)
    BY <1>9 DEF SpuriousWakeup
<1> QED BY <1>1, <1>2, <1>3, <1>4, <1>5, <1>6, <1>7, <1>8, <1>9 DEF GetStep

LEMMA NextKeepsSafe == SafeInv /\ [Next]_vars => SafeInv'
<1> SUFFICES ASSUME SafeInv, [Next]_vars PROVE SafeInv'
    OBVIOUS
<1>1. CASE UNCHANGED vars
    BY <1>1 DEF vars, SafeInv, TypeOK, MutexHeld, WaitersWait, Argument, Result
<1>2. CASE Next
    BY <1>2, PutterKeepsSafe, GetterKeepsSafe DEF Next
<1> QED BY <1>1, <1>2

\* The values of the variables are those the code can give them.
THEOREM TypeCorrect == Spec => []TypeOK
<1>1. SafeInv => TypeOK
    BY DEF SafeInv
<1> QED BY <1>1, InitSafe, NextKeepsSafe, PTL DEF Spec

\* get() never calls front() or pop_front() on an empty list (lines 41-51).
THEOREM FrontAlwaysDefined == Spec => []FrontIsDefined
<1>1. SafeInv => FrontIsDefined
    BY ElementsAssumption DEF SafeInv, Result, FrontIsDefined
<1> QED BY <1>1, InitSafe, NextKeepsSafe, PTL DEF Spec

----------------------------------------------------------------------------
(* The two sets that NoLostWakeup counts change by at most one thread a step. *)

LEMMA CountedAreFinite ==
    /\ IsFiniteSet(Arriving) /\ Cardinality(Arriving) \in Nat
    /\ IsFiniteSet(Notifying) /\ Cardinality(Notifying) \in Nat
<1>1. Arriving \subseteq Getters /\ Notifying \subseteq Putters
    BY DEF Arriving, Notifying
<1>2. IsFiniteSet(Arriving) /\ IsFiniteSet(Notifying)
    BY <1>1, ThreadsAssumption, FS_Subset
<1> QED BY <1>2, FS_CardinalityType

\* A getter that starts towards an element makes Arriving larger by one.
LEMMA OneMoreArrives ==
    ASSUME NEW c, c \notin Arriving, Arriving' = Arriving \cup {c}
    PROVE  Cardinality(Arriving') = Cardinality(Arriving) + 1
BY CountedAreFinite, FS_AddElement

LEMMA PutterKeepsWakeups ==
    ASSUME SafeInv, SafeInv', NoLostWakeup, NEW p \in Putters,
           PutStep(p) \/ \E e \in Elements : CallPut(p, e)
    PROVE  NoLostWakeup'
<1> USE ThreadsAssumption, CountedAreFinite DEF SafeInv, TypeOK, Threads
<1>1. ASSUME NEW e \in Elements, CallPut(p, e) PROVE NoLostWakeup'
    <2>1. Arriving' = Arriving /\ Notifying' = Notifying
        BY <1>1 DEF CallPut, Goto, Arriving, Notifying
    <2> QED BY <1>1, <2>1 DEF CallPut, NoLostWakeup
<1>2. CASE LockPut(p)
    <2>1. Arriving' = Arriving /\ Notifying' = Notifying
        BY <1>2 DEF LockPut, Acquire, Goto, Arriving, Notifying
    <2> QED BY <1>2, <2>1 DEF LockPut, NoLostWakeup
<1>3. CASE PushBack(p)
    <2>1. Arriving' = Arriving
        BY <1>3 DEF PushBack, Goto, Arriving
    <2>2. Notifying' = Notifying \cup {p} /\ p \notin Notifying
        BY <1>3 DEF PushBack, Goto, Notifying
    <2>3. Cardinality(Notifying') = Cardinality(Notifying) + 1
        BY <2>2, FS_AddElement
    <2>4. Len(m_queue') = Len(m_queue) + 1
        BY <1>3 DEF PushBack, Argument
    <2> QED BY <1>3, <2>1, <2>3, <2>4 DEF PushBack, NoLostWakeup
<1>4. CASE NotifyOne(p)
    <2>1. CASE m_notEmpty' = {}
        BY <2>1 DEF NoLostWakeup
    <2>2. ASSUME NEW c \in m_notEmpty,
                 pc' = [pc EXCEPT ![c] = "relock", ![p] = "unlock"]
          PROVE  NoLostWakeup'
        <3>1. Arriving' = Arriving \cup {c} /\ c \notin Arriving
            BY <2>2, <1>4 DEF Arriving, WaitersWait
        <3>2. Cardinality(Arriving') = Cardinality(Arriving) + 1
            BY <3>1, OneMoreArrives
        <3>3. Notifying' = Notifying \ {p} /\ p \in Notifying
            BY <1>4, <2>2 DEF NotifyOne, Notifying
        <3>4. Cardinality(Notifying') = Cardinality(Notifying) - 1
            BY <3>3, FS_RemoveElement
        <3>5. m_queue' = m_queue
            BY <1>4 DEF NotifyOne
        <3> QED BY <2>2, <3>2, <3>4, <3>5 DEF NoLostWakeup
    <2> QED BY <1>4, <2>1, <2>2 DEF NotifyOne
<1>5. CASE Unlock(p)
    <2>1. Arriving' = Arriving /\ Notifying' = Notifying
        BY <1>5 DEF Unlock, Goto, Arriving, Notifying
    <2> QED BY <1>5, <2>1 DEF Unlock, NoLostWakeup
<1> QED BY <1>1, <1>2, <1>3, <1>4, <1>5 DEF PutStep

LEMMA GetterKeepsWakeups ==
    ASSUME SafeInv, SafeInv', NoLostWakeup, NEW c \in Getters,
           GetStep(c) \/ SpuriousWakeup(c) \/ \E b \in BOOLEAN : CallGet(c, b)
    PROVE  NoLostWakeup'
<1> USE ThreadsAssumption, CountedAreFinite DEF SafeInv, TypeOK, Threads
<1>0. Notifying' = Notifying
    BY DEF Notifying, GetStep, LockGet, Acquire, Wait, ThrowEmpty, LeaveLoop,
           ReadFront, PopFront, Unlock, SpuriousWakeup, CallGet, Goto
<1>a. Cardinality(Arriving') \in Nat
    <2>1. Arriving' \subseteq Getters
        BY DEF Arriving
    <2> QED BY <2>1, FS_Subset, FS_CardinalityType
<1>1. ASSUME NEW b \in BOOLEAN, CallGet(c, b) PROVE NoLostWakeup'
    <2>1. Arriving' = Arriving \cup {c} /\ c \notin Arriving
        BY <1>1 DEF CallGet, Goto, Arriving
    <2>2. Cardinality(Arriving') = Cardinality(Arriving) + 1
        BY <2>1, OneMoreArrives
    <2> QED BY <1>0, <1>1, <2>2 DEF CallGet, NoLostWakeup
<1>2. CASE LockGet(c)
    <2>1. Arriving' = Arriving
        BY <1>2 DEF LockGet, Acquire, Goto, Arriving
    <2> QED BY <1>0, <1>2, <2>1 DEF LockGet, NoLostWakeup
\* A getter starts to wait only when there is nothing to be woken for.
<1>3. CASE Wait(c)
    <2>1. Len(m_queue') = 0
        BY <1>3 DEF Wait
    <2> QED BY <1>0, <1>a, <2>1 DEF NoLostWakeup
<1>4. CASE ThrowEmpty(c)
    <2>1. Len(m_queue') = 0
        BY <1>4 DEF ThrowEmpty
    <2> QED BY <1>0, <1>a, <2>1 DEF NoLostWakeup
<1>5. CASE LeaveLoop(c)
    <2>1. Arriving' = Arriving
        BY <1>5 DEF LeaveLoop, Goto, Arriving
    <2> QED BY <1>0, <1>5, <2>1 DEF LeaveLoop, NoLostWakeup
<1>6. CASE ReadFront(c)
    <2>1. Arriving' = Arriving
        BY <1>6 DEF ReadFront, Goto, Arriving
    <2> QED BY <1>0, <1>6, <2>1 DEF ReadFront, NoLostWakeup
\* The getter that leaves Arriving takes one element with it.
<1>7. CASE PopFront(c)
    <2>1. Arriving' = Arriving \ {c} /\ c \in Arriving
        BY <1>7 DEF PopFront, Goto, Arriving
    <2>2. Cardinality(Arriving') = Cardinality(Arriving) - 1
        BY <2>1, FS_RemoveElement
    <2>3. Len(m_queue') = Len(m_queue) - 1
        BY <1>7 DEF PopFront, Result
    <2>4. m_notEmpty' = m_notEmpty
        BY <1>7 DEF PopFront
    <2> QED BY <1>0, <2>2, <2>3, <2>4 DEF NoLostWakeup
<1>8. CASE Unlock(c)
    <2>1. Arriving' = Arriving
        BY <1>8 DEF Unlock, Goto, Arriving
    <2> QED BY <1>0, <1>8, <2>1 DEF Unlock, NoLostWakeup
<1>9. CASE SpuriousWakeup(c)
    <2>1. Arriving' = Arriving \cup {c} /\ c \notin Arriving
        BY <1>9 DEF SpuriousWakeup, Goto, Arriving, WaitersWait
    <2>2. Cardinality(Arriving') = Cardinality(Arriving) + 1
        BY <2>1, OneMoreArrives
    <2>3. m_notEmpty # {} /\ m_queue' = m_queue
        BY <1>9 DEF SpuriousWakeup
    <2> QED BY <1>0, <2>2, <2>3 DEF NoLostWakeup
<1> QED BY <1>1, <1>2, <1>3, <1>4, <1>5, <1>6, <1>7, <1>8, <1>9 DEF GetStep

LEMMA NextKeepsWakeups ==
    SafeInv /\ SafeInv' /\ NoLostWakeup /\ [Next]_vars => NoLostWakeup'
<1> SUFFICES ASSUME SafeInv, SafeInv', NoLostWakeup, [Next]_vars
             PROVE  NoLostWakeup'
    OBVIOUS
<1>1. CASE UNCHANGED vars
    BY <1>1 DEF vars, NoLostWakeup, Arriving, Notifying
<1>2. CASE Next
    BY <1>2, PutterKeepsWakeups, GetterKeepsWakeups DEF Next
<1> QED BY <1>1, <1>2

\* While a getter sleeps, every queued element has somebody awake to take it
\* or a putter about to wake one: for any number of threads.
THEOREM NoWakeupIsLost == Spec => []NoLostWakeup
<1>1. Init => NoLostWakeup
    BY DEF Init, NoLostWakeup
<1>2. IndInv /\ [Next]_vars => IndInv'
    BY NextKeepsSafe, NextKeepsWakeups DEF IndInv
<1>3. Init => IndInv
    BY <1>1, InitSafe DEF IndInv
<1>4. IndInv => NoLostWakeup
    BY DEF IndInv
<1> QED BY <1>2, <1>3, <1>4, PTL DEF Spec

----------------------------------------------------------------------------
(* Refinement: push_back is the put of FifoQueue, pop_front its get, and   *)
(* the next call of get by the same thread its release.  Every other step  *)
(* of the class changes nothing a caller can see.                          *)

Abstract == <<m_queue, Hand>>

LEMMA PutterStepImplements ==
    ASSUME SafeInv, NEW p \in Putters,
           PutStep(p) \/ \E e \in Elements : CallPut(p, e)
    PROVE  Fifo!Next \/ UNCHANGED Abstract
<1> USE ThreadsAssumption DEF SafeInv, TypeOK, Threads, Abstract, Hand, Goto
<1>1. ASSUME NEW e \in Elements, CallPut(p, e) PROVE UNCHANGED Abstract
    BY <1>1 DEF CallPut
<1>2. CASE LockPut(p)
    BY <1>2 DEF LockPut, Acquire
<1>3. CASE PushBack(p)
    <2>1. x[p] \in Elements
        BY <1>3 DEF PushBack, Argument
    <2>2. m_queue' = Append(m_queue, x[p]) /\ UNCHANGED Hand
        BY <1>3 DEF PushBack
    <2> QED BY <2>1, <2>2 DEF Fifo!Next, Fifo!Put
<1>4. CASE NotifyOne(p)
    BY <1>4 DEF NotifyOne, WaitersWait
<1>5. CASE Unlock(p)
    BY <1>5 DEF Unlock
<1> QED BY <1>1, <1>2, <1>3, <1>4, <1>5 DEF PutStep

LEMMA GetterStepImplements ==
    ASSUME SafeInv, NEW c \in Getters,
           GetStep(c) \/ SpuriousWakeup(c) \/ \E b \in BOOLEAN : CallGet(c, b)
    PROVE  Fifo!Next \/ UNCHANGED Abstract
<1> USE ThreadsAssumption DEF SafeInv, TypeOK, Threads, Abstract, Hand, Goto
<1>1. ASSUME NEW b \in BOOLEAN, CallGet(c, b) PROVE Fifo!Next
    <2>1. UNCHANGED m_queue /\ Hand' = [Hand EXCEPT ![c] = Nothing]
        BY <1>1 DEF CallGet
    <2> QED BY <2>1 DEF Fifo!Next, Fifo!Release
<1>2. CASE LockGet(c)
    BY <1>2 DEF LockGet, Acquire
<1>3. CASE Wait(c)
    BY <1>3 DEF Wait
<1>4. CASE ThrowEmpty(c)
    BY <1>4 DEF ThrowEmpty, Result
<1>5. CASE LeaveLoop(c)
    BY <1>5 DEF LeaveLoop
<1>6. CASE ReadFront(c)
    BY <1>6 DEF ReadFront
<1>7. CASE PopFront(c)
    <2>1. m_queue # <<>> /\ x[c] = Head(m_queue)
        BY <1>7 DEF PopFront, Result
    <2>2. m_queue' = Tail(m_queue) /\ Hand' = [Hand EXCEPT ![c] = Head(m_queue)]
        BY <1>7, <2>1 DEF PopFront
    <2> QED BY <2>1, <2>2 DEF Fifo!Next, Fifo!Get
<1>8. CASE Unlock(c)
    BY <1>8 DEF Unlock
<1>9. CASE SpuriousWakeup(c)
    BY <1>9 DEF SpuriousWakeup, WaitersWait
<1> QED BY <1>1, <1>2, <1>3, <1>4, <1>5, <1>6, <1>7, <1>8, <1>9 DEF GetStep

\* The class behaves as the atomic queue of FifoQueue, whatever the threads.
THEOREM Implementation == Spec => ImplementsFifo
<1>1. Init => Fifo!Init
    BY DEF Init, Fifo!Init, Hand, Threads
<1>2. SafeInv /\ [Next]_vars => [Fifo!Next]_<<m_queue, Hand>>
    <2> SUFFICES ASSUME SafeInv, [Next]_vars
                 PROVE  Fifo!Next \/ UNCHANGED Abstract
        BY DEF Abstract
    <2>1. CASE UNCHANGED vars
        BY <2>1 DEF vars, Abstract, Hand
    <2>2. CASE Next
        BY <2>2, PutterStepImplements, GetterStepImplements DEF Next
    <2> QED BY <2>1, <2>2
<1> QED BY <1>1, <1>2, InitSafe, NextKeepsSafe, PTL DEF Spec, ImplementsFifo, Fifo!Spec

----------------------------------------------------------------------------
\* RecvData

\* The least element of a set, by which find is defined, exists: the sets of
\* the elements up to each are finite, and ordered by inclusion.
LEMMA MinIsLeast ==
    ASSUME NEW S \in SUBSET Nat, IsFiniteSet(S), S # {}
    PROVE  Min(S) \in S /\ \A j \in S : Min(S) <= j
<1> DEFINE Below(k) == {e \in S : e <= k}
           T == {Below(i) : i \in S}
<1>1. T \subseteq FiniteSubsetsOf(S)
    BY FS_Subset DEF FiniteSubsetsOf
<1>2. T # {}
    OBVIOUS
<1> HIDE DEF T
<1>3. PICK B \in T : \A C \in T : <<C, B>> \notin StrictSubsetOrdering(S)
    BY <1>1, <1>2, FS_StrictSubsetOrderingWellFounded, WFMin
<1>4. PICK i \in S : B = Below(i)
    BY DEF T
<1>5. \A j \in S : i <= j
  <2> SUFFICES ASSUME NEW j \in S, j < i PROVE FALSE
      OBVIOUS
  <2>1. Below(j) \in T
      BY DEF T
  <2>2. i \in Nat /\ j \in Nat
      OBVIOUS
  <2>3. Below(j) \subseteq B /\ i \in B /\ i \notin Below(j)
    <3>1. i \in Below(i) /\ i \notin Below(j)
        BY <2>2
    <3>2. \A e \in Below(j) : e \in S /\ e <= i
        BY <2>2
    <3>3. \A e \in Below(j) : e \in Below(i)
        BY <3>2
    <3> QED BY <1>4, <3>1, <3>3
  <2>4. Below(j) \in SUBSET S /\ B \in SUBSET S /\ Below(j) # B
      BY <1>4, <2>3
  <2> HIDE DEF Below
  <2>5. \A U, V \in SUBSET S : U \subseteq V /\ U # V
            => <<U, V>> \in StrictSubsetOrdering(S)
      BY Zenon DEF StrictSubsetOrdering
  <2> QED BY <2>1, <2>3, <2>4, <2>5, <1>3
<1> QED BY <1>5 DEF Min

\* t stands in s at position i.
StandsAt(s, t, i) == i + Len(t) - 1 <= Len(s) /\ SubSeq(s, i, i + Len(t) - 1) = t

LEMMA FindIs ==
    ASSUME NEW S, NEW s \in Seq(S), NEW t \in Seq(S), t # <<>>, NEW from \in Nat \ {0}
    PROVE  /\ find(s, t, from) \in Nat
           /\ find(s, t, from) # 0 =>
                  find(s, t, from) >= from /\ StandsAt(s, t, find(s, t, from))
           /\ \A i \in Nat : i >= from /\ StandsAt(s, t, i) =>
                  find(s, t, from) # 0 /\ find(s, t, from) <= i
<1> DEFINE P == {i \in from..(Len(s) - Len(t) + 1) : SubSeq(s, i, i + Len(t) - 1) = t}
<1>1. Len(s) \in Nat /\ Len(t) \in Nat
    BY LenProperties
<1>2. P \in SUBSET Nat /\ IsFiniteSet(P) /\ 0 \notin P
  <2>1. IsFiniteSet(from..(Len(s) - Len(t) + 1))
      BY <1>1, FS_Interval
  <2> QED BY <1>1, <2>1, FS_Subset
<1>3. \A i \in Nat : i \in P <=> i >= from /\ StandsAt(s, t, i)
    BY <1>1 DEF StandsAt
<1>4. find(s, t, from) = IF P = {} THEN 0 ELSE Min(P)
    BY DEF find
<1> HIDE DEF P
<1>5. P # {} => Min(P) \in P /\ \A j \in P : Min(P) <= j
    BY <1>2, MinIsLeast
<1> DEFINE f == find(s, t, from)
<1> HIDE DEF f
<1>6. f = IF P = {} THEN 0 ELSE Min(P)
    BY <1>4 DEF f
<1>7. f \in Nat /\ (f # 0 => f \in P)
    BY <1>2, <1>5, <1>6
<1>8. f # 0 => f >= from /\ StandsAt(s, t, f)
    BY <1>3, <1>7
<1>9. ASSUME NEW i \in Nat, i >= from, StandsAt(s, t, i)
      PROVE  f # 0 /\ f <= i
  <2>1. i \in P
      BY <1>3, <1>9
  <2> QED BY <1>2, <1>5, <1>6, <2>1
<1> QED BY <1>7, <1>8, <1>9 DEF f

\* Of what stands in a text, a part of it has what it is long enough for.
LEMMA StandsInPart ==
    ASSUME NEW S, NEW s \in Seq(S), NEW t \in Seq(S), t # <<>>,
           NEW n \in 0..Len(s), NEW i \in Nat \ {0}
    PROVE  StandsAt(SubSeq(s, 1, n), t, i) <=>
               StandsAt(s, t, i) /\ i + Len(t) - 1 <= n
<1>1. Len(s) \in Nat /\ Len(t) \in Nat \ {0}
    BY LenProperties, EmptySeq
<1>2. SubSeq(s, 1, n) \in Seq(S) /\ Len(SubSeq(s, 1, n)) = n
    BY <1>1, SubSeqProperties, ElementOfSeq
<1>3. i + Len(t) - 1 <= n => SubSeq(SubSeq(s, 1, n), i, i + Len(t) - 1)
                                 = SubSeq(s, i, i + Len(t) - 1)
  <2> SUFFICES ASSUME i + Len(t) - 1 <= n
               PROVE  SubSeq(SubSeq(s, 1, n), i, i + Len(t) - 1)
                          = SubSeq(s, i, i + Len(t) - 1)
      OBVIOUS
  <2> DEFINE m == i + Len(t) - 1
  <2>1. n \in 1..Len(s) /\ 1 \in 1..Len(s)
            /\ i \in 1..(n - 1 + 1) /\ m \in 1..(n - 1 + 1)
      BY <1>1
  <2>2. SubSeq(SubSeq(s, 1, n), i, m) = SubSeq(s, 1 + i - 1, 1 + m - 1)
      BY <2>1, SubSeqOfSubSeq
  <2> QED BY <1>1, <2>2
<1> QED BY <1>1, <1>2, <1>3 DEF StandsAt

\* What find sees of a part of a text: what it finds in the text, if it is in
\* the part.
LEMMA FindInPart ==
    ASSUME NEW S, NEW s \in Seq(S), NEW t \in Seq(S),
           NEW k \in Nat, Len(t) = k + 1, NEW n \in 0..Len(s), NEW from \in Nat \ {0}
    PROVE  find(SubSeq(s, 1, n), t, from)
               = IF find(s, t, from) + k <= n THEN find(s, t, from) ELSE 0
<1> DEFINE p == SubSeq(s, 1, n)
           f == find(s, t, from)
           g == find(p, t, from)
<1>1. Len(s) \in Nat /\ t # <<>>
    BY LenProperties, EmptySeq
<1>2. p \in Seq(S)
    BY <1>1, SubSeqProperties, ElementOfSeq
<1>3. \A i \in Nat \ {0} : StandsAt(p, t, i) <=> StandsAt(s, t, i) /\ i + k <= n
  <2> TAKE i \in Nat \ {0}
  <2>1. StandsAt(p, t, i) <=> StandsAt(s, t, i) /\ i + Len(t) - 1 <= n
      BY <1>1, StandsInPart
  <2> QED BY <2>1
<1>4. /\ f \in Nat
      /\ f # 0 => f >= from /\ StandsAt(s, t, f)
      /\ \A i \in Nat : i >= from /\ StandsAt(s, t, i) => f # 0 /\ f <= i
    BY <1>1, FindIs
<1>5. /\ g \in Nat
      /\ g # 0 => g >= from /\ StandsAt(p, t, g)
      /\ \A i \in Nat : i >= from /\ StandsAt(p, t, i) => g # 0 /\ g <= i
    BY <1>1, <1>2, FindIs
<1> HIDE DEF p, f, g
<1>6. CASE f # 0 /\ f + k <= n
  <2>1. g # 0 /\ g <= f
      BY <1>3, <1>4, <1>5, <1>6
  <2>2. f <= g
      BY <1>3, <1>4, <1>5, <2>1
  <2>3. f = g
      BY <1>4, <1>5, <2>1, <2>2
  <2> QED BY <1>6, <2>3 DEF f, g, p
<1>7. CASE f # 0 /\ ~(f + k <= n)
  <2>1. g # 0 => f <= g /\ g + k <= n
      BY <1>3, <1>4, <1>5
  <2>2. g = 0
      BY <1>1, <1>4, <1>5, <1>7, <2>1
  <2> QED BY <1>7, <2>2 DEF f, g, p
<1>8. CASE f = 0
  <2>1. g = 0
      BY <1>3, <1>4, <1>5, <1>8
  <2> QED BY <1>8, <2>1 DEF f, g, p
<1> QED BY <1>6, <1>7, <1>8

\* The patterns find is called with.
LEMMA Patterns ==
    /\ CRLF \in Seq(Characters) /\ CRLF # <<>> /\ Len(CRLF) = 2
    /\ EmptyLine \in Seq(Characters) /\ EmptyLine # <<>> /\ Len(EmptyLine) = 4
    /\ <<CL>> \in Seq(Characters) /\ <<CL>> # <<>> /\ Len(<<CL>>) = 1
    /\ <<":">> \in Seq(Characters) /\ <<":">> # <<>> /\ Len(<<":">>) = 1
<1>1. CR \in Characters /\ LF \in Characters /\ CL \in Characters /\ ":" \in Characters
    BY DEF Characters
<1>2. CRLF \in Seq(Characters) /\ CRLF # <<>> /\ Len(CRLF) = 2
    BY <1>1 DEF CRLF
<1>3. EmptyLine \in Seq(Characters) /\ Len(EmptyLine) = 4
  <2>1. /\ CRLF \o CRLF \in Seq(Characters)
        /\ Len(CRLF \o CRLF) = Len(CRLF) + Len(CRLF)
      BY <1>2, ConcatProperties
  <2> QED BY <1>2, <2>1 DEF EmptyLine
<1>4. EmptyLine # <<>>
    BY <1>3, EmptySeq
<1> QED BY <1>1, <1>2, <1>3, <1>4

\* What a text and a part of it have in common: where things stand, if the
\* part is long enough.
LEMMA PartFinds ==
    ASSUME NEW t \in Seq(Characters), NEW n \in 0..Len(t), NEW from \in Nat \ {0}
    PROVE  LET p == SubSeq(t, 1, n) IN
           /\ p \in Seq(Characters) /\ Len(p) = n
           /\ find(p, EmptyLine, from)
                
                     = IF find(t, EmptyLine, from) + 3 <= n THEN find(t, EmptyLine, from) ELSE 0
           /\ find(p, CRLF, from)
                 = IF find(t, CRLF, from) + 1 <= n THEN find(t, CRLF, from) ELSE 0
           /\ find(p, <<CL>>, from)
                 = IF find(t, <<CL>>, from) <= n THEN find(t, <<CL>>, from) ELSE 0
           /\ find(p, <<":">>, from)
                 = IF find(t, <<":">>, from) <= n THEN find(t, <<":">>, from) ELSE 0
<1> DEFINE p == SubSeq(t, 1, n)
<1>1. Len(t) \in Nat
    BY LenProperties
<1>2. p \in Seq(Characters) /\ Len(p) = n
    BY <1>1, SubSeqProperties, ElementOfSeq
<1>3. \A u \in Seq(Characters), k \in Nat : Len(u) = k + 1 =>
          find(p, u, from)
              = IF find(t, u, from) + k <= n THEN find(t, u, from) ELSE 0
    BY FindInPart
<1>4. find(t, <<CL>>, from) \in Nat /\ find(t, <<":">>, from) \in Nat
    BY FindIs, Patterns
<1> HIDE DEF p
<1>5. find(p, EmptyLine, from)
          = IF find(t, EmptyLine, from) + 3 <= n THEN find(t, EmptyLine, from) ELSE 0
  <2>1. EmptyLine \in Seq(Characters) /\ 3 \in Nat /\ Len(EmptyLine) = 3 + 1
      BY Patterns
  <2> QED BY <1>3, <2>1
<1>6. find(p, CRLF, from)
          = IF find(t, CRLF, from) + 1 <= n THEN find(t, CRLF, from) ELSE 0
  <2>1. CRLF \in Seq(Characters) /\ 1 \in Nat /\ Len(CRLF) = 1 + 1
      BY Patterns
  <2> QED BY <1>3, <2>1
<1>7. find(p, <<CL>>, from)
          = IF find(t, <<CL>>, from) + 0 <= n THEN find(t, <<CL>>, from) ELSE 0
  <2>1. <<CL>> \in Seq(Characters) /\ 0 \in Nat /\ Len(<<CL>>) = 0 + 1
      BY Patterns
  <2> QED BY <1>3, <2>1
<1>8. find(p, <<":">>, from)
          = IF find(t, <<":">>, from) + 0 <= n THEN find(t, <<":">>, from) ELSE 0
  <2>1. <<":">> \in Seq(Characters) /\ 0 \in Nat /\ Len(<<":">>) = 0 + 1
      BY Patterns
  <2> QED BY <1>3, <2>1
<1>9. /\ find(t, <<CL>>, from) + 0 = find(t, <<CL>>, from)
      /\ find(t, <<":">>, from) + 0 = find(t, <<":">>, from)
    BY <1>4
<1> QED BY <1>2, <1>5, <1>6, <1>7, <1>8, <1>9 DEF p

\* The same characters of a text and of a part of it.
LEMMA SameInPart ==
    ASSUME NEW t \in Seq(Characters), NEW n \in 0..Len(t),
           NEW i \in Nat \ {0}, NEW j \in 0..n
    PROVE  SubSeq(SubSeq(t, 1, n), i, j) = SubSeq(t, i, j)
<1> DEFINE p == SubSeq(t, 1, n)
<1>1. Len(t) \in Nat /\ i \in Int /\ j \in Int
    BY LenProperties
<1>2. CASE j < i
    BY <1>1, <1>2, SubSeqEmpty
<1>3. CASE i <= j
  <2>1. n \in 1..Len(t) /\ 1 \in 1..Len(t)
            /\ i \in 1..(n - 1 + 1) /\ j \in 1..(n - 1 + 1)
      BY <1>1, <1>3
  <2>2. SubSeq(SubSeq(t, 1, n), i, j) = SubSeq(t, 1 + i - 1, 1 + j - 1)
      BY <2>1, SubSeqOfSubSeq
  <2> QED BY <1>1, <2>2
<1> QED BY <1>1, <1>2, <1>3

\* However a request is cut, isAllData says that it is complete when its last
\* character has come, and not before (HttpRequest.h, 239-263).
THEOREM CompleteOnlyAtTheEnd ==
    ASSUME NEW t \in Seq(Characters), IsRequest(t), NEW n \in 0..Len(t)
    PROVE  isAllData(SubSeq(t, 1, n)) = (n = Len(t))
<1> DEFINE p == SubSeq(t, 1, n)
           headerEnd == find(t, EmptyLine, 1)
           name == find(t, <<CL>>, 1)
           colon == find(t, <<":">>, name)
           end == find(t, CRLF, colon + 1)
<1>1. Len(t) \in Nat
    BY LenProperties
<1>2. headerEnd \in Nat \ {0} /\ headerEnd + 3 <= Len(t)
  <2>1. headerEnd \in Nat /\ (headerEnd # 0 => StandsAt(t, EmptyLine, headerEnd))
      BY FindIs, Patterns
  <2> QED BY <1>1, <2>1, Patterns DEF IsRequest, StandsAt
<1>3. name \in Nat
  <2>1. <<CL>> \in Seq(Characters) /\ <<CL>> # <<>> /\ 1 \in Nat \ {0}
      BY Patterns
  <2> QED BY <2>1, FindIs
<1>4. /\ p \in Seq(Characters) /\ Len(p) = n
      /\ find(p, EmptyLine, 1) = IF headerEnd + 3 <= n THEN headerEnd ELSE 0
      /\ find(p, <<CL>>, 1) = IF name <= n THEN name ELSE 0
    BY PartFinds
<1>5. CASE ~(headerEnd + 3 <= n)
  <2>1. isAllData(p) = FALSE
      BY <1>4, <1>5 DEF isAllData
  <2>2. (n = Len(t)) = FALSE
      BY <1>2, <1>5
  <2> QED BY <2>1, <2>2
<1>6. CASE headerEnd + 3 <= n /\ name = 0
  <2>1. isAllData(p) = TRUE
      BY <1>2, <1>4, <1>6 DEF isAllData
  <2>2. Len(t) = headerEnd + 3
      BY <1>6 DEF IsRequest
  <2>3. n = Len(t)
      BY <1>1, <1>6, <2>2
  <2> QED BY <2>1, <2>3
<1>7. CASE headerEnd + 3 <= n /\ name # 0
  <2>1. /\ colon # 0 /\ end # 0 /\ end <= headerEnd
        /\ stod[SubSeq(t, colon + 1, end - 1)] = Len(t) - (headerEnd + 3)
      BY <1>7 DEF IsRequest
  <2>2. colon \in Nat /\ name <= colon
      BY <1>3, <1>7, <2>1, FindIs, Patterns
  <2>3. end \in Nat /\ colon + 1 <= end
    <3>1. colon + 1 \in Nat \ {0}
        BY <2>2
    <3>2. CRLF \in Seq(Characters) /\ CRLF # <<>>
        BY Patterns
    <3> QED BY <2>1, <3>1, <3>2, FindIs
  <2>4. find(p, <<CL>>, 1) = name
      BY <1>2, <1>3, <1>4, <1>7, <2>1, <2>2, <2>3
  <2>5. find(p, <<":">>, name) = colon
    <3>1. name \in Nat \ {0}
        BY <1>3, <1>7
    <3>2. find(p, <<":">>, name) = IF colon <= n THEN colon ELSE 0
        BY <3>1, PartFinds
    <3> QED BY <1>2, <1>7, <2>1, <2>2, <2>3, <3>2
  <2>6. find(p, CRLF, colon + 1) = end
    <3>1. colon + 1 \in Nat \ {0}
        BY <2>2
    <3>2. find(p, CRLF, colon + 1) = IF end + 1 <= n THEN end ELSE 0
        BY <3>1, PartFinds
    <3> QED BY <1>2, <1>7, <2>1, <2>2, <2>3, <3>2
  <2>7. SubSeq(p, colon + 1, end - 1) = SubSeq(t, colon + 1, end - 1)
    <3>1. colon + 1 \in Nat \ {0} /\ end - 1 \in 0..n
        BY <1>2, <1>7, <2>1, <2>2, <2>3
    <3> QED BY <3>1, SameInPart
  <2>8. Len(t) - (headerEnd + 3) # Throws
      BY <1>1, <1>2, ThrowsAssumption
  <2>9. isAllData(p) = (Len(p) - (headerEnd + 3) = Len(t) - (headerEnd + 3))
    <3>1. find(p, EmptyLine, 1) = headerEnd
        BY <1>4, <1>7
    <3> HIDE DEF p, headerEnd, name, colon, end
    <3> QED BY <1>2, <1>7, <2>1, <2>4, <2>5, <2>6, <2>7, <2>8, <3>1 DEF isAllData
  <2> QED BY <1>1, <1>2, <1>4, <2>9
<1> QED BY <1>5, <1>6, <1>7

----------------------------------------------------------------------------
\* What the constructor has to hold on to: both properties need the other.
RecvInv == CollectedAsSent /\ RightOutcome

LEMMA BufferTypes ==
    ASSUME NEW piece \in Seq(Characters)
    PROVE  FillBuffer(piece) \in Seq(Characters) /\ Len(FillBuffer(piece)) = BufLen
<1>1. FillBuffer(piece) \in [1..BufLen -> Characters]
    BY ElementOfSeq, LenProperties DEF FillBuffer, Characters
<1> QED BY <1>1, RecvDataAssumption

LEMMA CStringType ==
    ASSUME NEW b \in Seq(Characters), NEW s \in CString(b)
    PROVE  s \in Seq(Characters)
<1> DEFINE P == {i \in DOMAIN b : b[i] = NUL}
<1>1. DOMAIN b = 1..Len(b) /\ Len(b) \in Nat
    BY LenProperties
<1>2. CASE P = {}
  <2>1. PICK g \in Garbage : s = b \o g
      BY <1>2 DEF CString
  <2> QED BY <2>1, RecvDataAssumption, ConcatProperties
<1>3. CASE P # {}
  <2>1. s = SubSeq(b, 1, Min(P) - 1)
      BY <1>3 DEF CString
  <2>2. P \in SUBSET Nat /\ IsFiniteSet(P)
    <3>1. P \in SUBSET (1..Len(b)) /\ IsFiniteSet(1..Len(b))
        BY <1>1, FS_Interval
    <3> QED BY <1>1, <3>1, FS_Subset
  <2>3. Min(P) \in P
      BY <1>3, <2>2, MinIsLeast
  <2>4. Min(P) \in 1..Len(b)
      BY <1>1, <2>3
  <2> HIDE DEF P
  <2> QED BY <1>1, <2>1, <2>4, SubSeqProperties, ElementOfSeq
<1> QED BY <1>2, <1>3

\* A piece that leaves room in the buffer and has no NUL is what data += buf
\* appends.
LEMMA PieceIsAppended ==
    ASSUME NEW piece \in Seq(Characters), Len(piece) < BufLen,
           \A k \in 1..Len(piece) : piece[k] # NUL
    PROVE  CString(FillBuffer(piece)) = {piece}
<1> DEFINE b == FillBuffer(piece)
           P == {i \in DOMAIN b : b[i] = NUL}
           n == Len(piece)
<1>1. n \in Nat /\ BufLen \in Nat /\ n < BufLen
    BY LenProperties, RecvDataAssumption
<1>2. DOMAIN b = 1..BufLen /\ \A i \in 1..BufLen : b[i]
          = IF i <= n THEN piece[i] ELSE NUL
    BY DEF FillBuffer
<1>3. b \in Seq(Characters) /\ Len(b) = BufLen
    BY BufferTypes
<1> HIDE DEF b
<1>4. n + 1 \in P /\ \A i \in P : n + 1 <= i
    BY <1>1, <1>2
<1>5. P \in SUBSET Nat /\ IsFiniteSet(P)
  <2>1. P \in SUBSET (1..BufLen) /\ IsFiniteSet(1..BufLen)
      BY <1>1, <1>2, FS_Interval
  <2> QED BY <1>1, <2>1, FS_Subset
<1>6. Min(P) \in P /\ Min(P) <= n + 1
    BY <1>4, <1>5, MinIsLeast
<1> HIDE DEF P
<1>7. Min(P) = n + 1
  <2>1. Min(P) \in Nat /\ n + 1 <= Min(P)
      BY <1>4, <1>5, <1>6 DEF P
  <2> QED BY <1>1, <1>6, <2>1
<1>8. SubSeq(b, 1, n) = piece
  <2>1. /\ SubSeq(b, 1, n) \in Seq(Characters) /\ Len(SubSeq(b, 1, n)) = n
        /\ \A i \in 1..n : SubSeq(b, 1, n)[i] = b[i]
      BY <1>1, <1>3, SubSeqProperties, ElementOfSeq
  <2>2. \A i \in 1..n : SubSeq(b, 1, n)[i] = piece[i]
      BY <1>1, <1>2, <2>1
  <2> QED BY <2>1, <2>2, SeqEqual
<1>9. CString(b) = {SubSeq(b, 1, Min(P) - 1)}
    BY <1>4 DEF CString, P
<1> QED BY <1>1, <1>7, <1>8, <1>9 DEF b

LEMMA ZerosType == Zeros \in Seq(Characters) /\ Len(Zeros) = BufLen
<1>1. Zeros \in [1..BufLen -> Characters]
    BY DEF Zeros, Characters
<1> QED BY <1>1, RecvDataAssumption

LEMMA RecvInitInv == RecvInit => RecvInv
<1> SUFFICES ASSUME RecvInit PROVE RecvInv
    OBVIOUS
<1>1. Zeros \in Seq(Characters) /\ Len(Zeros) = BufLen
    BY ZerosType
<1>2. Len(text) \in Nat
    BY RecvDataAssumption, LenProperties DEF RecvInit
<1>3. RecvTypeOK
  <2>1. data \in Seq(Characters) /\ received \in 0..Len(text)
      BY <1>2, EmptySeq DEF RecvInit
  <2> QED BY <1>1, <2>1 DEF RecvInit, RecvTypeOK
<1>4. SubSeq(text, 1, 0) = <<>>
    BY SubSeqEmpty
<1> QED BY <1>3, <1>4 DEF RecvInit, RecvInv, CollectedAsSent, RightOutcome

\* What a round of the loop does: it receives a piece and appends its string.
LEMMA RecvTakes ==
    ASSUME RecvTypeOK, Recv
    PROVE  \E n \in 1..(Len(text) - received) :
              LET piece == SubSeq(text, received + 1, received + n) IN
              /\ piece \in Seq(Characters) /\ Len(piece) = n
              /\ received' = received + n
              /\ buf' = FillBuffer(piece)
              /\ data' \in {data \o s : s \in CString(buf')}
              /\ intact' = (intact /\ n < BufLen /\ \A k \in 1..n : piece[k] # NUL)
<1> DEFINE Room == {BufLen, Len(text) - received}
           piece(n) == SubSeq(text, received + 1, received + n)
<1>1. /\ text \in Seq(Characters) /\ Len(text) \in Nat
      /\ received \in 0..Len(text) /\ BufLen \in Nat \ {0}
    BY RecvDataAssumption, LenProperties DEF RecvTypeOK
<1>2. PICK n \in 1..Min(Room) :
          /\ buf' = FillBuffer(piece(n))
          /\ received' = received + n
          /\ \E s \in CString(buf') : data' = data \o s
          /\ intact' = (intact /\ n < BufLen /\ \A k \in 1..n : piece(n)[k] # NUL)
    BY DEF Recv
<1>3. Min(Room) \in Nat /\ Min(Room) <= Len(text) - received
  <2>1. Room \in SUBSET Nat /\ Room # {}
      BY <1>1
  <2>2. IsFiniteSet(Room)
    <3>1. IsFiniteSet({BufLen})
        BY FS_Singleton
    <3>2. IsFiniteSet({BufLen} \cup {Len(text) - received})
        BY <3>1, FS_AddElement
    <3>3. Room = {BufLen} \cup {Len(text) - received}
        OBVIOUS
    <3> QED BY <3>2, <3>3
  <2> QED BY <2>1, <2>2, MinIsLeast
<1> HIDE DEF Room
<1>4. n \in 1..(Len(text) - received)
    BY <1>1, <1>2, <1>3
<1>5. piece(n) \in Seq(Characters) /\ Len(piece(n)) = n
    BY <1>1, <1>4, SubSeqProperties, ElementOfSeq
<1>6. data' \in {data \o s : s \in CString(buf')}
    BY <1>2
<1> QED BY <1>2, <1>4, <1>5, <1>6

LEMMA RecvKeepsCollected ==
    ASSUME CollectedAsSent, Recv
    PROVE  CollectedAsSent' /\ (intact' => intact)
<1> DEFINE piece(n) == SubSeq(text, received + 1, received + n)
<1>1. /\ text \in Seq(Characters) /\ Len(text) \in Nat
      /\ received \in 0..Len(text) /\ data \in Seq(Characters)
    BY RecvDataAssumption, LenProperties DEF CollectedAsSent, RecvTypeOK
<1>2. PICK n \in 1..(Len(text) - received) :
          /\ piece(n) \in Seq(Characters) /\ Len(piece(n)) = n
          /\ received' = received + n
          /\ buf' = FillBuffer(piece(n))
          /\ data' \in {data \o s : s \in CString(buf')}
          /\ intact' = (intact /\ n < BufLen /\ \A k \in 1..n : piece(n)[k] # NUL)
    BY RecvTakes DEF CollectedAsSent
<1>3. PICK s \in CString(buf') : data' = data \o s
    BY <1>2
<1> HIDE DEF piece
<1>4. buf' \in Seq(Characters) /\ Len(buf') = BufLen
    BY <1>2, BufferTypes
<1>5. s \in Seq(Characters)
    BY <1>4, CStringType
<1>6. RecvTypeOK'
  <2>1. received' \in 0..Len(text) /\ text' = text /\ gone' = gone
      BY <1>1, <1>2 DEF Recv
  <2>2. data' \in Seq(Characters)
      BY <1>1, <1>3, <1>5, ConcatProperties
  <2>3. at' \in {"recv", "parse", "done", "threw"}
      BY DEF Recv
  <2>4. intact' \in BOOLEAN
      BY <1>2
  <2> QED BY <1>4, <2>1, <2>2, <2>3, <2>4 DEF CollectedAsSent, RecvTypeOK
<1>7. ASSUME intact' PROVE intact /\ data' = SubSeq(text', 1, received')
  <2>1. intact /\ n < BufLen /\ \A k \in 1..n : piece(n)[k] # NUL
      BY <1>2, <1>7
  <2>2. s = piece(n)
    <3>1. CString(buf') = {piece(n)}
        BY <1>2, <2>1, PieceIsAppended
    <3> QED BY <3>1
  <2>3. data = SubSeq(text, 1, received)
      BY <2>1 DEF CollectedAsSent
  <2>4. SubSeq(text, 1, received) \o piece(n) = SubSeq(text, 1, received + n)
    <3>1. /\ 1 \in 1..(Len(text) + 1) /\ received \in (1 - 1)..Len(text)
          /\ received + n \in received..Len(text)
        BY <1>1
    <3> QED BY <1>1, <3>1, ConcatAdjacentSubSeq DEF piece
  <2>5. text' = text
      BY DEF Recv
  <2> QED BY <1>2, <1>3, <2>1, <2>2, <2>3, <2>4, <2>5
<1> QED BY <1>6, <1>7 DEF CollectedAsSent

LEMMA RecvKeepsOutcome ==
    ASSUME RecvInv, Recv
    PROVE  RightOutcome'
<1> SUFFICES ASSUME intact', IsRequest(text)'
             PROVE  /\ at' \in {"parse", "done"} => received' = Len(text')
                    /\ at' = "done" => parsed' = parseRawData(text')
                    /\ at' = "threw" => gone' \/ parseRawData(text') = Throws
    BY DEF RightOutcome
<1>1. CollectedAsSent'
    BY RecvKeepsCollected DEF RecvInv
<1>2. data' = SubSeq(text, 1, received') /\ text' = text /\ received' \in 0..Len(text)
    BY <1>1 DEF CollectedAsSent, RecvTypeOK, Recv
<1>3. text \in Seq(Characters) /\ IsRequest(text)
    BY <1>2, RecvDataAssumption DEF RecvInv, CollectedAsSent, RecvTypeOK, IsRequest
<1>4. isAllData(data') = (received' = Len(text))
    BY <1>2, <1>3, CompleteOnlyAtTheEnd
<1>5. isAllData(data') # Throws
    BY <1>4, ThrowsAssumption
<1>6. at' = IF received' = Len(text) THEN "parse" ELSE "recv"
    BY <1>4, <1>5 DEF Recv
<1> QED BY <1>2, <1>6

LEMMA RecvStepInv == RecvInv /\ [RecvNext]_recvVars => RecvInv'
<1> SUFFICES ASSUME RecvInv, [RecvNext]_recvVars PROVE RecvInv'
    OBVIOUS
<1>1. CASE Leave
    BY <1>1 DEF RecvInv, CollectedAsSent, RecvTypeOK, RightOutcome, Leave, IsRequest
<1>2. CASE Recv
    BY <1>2, RecvKeepsCollected, RecvKeepsOutcome DEF RecvInv
<1>3. CASE RecvEnds
  <2>1. CollectedAsSent'
      BY <1>3, ZerosType DEF RecvInv, CollectedAsSent, RecvTypeOK, RecvEnds
  <2>2. RightOutcome'
      BY <1>3 DEF RecvEnds, RightOutcome
  <2> QED BY <2>1, <2>2 DEF RecvInv
<1>4. CASE Parse
  <2>1. CollectedAsSent'
      BY <1>4 DEF RecvInv, CollectedAsSent, RecvTypeOK, Parse
  <2>2. ASSUME intact', IsRequest(text)' PROVE data = text /\ received = Len(text)
    <3>1. intact /\ IsRequest(text) /\ at = "parse"
        BY <1>4, <2>2 DEF Parse, IsRequest
    <3>2. received = Len(text) /\ data = SubSeq(text, 1, received)
        BY <3>1 DEF RecvInv, CollectedAsSent, RightOutcome
    <3>3. text \in Seq(Characters)
        BY RecvDataAssumption DEF RecvInv, CollectedAsSent, RecvTypeOK
    <3> QED BY <3>2, <3>3, SubSeqFull
  <2>3. RightOutcome'
      BY <1>4, <2>2 DEF Parse, RightOutcome
  <2> QED BY <2>1, <2>3 DEF RecvInv
<1>5. CASE UNCHANGED recvVars
    BY <1>5 DEF RecvInv, CollectedAsSent, RecvTypeOK, RightOutcome, recvVars, IsRequest
<1> QED BY <1>1, <1>2, <1>3, <1>4, <1>5 DEF RecvNext

LEMMA RecvIsInv == RecvSpec => []RecvInv
    BY RecvInitInv, RecvStepInv, PTL DEF RecvSpec

\* Until a recv fills the buffer or brings a NUL, data is what the client sent
\* so far: for every text, buffer length and segmentation.
THEOREM WhatWasSentIsCollected == RecvSpec => []CollectedAsSent
<1>1. RecvInv => CollectedAsSent
    BY DEF RecvInv
<1> QED BY <1>1, RecvIsInv, PTL

\* A request is taken for complete with its last character and not before, and
\* is parsed as a whole, however it was cut.
THEOREM OutcomeIsRight == RecvSpec => []RightOutcome
<1>1. RecvInv => RightOutcome
    BY DEF RecvInv
<1> QED BY <1>1, RecvIsInv, PTL

----------------------------------------------------------------------------
\* The empty line begins with a line end, and no line end begins inside one.
LEMMA LineEnds ==
    ASSUME NEW t \in Seq(Characters), NEW i \in Nat \ {0}
    PROVE  /\ StandsAt(t, EmptyLine, i) => StandsAt(t, CRLF, i)
           /\ StandsAt(t, CRLF, i) => i + 1 <= Len(t) /\ t[i] = CR /\ t[i + 1] = LF
<1>1. Len(t) \in Nat
    BY LenProperties
<1>2. \A j \in Nat : i + j <= Len(t) =>
          /\ Len(SubSeq(t, i, i + j)) = j + 1
          /\ \A k \in 1..(j + 1) : SubSeq(t, i, i + j)[k] = t[i + k - 1]
  <2> SUFFICES ASSUME NEW j \in Nat, i + j <= Len(t)
               PROVE  /\ Len(SubSeq(t, i, i + j)) = j + 1
                      /\ \A k \in 1..(j + 1) : SubSeq(t, i, i + j)[k] = t[i + k - 1]
      OBVIOUS
  <2>1. \A k \in i..(i + j) : t[k] \in Characters
      BY <1>1, ElementOfSeq
  <2>2. /\ Len(SubSeq(t, i, i + j)) = i + j - i + 1
        /\ \A k \in 1..(i + j - i + 1) : SubSeq(t, i, i + j)[k] = t[i + k - 1]
      BY <2>1, SubSeqProperties
  <2> QED BY <2>2
<1>3. CRLF[1] = CR /\ CRLF[2] = LF
    BY DEF CRLF
<1>4. EmptyLine[1] = CR /\ EmptyLine[2] = LF
  <2>1. \A k \in 1..4 : EmptyLine[k] = IF k <= 2 THEN CRLF[k] ELSE CRLF[k - 2]
      BY Patterns, ConcatProperties DEF EmptyLine
  <2> QED BY <1>3, <2>1
<1>5. ASSUME StandsAt(t, CRLF, i)
      PROVE  i + 1 <= Len(t) /\ t[i] = CR /\ t[i + 1] = LF
  <2>1. i + 1 <= Len(t) /\ SubSeq(t, i, i + 1) = CRLF
      BY <1>5, Patterns DEF StandsAt
  <2>2. \A k \in 1..(1 + 1) : SubSeq(t, i, i + 1)[k] = t[i + k - 1]
      BY <1>2, <2>1
  <2>3. CRLF[1] = t[i + 1 - 1] /\ CRLF[2] = t[i + 2 - 1]
    <3>1. 1 \in 1..(1 + 1) /\ 2 \in 1..(1 + 1)
        OBVIOUS
    <3>2. SubSeq(t, i, i + 1)[1] = t[i + 1 - 1]
              /\ SubSeq(t, i, i + 1)[2] = t[i + 2 - 1]
        BY <2>2, <3>1
    <3> QED BY <2>1, <3>2, Zenon
  <2>4. i + 1 - 1 = i /\ i + 2 - 1 = i + 1
      OBVIOUS
  <2> QED BY <1>3, <2>1, <2>3, <2>4
<1>6. ASSUME StandsAt(t, EmptyLine, i)
      PROVE  StandsAt(t, CRLF, i)
  <2>1. i + 3 <= Len(t) /\ SubSeq(t, i, i + 3) = EmptyLine
      BY <1>6, Patterns DEF StandsAt
  <2>2. t[i] = CR /\ t[i + 1] = LF
      BY <1>2, <1>4, <2>1
  <2>3. SubSeq(t, i, i + 1) = CRLF
    <3>1. \A k \in i..(i + 1) : t[k] \in Characters
        BY <1>1, <2>1, ElementOfSeq
    <3>2. /\ SubSeq(t, i, i + 1) \in Seq(Characters) /\ Len(SubSeq(t, i, i + 1)) = 2
          /\ SubSeq(t, i, i + 1)[1] = CR /\ SubSeq(t, i, i + 1)[2] = LF
        BY <1>2, <2>1, <2>2, <3>1, SubSeqProperties
    <3>3. \A k \in 1..2 : SubSeq(t, i, i + 1)[k] = CRLF[k]
      <4> SUFFICES ASSUME NEW k \in {1, 2} PROVE SubSeq(t, i, i + 1)[k] = CRLF[k]
          OBVIOUS
      <4> QED BY <1>3, <3>2
    <3> QED BY <3>2, <3>3, Patterns, SeqEqual
  <2> QED BY <1>1, <2>1, <2>3, Patterns DEF StandsAt
<1> QED BY <1>5, <1>6

\* v4 parses whatever one receive brought (HttpServer_v4.h, 97-99).  Without
\* the empty line that throws; with it, the request line and the headers are
\* those of the whole text, and only the body is cut.  It is otherwise for a
\* text that has no header line and a second empty line in its body.
THEOREM PartsParseAlike ==
    ASSUME NEW t \in Seq(Characters), NEW n \in 0..Len(t),
           LET headerEnd == find(t, EmptyLine, 1)
           IN  find(t, CRLF, 1) # headerEnd \/ find(t, EmptyLine, headerEnd + 2) = 0
    PROVE  LET p == SubSeq(t, 1, n)
               headerEnd == find(t, EmptyLine, 1)
           IN  IF headerEnd = 0 \/ n < headerEnd + 3 THEN parseRawData(p) = Throws
               ELSE \/ parseRawData(p) = Throws /\ parseRawData(t) = Throws
                    \/ parseRawData(p)
                           = [parseRawData(t) EXCEPT !.body = SubSeq(t, headerEnd + 4, n)]
<1> DEFINE p == SubSeq(t, 1, n)
           headerEnd == find(t, EmptyLine, 1)
           lineEnd == find(t, CRLF, 1)
           end == find(t, EmptyLine, lineEnd + 2)
<1>1. Len(t) \in Nat
    BY LenProperties
<1>2. /\ headerEnd \in Nat /\ (headerEnd # 0 => StandsAt(t, EmptyLine, headerEnd))
      /\ \A i \in Nat : i >= 1 /\ StandsAt(t, EmptyLine, i) =>
             headerEnd # 0 /\ headerEnd <= i
  <2>1. EmptyLine \in Seq(Characters) /\ EmptyLine # <<>> /\ 1 \in Nat \ {0}
      BY Patterns
  <2> QED BY <2>1, FindIs
<1>3. /\ lineEnd \in Nat /\ (lineEnd # 0 => StandsAt(t, CRLF, lineEnd))
      /\ \A i \in Nat : i >= 1 /\ StandsAt(t, CRLF, i) => lineEnd # 0 /\ lineEnd <= i
  <2>1. CRLF \in Seq(Characters) /\ CRLF # <<>> /\ 1 \in Nat \ {0}
      BY Patterns
  <2> QED BY <2>1, FindIs
<1>4. /\ end \in Nat /\ (end # 0 => end >= lineEnd + 2 /\ StandsAt(t, EmptyLine, end))
      /\ \A i \in Nat : i >= lineEnd + 2 /\ StandsAt(t, EmptyLine, i) =>
             end # 0 /\ end <= i
  <2>1. lineEnd + 2 \in Nat \ {0}
      BY <1>3
  <2>2. EmptyLine \in Seq(Characters) /\ EmptyLine # <<>>
      BY Patterns
  <2> QED BY <2>1, <2>2, FindIs
<1>5. /\ p \in Seq(Characters) /\ Len(p) = n
      /\ find(p, EmptyLine, 1) = IF headerEnd + 3 <= n THEN headerEnd ELSE 0
      /\ find(p, CRLF, 1) = IF lineEnd + 1 <= n THEN lineEnd ELSE 0
    BY PartFinds
<1>6. CASE headerEnd = 0 \/ n < headerEnd + 3
  <2>1. find(p, EmptyLine, 1) = 0
      BY <1>2, <1>5, <1>6
  <2>2. parseRawData(p) = Throws
      BY <2>1 DEF parseRawData
  <2> QED BY <1>6, <2>2
<1>7. CASE headerEnd # 0 /\ headerEnd + 3 <= n
  <2>1. lineEnd # 0 /\ lineEnd <= headerEnd
      BY <1>2, <1>3, <1>7, LineEnds
  <2>2. find(p, EmptyLine, 1) = headerEnd /\ find(p, CRLF, 1) = lineEnd
      BY <1>2, <1>3, <1>5, <1>7, <2>1
  <2>3. lineEnd # headerEnd => lineEnd + 2 <= headerEnd /\ end = headerEnd
    <3> SUFFICES ASSUME lineEnd # headerEnd
                 PROVE  lineEnd + 2 <= headerEnd /\ end = headerEnd
        OBVIOUS
    <3>1. t[headerEnd] = CR /\ t[lineEnd + 1] = LF
        BY <1>2, <1>3, <1>7, <2>1, LineEnds
    <3>2. headerEnd # lineEnd + 1
        BY <3>1 DEF CR, LF
    <3>3. lineEnd + 2 <= headerEnd
        BY <1>2, <1>3, <2>1, <3>2
    <3>4. end # 0 /\ end <= headerEnd
        BY <1>2, <1>4, <1>7, <3>3
    <3>5. headerEnd <= end
        BY <1>2, <1>3, <1>4, <3>4
    <3> QED BY <1>2, <1>4, <3>3, <3>4, <3>5
  <2>4. lineEnd = headerEnd => end = 0
      OBVIOUS
  <2>5. find(p, EmptyLine, lineEnd + 2) = end
    <3>1. lineEnd + 2 \in Nat \ {0}
        BY <1>3
    <3>2. find(p, EmptyLine, lineEnd + 2) = IF end + 3 <= n THEN end ELSE 0
        BY <3>1, PartFinds
    <3> QED BY <1>4, <1>7, <2>3, <2>4, <3>2
  <2>6. SubSeq(p, 1, lineEnd - 1) = SubSeq(t, 1, lineEnd - 1)
    <3>1. 1 \in Nat \ {0} /\ lineEnd - 1 \in 0..n
        BY <1>2, <1>3, <1>7, <2>1
    <3> QED BY <3>1, SameInPart
  <2>7. end # 0 => SubSeq(p, lineEnd + 2, end - 1) = SubSeq(t, lineEnd + 2, end - 1)
    <3> SUFFICES ASSUME end # 0
                 PROVE  SubSeq(p, lineEnd + 2, end - 1)
                            = SubSeq(t, lineEnd + 2, end - 1)
        OBVIOUS
    <3>1. lineEnd + 2 \in Nat \ {0} /\ end - 1 \in 0..n
        BY <1>2, <1>3, <1>4, <1>7, <2>3, <2>4
    <3> QED BY <3>1, SameInPart
  <2>8. SubSeq(p, headerEnd + 4, n) = SubSeq(t, headerEnd + 4, n)
    <3>1. headerEnd + 4 \in Nat \ {0} /\ n \in 0..n
        BY <1>2
    <3> QED BY <3>1, SameInPart
  <2> DEFINE line == reqLineToMap(SubSeq(t, 1, lineEnd - 1))
             header == IF end = 0 THEN <<>>
                           ELSE reqHeaderToMap[SubSeq(t, lineEnd + 2, end - 1)]
             bad == line = Throws \/ header = Throws
  <2> HIDE DEF p, headerEnd, lineEnd, end
  <2>9. parseRawData(t) = IF bad THEN Throws
                          ELSE [line |-> line, header |-> header,
                                body |-> SubSeq(t, headerEnd + 4, Len(t))]
      BY <1>7 DEF parseRawData, headerEnd, lineEnd, end
  <2>10. parseRawData(p) = IF bad THEN Throws
                           ELSE [line |-> line, header |-> header,
                                 body |-> SubSeq(t, headerEnd + 4, n)]
      BY <1>5, <1>7, <2>2, <2>5, <2>6, <2>7, <2>8 DEF parseRawData
  <2> HIDE DEF line, header, bad
  <2>11. \/ parseRawData(p) = Throws /\ parseRawData(t) = Throws
         \/ parseRawData(p)
                = [parseRawData(t) EXCEPT !.body = SubSeq(t, headerEnd + 4, n)]
    <3>1. CASE bad
        BY <2>9, <2>10, <3>1
    <3>2. CASE ~bad
      <4> DEFINE r(b) == [line |-> line, header |-> header, body |-> b]
      <4>1. \A b, c : r(c) = [r(b) EXCEPT !.body = c]
          OBVIOUS
      <4>2. /\ parseRawData(t) = r(SubSeq(t, headerEnd + 4, Len(t)))
            /\ parseRawData(p) = r(SubSeq(t, headerEnd + 4, n))
          BY <2>9, <2>10, <3>2
      <4> HIDE DEF r
      <4>3. r(SubSeq(t, headerEnd + 4, n))
                = [r(SubSeq(t, headerEnd + 4, Len(t)))
                    EXCEPT !.body = SubSeq(t, headerEnd + 4, n)]
          BY <4>1, Zenon
      <4> HIDE DEF p
      <4> QED BY <4>2, <4>3, Zenon
    <3> QED BY <3>1, <3>2
  <2> QED BY <1>2, <1>7, <2>11 DEF p, headerEnd
<1> QED BY <1>1, <1>2, <1>6, <1>7
=============================================================================
