----------------------------- MODULE SyncQueue -----------------------------
(***************************************************************************)
(* The class template SyncQueue of include/SyncQueue.h: a list guarded by  *)
(* one mutex and one condition variable.  put() never waits for room; get  *)
(* waits for an element when called with isBocking = true and throws when  *)
(* called with false on an empty queue.                                    *)
(*                                                                         *)
(* The steps are those of the two functions between which another thread   *)
(* may run: acquiring m_mutex, the test of empty(), the copy of front(),   *)
(* pop_front(), push_back(), notify_one(), and the release of the lock by  *)
(* the destructor of `locker'.                                             *)
(***************************************************************************)
EXTENDS Naturals, Sequences, FiniteSets

CONSTANTS Putters,     \* threads that call put
          Getters,     \* threads that call get
          Elements,    \* what is put; each element is put at most once
          Nothing,     \* a getter holds no element
          Undefined,   \* what front() of an empty list yields: no defined value
          Free         \* m_mutex is not held

Threads == Putters \cup Getters

ASSUME ThreadsAssumption ==
    /\ Putters \cap Getters = {}
    /\ IsFiniteSet(Getters)
    /\ IsFiniteSet(Putters)
    /\ Free \notin Threads

ASSUME ElementsAssumption ==
    /\ Nothing \notin Elements
    /\ Undefined \notin Elements
    /\ Nothing # Undefined

VARIABLES
    m_queue,      \* list<QueueElement>
    m_mutex,      \* the thread that holds the mutex, or Free
    m_notEmpty,   \* the threads blocked on the condition variable
    pc,           \* where each thread is in put or get
    x,            \* the local variable x of put (argument) or get (result)
    isBocking,    \* the argument of get
    toPut         \* the elements no thread has put yet: the workload's bound

vars == <<m_queue, m_mutex, m_notEmpty, pc, x, isBocking, toPut>>

PutterSteps == {"idle", "lock", "push", "notify", "unlock"}
GetterSteps == {"idle", "lock", "test", "wait", "relock", "front", "pop", "unlock"}

\* The steps executed while `locker' owns m_mutex.
Locked == {"push", "notify", "test", "front", "pop", "unlock"}

TypeOK ==
    /\ m_queue \in Seq(Elements)
    /\ m_mutex \in Threads \cup {Free}
    /\ m_notEmpty \subseteq Getters
    /\ pc \in [Threads -> PutterSteps \cup GetterSteps]
    /\ \A t \in Putters : pc[t] \in PutterSteps
    /\ \A t \in Getters : pc[t] \in GetterSteps
    /\ x \in [Threads -> Elements \cup {Nothing, Undefined}]
    /\ isBocking \in [Getters -> BOOLEAN]
    /\ toPut \subseteq Elements

Init ==
    /\ m_queue = <<>>
    /\ m_mutex = Free
    /\ m_notEmpty = {}
    /\ pc = [t \in Threads |-> "idle"]
    /\ x = [t \in Threads |-> Nothing]
    /\ isBocking = [c \in Getters |-> TRUE]
    /\ toPut = Elements

Goto(t, step) == pc' = [pc EXCEPT ![t] = step]

----------------------------------------------------------------------------
\* The mutex, as the constructor and the destructor of unique_lock use it.

\* Mutant: the constructor takes no lock.
LockNoMutex(t, step) ==
    /\ m_mutex' = t
    /\ Goto(t, step)

\* unique_lock<mutex> locker(m_mutex): blocks until the mutex is free.
Acquire(t, step) ==
    /\ m_mutex = Free
    /\ m_mutex' = t
    /\ Goto(t, step)

\* The destructor of locker.
Unlock(t) ==
    /\ pc[t] = "unlock"
    /\ m_mutex' = Free
    /\ Goto(t, "idle")
    /\ UNCHANGED <<m_queue, m_notEmpty, x, isBocking, toPut>>

----------------------------------------------------------------------------
\* bool put(const QueueElement x)

\* Mutant: put takes a reference, and its caller lets go of the element.
CallPutByReference(p, e) ==
    /\ pc[p] = "idle"
    /\ e \in toPut
    /\ toPut' = toPut \ {e}
    /\ Goto(p, "lock")
    /\ UNCHANGED <<m_queue, m_mutex, m_notEmpty, x, isBocking>>

CallPut(p, e) ==
    /\ pc[p] = "idle"
    /\ e \in toPut
    /\ toPut' = toPut \ {e}
    /\ x' = [x EXCEPT ![p] = e]
    /\ Goto(p, "lock")
    /\ UNCHANGED <<m_queue, m_mutex, m_notEmpty, isBocking>>

LockPut(p) ==
    /\ pc[p] = "lock"
    /\ Acquire(p, "push")
    /\ UNCHANGED <<m_queue, m_notEmpty, x, isBocking, toPut>>

PushBack(p) ==
    /\ pc[p] = "push"
    /\ m_queue' = Append(m_queue, x[p])
    /\ Goto(p, "notify")
    /\ UNCHANGED <<m_mutex, m_notEmpty, x, isBocking, toPut>>

\* Mutant: notify_one only when the queue was empty before the push.
NotifyOnlyFirst(p) ==
    /\ pc[p] = "notify"
    /\ IF Len(m_queue) = 1 /\ m_notEmpty # {}
       THEN \E c \in m_notEmpty :
                /\ m_notEmpty' = m_notEmpty \ {c}
                /\ pc' = [pc EXCEPT ![c] = "relock", ![p] = "unlock"]
       ELSE /\ Goto(p, "unlock")
            /\ UNCHANGED m_notEmpty
    /\ UNCHANGED <<m_queue, m_mutex, x, isBocking, toPut>>

\* m_notEmpty.notify_one(): one waiting getter, if there is one, stops
\* waiting and goes back to acquire the mutex inside wait().
NotifyOne(p) ==
    /\ pc[p] = "notify"
    /\ \/ /\ m_notEmpty = {}
          /\ Goto(p, "unlock")
          /\ UNCHANGED m_notEmpty
       \/ \E c \in m_notEmpty :
             /\ m_notEmpty' = m_notEmpty \ {c}
             /\ pc' = [pc EXCEPT ![c] = "relock", ![p] = "unlock"]
    /\ UNCHANGED <<m_queue, m_mutex, x, isBocking, toPut>>

----------------------------------------------------------------------------
\* QueueElement get(bool isBocking)

CallGet(c, blocking) ==
    /\ pc[c] = "idle"
    /\ isBocking' = [isBocking EXCEPT ![c] = blocking]
    /\ x' = [x EXCEPT ![c] = Nothing]
    /\ Goto(c, "lock")
    /\ UNCHANGED <<m_queue, m_mutex, m_notEmpty, toPut>>

\* Mutant: `if' in place of `while', so a woken getter does not test again.
LockGetIf(c) ==
    /\ pc[c] \in {"lock", "relock"}
    /\ Acquire(c, IF pc[c] = "lock" THEN "test" ELSE "front")
    /\ UNCHANGED <<m_queue, m_notEmpty, x, isBocking, toPut>>

\* On entry, and again inside wait() after a wake-up: both continue at the
\* test of empty().
LockGet(c) ==
    /\ pc[c] \in {"lock", "relock"}
    /\ Acquire(c, "test")
    /\ UNCHANGED <<m_queue, m_notEmpty, x, isBocking, toPut>>

\* while (m_queue.empty()) m_notEmpty.wait(locker): the mutex is released
\* and the thread starts to wait in one step.
Wait(c) ==
    /\ pc[c] = "test"
    /\ m_queue = <<>>
    /\ isBocking[c]
    /\ m_notEmpty' = m_notEmpty \cup {c}
    /\ m_mutex' = Free
    /\ Goto(c, "wait")
    /\ UNCHANGED <<m_queue, x, isBocking, toPut>>

\* throw runtime_error("Queue is empty"): locker is destroyed on the way out.
ThrowEmpty(c) ==
    /\ pc[c] = "test"
    /\ m_queue = <<>>
    /\ ~isBocking[c]
    /\ Goto(c, "unlock")
    /\ UNCHANGED <<m_queue, m_mutex, m_notEmpty, x, isBocking, toPut>>

LeaveLoop(c) ==
    /\ pc[c] = "test"
    /\ m_queue # <<>>
    /\ Goto(c, "front")
    /\ UNCHANGED <<m_queue, m_mutex, m_notEmpty, x, isBocking, toPut>>

\* QueueElement x = m_queue.front()
ReadFront(c) ==
    /\ pc[c] = "front"
    /\ x' = [x EXCEPT ![c] = IF m_queue = <<>> THEN Undefined ELSE Head(m_queue)]
    /\ Goto(c, "pop")
    /\ UNCHANGED <<m_queue, m_mutex, m_notEmpty, isBocking, toPut>>

\* m_queue.pop_front()
PopFront(c) ==
    /\ pc[c] = "pop"
    /\ m_queue' = IF m_queue = <<>> THEN <<>> ELSE Tail(m_queue)
    /\ Goto(c, "unlock")
    /\ UNCHANGED <<m_mutex, m_notEmpty, x, isBocking, toPut>>

\* A condition variable may wake a waiter that nobody notified.
SpuriousWakeup(c) ==
    /\ c \in m_notEmpty
    /\ m_notEmpty' = m_notEmpty \ {c}
    /\ Goto(c, "relock")
    /\ UNCHANGED <<m_queue, m_mutex, x, isBocking, toPut>>

----------------------------------------------------------------------------
\* What a thread does once it is inside put or get.
PutStep(p) == LockPut(p) \/ PushBack(p) \/ NotifyOne(p) \/ Unlock(p)

GetStep(c) ==
    \/ LockGet(c) \/ Wait(c) \/ ThrowEmpty(c) \/ LeaveLoop(c)
    \/ ReadFront(c) \/ PopFront(c) \/ Unlock(c)

Next ==
    \/ \E p \in Putters : PutStep(p) \/ \E e \in Elements : CallPut(p, e)
    \/ \E c \in Getters : \/ GetStep(c)
                          \/ SpuriousWakeup(c)
                          \/ \E b \in BOOLEAN : CallGet(c, b)

Spec == Init /\ [][Next]_vars

\* A thread inside put or get goes on: no step of them but the acquisition of
\* the mutex and the wait can block.  Nobody has to call put or get again (a
\* task a getter took may run forever), and no wake-up is ever spurious.
Fairness ==
    /\ \A p \in Putters : WF_vars(PutStep(p))
    /\ \A c \in Getters : WF_vars(GetStep(c))

FairSpec == Spec /\ Fairness

----------------------------------------------------------------------------
\* The getters that are on their way to an element: awake inside get and not
\* past pop_front yet.
Arriving == {c \in Getters : pc[c] \in {"lock", "relock", "test", "front", "pop"}}

\* The putters that have pushed and still owe their notify_one.
Notifying == {p \in Putters : pc[p] = "notify"}

\* No wake-up is lost: while some getter sleeps on the condition variable,
\* every queued element has an awake getter on its way to it, or a putter
\* about to wake one.  One notify_one per put is enough for that (lines
\* 26-31, 38-54), although a getter that was not waiting may take the element
\* first.
NoLostWakeup ==
    m_notEmpty # {} =>
        Len(m_queue) <= Cardinality(Arriving) + Cardinality(Notifying)

\* front() and pop_front() are never called on an empty list, which would be
\* undefined: the element get() saw at the test is still there two steps
\* later (lines 41-51).
FrontIsDefined ==
    \A c \in Getters :
        /\ pc[c] \in {"front", "pop"} => m_queue # <<>>
        /\ x[c] # Undefined

\* What get() gave a thread: x from the moment pop_front has removed it.
Hand == [c \in Getters |-> IF pc[c] \in {"unlock", "idle"} THEN x[c] ELSE Nothing]

Fifo == INSTANCE FifoQueue WITH queue <- m_queue, hand <- Hand

\* The mutex makes put and get atomic: the class implements FifoQueue, so each
\* element goes to exactly one getter, in the order of the puts.
ImplementsFifo == Fifo!Spec

Queued == {m_queue[i] : i \in DOMAIN m_queue}

\* An element put while some getter waits is taken, even when no getter ever
\* comes back for a second element and no wake-up is spurious: the notify_one
\* of every put (line 29) is what makes it so.
TakenIfSomeoneWaits ==
    \A e \in Elements : (e \in Queued /\ m_notEmpty # {}) ~> e \notin Queued
=============================================================================
