----------------------------- MODULE FifoQueue -----------------------------
(***************************************************************************)
(* What include/SyncQueue.h promises its callers: one first-in first-out   *)
(* queue shared by any number of threads, on which a put and a get each    *)
(* happen at a single instant.  There is no mutex and no condition         *)
(* variable here: SyncQueue.tla has them, and is checked (and proved) to   *)
(* implement this specification.  The thread pool and the logger are       *)
(* modelled on top of this abstraction.                                    *)
(***************************************************************************)
EXTENDS Sequences

CONSTANTS Elements,   \* what can be queued: tasks, or log messages
          Getters,    \* the threads that take elements
          Nothing     \* what a getter holds when it holds no element

VARIABLES queue,      \* the elements put and not yet taken, oldest first
          hand        \* hand[c]: the element the last get of c returned

Init ==
    /\ queue = <<>>
    /\ hand = [c \in Getters |-> Nothing]

\* Mutant: the element goes to the front.
PutFront(e) ==
    /\ queue' = <<e>> \o queue
    /\ UNCHANGED hand

\* A put: the element goes to the back of the queue.
Put(e) ==
    /\ queue' = Append(queue, e)
    /\ UNCHANGED hand

\* A get that succeeds: the oldest element leaves the queue and goes to c.
Get(c) ==
    /\ queue # <<>>
    /\ queue' = Tail(queue)
    /\ hand' = [hand EXCEPT ![c] = Head(queue)]

\* A getter lets go of the element it was given, and asks for the next one.
Release(c) ==
    /\ hand' = [hand EXCEPT ![c] = Nothing]
    /\ UNCHANGED queue

Next ==
    \/ \E e \in Elements : Put(e)
    \/ \E c \in Getters : Get(c) \/ Release(c)

Spec == Init /\ [][Next]_<<queue, hand>>
=============================================================================
