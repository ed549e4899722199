----------------------------- MODULE ThreadPool -----------------------------
(***************************************************************************)
(* include/ThreadPool.h: a fixed number of detached threads that take      *)
(* tasks from one queue and run them, forever.  The queue is the atomic    *)
(* queue of FifoQueue, which SyncQueue.tla implements.  What a task does   *)
(* while it runs is the business of the module that submits it.            *)
(*                                                                         *)
(* Every pool of the repository blocks for a task (isBlockingWaitTask).    *)
(***************************************************************************)
EXTENDS Naturals, Sequences, FiniteSets

CONSTANTS Workers,     \* the threads startWorker creates: poolSize of them
          Tasks,
          NoTask

VARIABLES
    taskQueue,             \* submitted and not yet taken
    task,                  \* the local variable task of worker_main
    worker,                \* where each thread is in worker_main
    currentWorkerNumber

poolVars == <<taskQueue, task, worker, currentWorkerNumber>>

Queue == INSTANCE FifoQueue
            WITH queue <- taskQueue, hand <- task,
                 Elements <- Tasks, Getters <- Workers, Nothing <- NoTask

PoolTypeOK ==
    /\ taskQueue \in Seq(Tasks)
    /\ task \in [Workers -> Tasks \cup {NoTask}]
    /\ worker \in [Workers -> {"start", "getTask", "task"}]
    /\ currentWorkerNumber \in 0..Cardinality(Workers)

PoolInit ==
    /\ Queue!Init
    /\ worker = [w \in Workers |-> "start"]
    /\ currentWorkerNumber = 0

\* addWorkerNumber, under its mutex, before the loop.
WorkerStarts(w) ==
    /\ worker[w] = "start"
    /\ currentWorkerNumber' = currentWorkerNumber + 1
    /\ worker' = [worker EXCEPT ![w] = "getTask"]
    /\ UNCHANGED <<taskQueue, task>>

\* submitTask: put never fails, so the branch for a full queue is not taken.
SubmitTask(t) ==
    /\ Queue!Put(t)
    /\ UNCHANGED <<worker, currentWorkerNumber>>

\* Mutant: a worker copies the oldest task and leaves it in the queue.
PeekTask(w) ==
    /\ worker[w] = "getTask"
    /\ taskQueue # <<>>
    /\ task' = [task EXCEPT ![w] = Head(taskQueue)]
    /\ worker' = [worker EXCEPT ![w] = "task"]
    /\ UNCHANGED <<taskQueue, currentWorkerNumber>>

GetTask(w) ==
    /\ worker[w] = "getTask"
    /\ Queue!Get(w)
    /\ worker' = [worker EXCEPT ![w] = "task"]
    /\ UNCHANGED currentWorkerNumber

\* task() returned, or threw what worker_main catches: back to the loop.
TaskEnds(w) ==
    /\ worker[w] = "task"
    /\ Queue!Release(w)
    /\ worker' = [worker EXCEPT ![w] = "getTask"]
    /\ UNCHANGED currentWorkerNumber
=============================================================================
