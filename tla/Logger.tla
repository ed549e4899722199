------------------------------- MODULE Logger -------------------------------
(***************************************************************************)
(* The asynchronous log of include/Logger.h and the exit that waits for    *)
(* it, safeExit of include/util.h.  With isAsyncLog the threads of the     *)
(* program put their messages in msgQueue and one thread, t_write, prints  *)
(* them; without it every thread prints under printLock.  A message is     *)
(* <<t, n>>, the n-th of thread t: its text plays no part.                 *)
(*                                                                         *)
(* msgQueue is the atomic queue of FifoQueue, which SyncQueue implements.  *)
(*                                                                         *)
(* On Linux the handler of SIGINT runs in the main thread, wherever that   *)
(* is: it calls safeExit and never returns.  If the thread holds a mutex   *)
(* then, nobody releases it any more.  (On Windows a new thread runs it,   *)
(* which is one more caller of safeExit.)                                  *)
(***************************************************************************)
EXTENDS Naturals, Sequences, FiniteSets, SequencesExt

CONSTANTS Callers,      \* the threads that log, and may call safeExit
          Main,         \* the one of them that gets SIGINT
          t_write,      \* the thread that prints when the log is asynchronous
          Nothing,      \* t_write holds no message
          Free,         \* printLock is not held
          MaxLogged,    \* bound: messages a thread logs
          MaxFailures   \* bound: how often the log file cannot be opened

Threads == Callers \cup {t_write}
Messages == Threads \X (1..MaxLogged)

ASSUME LoggerAssumption ==
    /\ t_write \notin Callers
    /\ Main \in Callers
    /\ Free \notin Threads
    /\ Nothing \notin Messages
    /\ MaxLogged \in Nat \ {0}
    /\ MaxFailures \in Nat

VARIABLES
    isAsyncLog,   \* chosen once, by the constructor
    msgQueue,     \* the messages put and not yet taken
    msg,          \* the local variable msg of t_write
    printLock,    \* the thread that holds it, or Free
    pc,           \* where each thread is
    exiting,      \* the thread is inside safeExit
    logged,       \* how many messages the thread has begun to log
    console,      \* what cout received
    file,         \* what the log file received
    cerr,         \* how many times the file could not be opened
    exited,       \* _exit was called: no thread runs any more
    interrupted,  \* SIGINT has come
    cut,          \* the message Main was logging then, if it was logging one
    queueHeld     \* Main was inside put or isEmpty, and keeps msgQueue's mutex

signalVars == <<interrupted, cut, queueHeld>>
vars == <<isAsyncLog, msgQueue, msg, printLock, pc, exiting, logged,
          console, file, cerr, exited, signalVars>>

Queue == INSTANCE FifoQueue
            WITH queue <- msgQueue, hand <- msg,
                 Elements <- Messages, Getters <- {t_write}

TypeOK ==
    /\ isAsyncLog \in BOOLEAN
    /\ msgQueue \in Seq(Messages)
    /\ msg \in [{t_write} -> Messages \cup {Nothing}]
    /\ printLock \in Callers \cup {Free}
    /\ pc \in [Threads -> {"off", "run", "log", "get", "console", "file",
                           "unlock", "isEmpty", "exit"}]
    /\ exiting \in [Callers -> BOOLEAN]
    /\ logged \in [Threads -> 0..MaxLogged]
    /\ console \in Seq(Messages)
    /\ file \in Seq(Messages)
    /\ cerr \in 0..MaxFailures
    /\ exited \in BOOLEAN
    /\ interrupted \in BOOLEAN
    /\ cut \subseteq Messages
    /\ queueHeld \in BOOLEAN

\* The constructor has run; it started t_write if the log is asynchronous,
\* and the first thing t_write does is to log its own thread id.
Init ==
    /\ isAsyncLog \in BOOLEAN
    /\ Queue!Init
    /\ printLock = Free
    /\ pc = [t \in Threads |-> IF t # t_write THEN "run"
                               ELSE IF isAsyncLog THEN "log" ELSE "off"]
    /\ exiting = [t \in Callers |-> FALSE]
    /\ logged = [t \in Threads |-> IF t = t_write /\ isAsyncLog THEN 1 ELSE 0]
    /\ console = <<>>
    /\ file = <<>>
    /\ cerr = 0
    /\ exited = FALSE
    /\ interrupted = FALSE
    /\ cut = {}
    /\ queueHeld = FALSE

Goto(t, step) == pc' = [pc EXCEPT ![t] = step]

\* A thread begins to log its next message.
Begin(t) ==
    /\ logged[t] < MaxLogged
    /\ logged' = [logged EXCEPT ![t] = @ + 1]
    /\ Goto(t, "log")

\* Where a thread is once its message is logged.
AfterLog(t) ==
    IF t = t_write THEN "get" ELSE IF exiting[t] THEN "isEmpty" ELSE "run"

----------------------------------------------------------------------------
\* Logger::log and the macros that call it

\* info(...), debug(...), err(...)
Info(t) ==
    /\ pc[t] = "run"
    /\ Begin(t)
    /\ UNCHANGED <<isAsyncLog, msgQueue, msg, printLock, exiting, console,
                   file, cerr, exited>>

\* msgQueue.put(s)
Enqueue(t) ==
    /\ pc[t] = "log"
    /\ isAsyncLog
    /\ ~queueHeld
    /\ Queue!Put(<<t, logged[t]>>)
    /\ Goto(t, AfterLog(t))
    /\ UNCHANGED <<isAsyncLog, printLock, exiting, logged, console, file,
                   cerr, exited>>

\* Mutant: no lock_guard.
LogWithoutLock(t) ==
    /\ pc[t] = "log"
    /\ ~isAsyncLog
    /\ printLock' = t
    /\ Goto(t, "console")
    /\ UNCHANGED <<isAsyncLog, msgQueue, msg, exiting, logged, console, file,
                   cerr, exited>>

\* lock_guard<mutex> lockGuard(printLock)
LockPrint(t) ==
    /\ pc[t] = "log"
    /\ ~isAsyncLog
    /\ printLock = Free
    /\ printLock' = t
    /\ Goto(t, "console")
    /\ UNCHANGED <<isAsyncLog, msgQueue, msg, exiting, logged, console, file,
                   cerr, exited>>

\* The message a thread is printing: t_write the one it took, another thread
\* the one it is logging.
Printing(t) == IF t = t_write THEN msg[t] ELSE <<t, logged[t]>>

\* cout << msg << flush
PrintConsole(t) ==
    /\ pc[t] = "console"
    /\ console' = Append(console, Printing(t))
    /\ Goto(t, "file")
    /\ UNCHANGED <<isAsyncLog, msgQueue, msg, printLock, exiting, logged, file,
                   cerr, exited>>

\* Mutant: t_write ends when the file cannot be opened.
WriterEndsOnError(t) ==
    /\ pc[t] = "file"
    /\ \/ /\ file' = Append(file, Printing(t))
          /\ Goto(t, IF t = t_write THEN "get" ELSE "unlock")
          /\ UNCHANGED cerr
       \/ /\ cerr < MaxFailures
          /\ cerr' = cerr + 1
          /\ Goto(t, IF t = t_write THEN "off" ELSE "unlock")
          /\ UNCHANGED file
    /\ UNCHANGED <<isAsyncLog, msgQueue, msg, printLock, exiting, logged,
                   console, exited>>

\* The file is opened, written and closed for every message; when it cannot
\* be opened the message is only on the console.
WriteFile(t) ==
    /\ pc[t] = "file"
    /\ \/ file' = Append(file, Printing(t)) /\ UNCHANGED cerr
       \/ cerr < MaxFailures /\ cerr' = cerr + 1 /\ UNCHANGED file
    /\ Goto(t, IF t = t_write THEN "get" ELSE "unlock")
    /\ UNCHANGED <<isAsyncLog, msgQueue, msg, printLock, exiting, logged,
                   console, exited>>

UnlockPrint(t) ==
    /\ pc[t] = "unlock"
    /\ printLock' = Free
    /\ Goto(t, AfterLog(t))
    /\ UNCHANGED <<isAsyncLog, msgQueue, msg, exiting, logged, console, file,
                   cerr, exited>>

\* string msg = msgQueue.get(true), in t_write
GetMsg ==
    /\ pc[t_write] = "get"
    /\ ~queueHeld
    /\ Queue!Get(t_write)
    /\ Goto(t_write, "console")
    /\ UNCHANGED <<isAsyncLog, printLock, exiting, logged, console, file,
                   cerr, exited>>

----------------------------------------------------------------------------
\* safeExit

\* A thread calls safeExit, which logs "exit" first.
CallSafeExit(t) ==
    /\ pc[t] = "run"
    /\ Begin(t)
    /\ exiting' = [exiting EXCEPT ![t] = TRUE]
    /\ UNCHANGED <<isAsyncLog, msgQueue, msg, printLock, console, file, cerr,
                   exited>>

\* The test of the loop: leave it when the queue is empty, and otherwise log
\* one more message and sleep.
CheckEmpty(t) ==
    /\ pc[t] = "isEmpty"
    /\ ~queueHeld
    /\ IF msgQueue = <<>>
       THEN Goto(t, "exit") /\ UNCHANGED logged
       ELSE Begin(t)
    /\ UNCHANGED <<isAsyncLog, msgQueue, msg, printLock, exiting, console,
                   file, cerr, exited>>

\* _exit(code)
Exit(t) ==
    /\ pc[t] = "exit"
    /\ exited' = TRUE
    /\ UNCHANGED <<isAsyncLog, msgQueue, msg, printLock, pc, exiting, logged,
                   console, file, cerr>>

----------------------------------------------------------------------------
\* SIGINT: sigHandler calls safeExit, whatever Main was doing.  (What the
\* handler prints before, without the log, is left out.)
Interrupt ==
    /\ ~interrupted
    /\ Begin(Main)
    /\ exiting' = [exiting EXCEPT ![Main] = TRUE]
    /\ interrupted' = TRUE
    /\ cut' = IF pc[Main] \in {"log", "console", "file"}
              THEN {<<Main, logged[Main]>>} ELSE {}
    /\ \/ queueHeld' = FALSE /\ UNCHANGED msgQueue
       \/ /\ pc[Main] = "isEmpty"
          /\ queueHeld' = TRUE
          /\ UNCHANGED msgQueue
       \/ /\ pc[Main] = "log" /\ isAsyncLog
          /\ queueHeld' = TRUE
          /\ msgQueue' \in {msgQueue, Append(msgQueue, <<Main, logged[Main]>>)}
    /\ UNCHANGED <<isAsyncLog, msg, printLock, console, file, cerr, exited>>

----------------------------------------------------------------------------
\* What a thread does until it is done with the message it logs or prints.
LogStep(t) ==
    \/ Enqueue(t) \/ PrintConsole(t) \/ WriteFile(t)
    \/ t \in Callers /\ (LockPrint(t) \/ UnlockPrint(t))

WriterStep == GetMsg \/ LogStep(t_write)
CallerStep(t) == LogStep(t) \/ CheckEmpty(t) \/ Exit(t)

Next ==
    /\ ~exited
    /\ \/ /\ \/ WriterStep
             \/ \E t \in Callers : CallerStep(t) \/ Info(t) \/ CallSafeExit(t)
          /\ UNCHANGED signalVars
       \/ Interrupt

Spec == Init /\ [][Next]_vars

\* Every thread goes on with what it is doing; none has to log or to exit.
Fairness ==
    /\ WF_vars(~exited /\ WriterStep /\ UNCHANGED signalVars)
    /\ \A t \in Callers :
          WF_vars(~exited /\ CallerStep(t) /\ UNCHANGED signalVars)

FairSpec == Spec /\ Fairness

----------------------------------------------------------------------------
\* The message t_write has taken and not printed yet.
InHand == IF pc[t_write] = "console" THEN <<msg[t_write]>> ELSE <<>>

\* All that was put or printed, oldest first.
Line == console \o InHand \o msgQueue

\* How many messages of thread t were put or printed.
Said(t) ==
    IF pc[t] = "log" \/ (pc[t] = "console" /\ t # t_write)
    THEN logged[t] - 1 ELSE logged[t]

\* The message SIGINT cut off before it was put or printed.
Lost == cut \ ToSet(Line)

\* Until the process ends nothing logged is lost, printed twice or overtaken:
\* what is on the console, then in the hand of t_write, then in the queue is
\* for every thread all it logged, in the order it did (Logger.h, 174-207 and
\* 278-308), but for the one message that SIGINT may cut off.
OnceInOrder ==
    /\ TypeOK
    /\ ToSet(Line) = {m \in Messages : m[2] <= Said(m[1])} \ Lost
    /\ \A j, k \in 1..Len(Line) :
          j < k /\ Line[j][1] = Line[k][1] => Line[j][2] < Line[k][2]

\* What is in the file is on the console, in the same order.
FileInOrder ==
    /\ ToSet(file) \subseteq ToSet(console)
    /\ \A j, k \in 1..Len(file), p, q \in 1..Len(console) :
          j < k /\ console[p] = file[j] /\ console[q] = file[k] => p < q

\* What is on the console and not in the file.
Missing ==
    cerr + (IF \E t \in Threads : pc[t] = "file" THEN 1 ELSE 0)
         + Cardinality(cut \cap ToSet(console))

\* The log file has the messages of the console in the console's order,
\* except for those whose open failed, the one being written, and the one that
\* SIGINT cut off between its two writes: no other message comes between the
\* two writes of one (185-205, 286-305).
FileFollowsConsole == FileInOrder /\ Len(console) = Len(file) + Missing

\* A thread whose safeExit ends the process has all it logged on the console
\* but for what SIGINT cut off: "wait for the log thread to print all messages"
\* (util.h, 49-51), written so that the last message is not lost (QA.md, 15-33).
\* An empty queue is not that: t_write may have taken a message and not printed
\* it yet (Logger.h, 180-186).
AllPrintedAtExit ==
    \A t \in Callers : (exited /\ pc[t] = "exit") =>
        \A n \in 1..logged[t] : <<t, n>> \in ToSet(console) \cup Lost

\* What is put in the queue is printed, unless the process ends first, or
\* SIGINT came while the main thread held the queue's mutex.
PutIsPrinted ==
    \A m \in Messages : m \in ToSet(msgQueue) ~>
        m \in ToSet(console) \/ exited \/ queueHeld

\* Main waits for a mutex it holds itself.
SelfLocked == queueHeld \/ (pc[Main] = "log" /\ printLock = Main)

\* safeExit ends the process, also when SIGINT calls it, unless the signal came
\* while the main thread held the mutex of the queue or of the log (util.h,
\* 46-78).  The bound MaxLogged stands for threads that stop logging at last:
\* while they go on, the queue need never be seen empty (52-55).
ExitEnds == \A t \in Callers : exiting[t] ~> exited \/ SelfLocked
=============================================================================
