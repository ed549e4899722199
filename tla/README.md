# TLA+ specifications of JerryMouse

JerryMouse is a family of small HTTP servers in C++11. They share the headers in
`include/` (a blocking queue, a thread pool, an asynchronous log, HTTP request and
response, counters) and differ in how they wait for connections: one thread, a
thread for each connection, a thread pool, `select`, a reactor, `epoll`, and two
kinds of Windows completion port. The specifications here model the parts of them
in which threads, sockets and clients can meet in an order nobody wrote a test for
(the repository has no tests of them).

## The system

| part | state | operations | used by |
|---|---|---|---|
| `SyncQueue` | a list, a mutex, a condition variable | `put`, `get` (blocking or not), `isEmpty`, `getSize` | thread pool, log |
| `ThreadPool` | task queue, detached threads, their number | `submitTask`, `worker_main`, `getTask` | v1_1, v2, v3 |
| `Logger`, `safeExit` | message queue, `printLock`, console, file | `info`/`debug`/`err`, `log`, `t_write`, `safeExit` | everything |
| `HttpRequest` | what was received | `recvData`, `isAllData`, `parseRawData` | every server |
| `HttpResponse` | response header | `HandleRequest`, `handleRequest`, `httpSend` | every server |
| `HttpServer` | four counters, each with a mutex | `add...`, `sub...`, `recordStatisticInfoBySecond`, `startServer` | base of the servers |
| v1_1 | - | accept loop, callback `onTaskFinished` | |
| v2 | two `fd_set`s | `select` rounds, callback | |
| v2_2 reactor | handler map, two `fd_set`s, `spareNumber` | `handleEvents`, `waitEvents`, Acceptor, ReadHandler, WriteHandler | |
| v3 | epoll descriptor | `epoll_wait` loop, `handleAccept`, `handleRead`, callback `removeEvent` | |
| v0, v1 | v1: number of threads | accept loop, `worker_main` | |
| v4, v4_1 | completion port, `IO_DATA` of each operation | workers, `postAccept` | |

How they meet: the main thread of a server accepts a connection and hands its socket
number to a worker inside a task; the worker receives, parses, responds, closes the
socket and calls the server back. Nothing but the number connects the two, and the
operating system gives a number out again as soon as it is closed. Every thread logs,
through one queue, to one thread that prints. A failure anywhere is `safeExit`, which
waits for that queue to be empty.

What is hard in it, and which property stands for it being right:

- wake-ups and mutual exclusion in the queue: it is an atomic FIFO queue, and no getter
  sleeps on an element;
- ownership of socket numbers: each open socket is in the hands of exactly one thread,
  queue or set, and nobody holds a number that was closed;
- counters changed one after the other by several threads;
- events reported once (`epoll`, edge-triggered) and sets rebuilt in every round
  (`select`): no connection is left out of both;
- limits: a set with `FD_SETSIZE` places, an acceptor with as many spare numbers;
- failure on the way (a bad request, a client that leaves or says nothing, a file that
  cannot be opened): everything is given back, nobody waits forever;
- the end of the process while other threads run.

The list of places in the code, one by one, is `hazards` in `PROJECT.json`.

## The modules

```
FifoQueue            what SyncQueue promises
  SyncQueue          the queue itself, refines FifoQueue    ClassProofs
  Logger             uses FifoQueue as its queue            LoggerProofs
  ThreadPool         uses FifoQueue as its queue
Connections          TCP, as the servers use it (external)
  HttpRequest        completeness and validity of a request
RequestText          the parsing functions on text
  RecvData           the receive loop on text: the detail
                     behind HttpRequest                     ClassProofs
HandleRequest        = HttpRequest + ThreadPool: the task of the pooled servers
HttpServer           the counters
  Statistics         the thread that writes stat.txt
  DirectServer       = Statistics + HttpRequest    v0, v1   DirectServerProofs
  IocpServer         = HttpServer + HttpRequest    v4, v4_1 IocpServerProofs
  PoolServer         = HttpServer + HandleRequest  v1_1     PoolServerProofs
  SelectServer       = HttpServer + HandleRequest  v2       SelectServerProofs
  EpollServer        = HandleRequest               v3       EpollServerProofs
  Reactor            = HttpServer + HttpRequest    v2_2     ReactorProofs
```

`MC*.tla` are the instances TLC checks, `*Proofs.tla` the theorems about the module beside
them.

**FifoQueue, SyncQueue.** `FifoQueue` has atomic `Put` and `Get`. `SyncQueue` has one
action for every step of `put` and `get` between which another thread may run; `pc` says
where a thread is, `m_mutex` who is inside, `m_notEmpty` who sleeps. `wait` releases
the mutex and sleeps in one step, a wake-up (or a spurious one) leads back to the
acquisition of the mutex and to the test. `x` is the local variable of that name; the
refinement mapping takes it as the getter's element from `pop_front` on.
`isEmpty` and `getSize` change nothing; where a decision depends on one (`safeExit`)
the module of the caller reads the queue in one step, as it does under the mutex.

**Logger.** A message is `<<t, n>>`, the n-th of thread `t`. `isAsyncLog` is chosen
once. Asynchronously a caller puts (`Enqueue`) and `t_write` gets, prints and writes
(`GetMsg`, `PrintConsole`, `WriteFile`); synchronously the caller prints and writes
under `printLock`. `Line` is all that was put or printed, oldest first: the console, what is
in the hand of `t_write`, and the queue. `safeExit` is `CallSafeExit` (it logs first), `CheckEmpty` (leave the
loop or log once more) and `Exit`. `Interrupt` is SIGINT, once: `sigHandler` runs in the
main thread (`Main`), wherever that is, and calls `safeExit`, which does not come back. The
message `Main` was logging is cut off (`cut`); if `Main` held `printLock`, or was inside
`put` or `isEmpty` of the queue (`queueHeld`), nobody releases that mutex any more. `put`
may have appended by then or not. On Windows a new thread runs the handler, which is one
more caller of `safeExit`. The handler's own print, which bypasses the log, is left out.

**Connections, HttpRequest.** TCP from the calls the servers make: a listen queue, the
client behind each open socket number, how many segments a client has sent and how
many of them have not been received, who has left, whose connection is closed. A
request is a kind and a number of segments: *good*; *bad*, when parsing throws;
*endless*, when `isAllData` never becomes true (a client that says nothing, a request
that does not go on, a body longer than its `Content-Length`, or one that the 1024-byte
buffer, appended as a C string, cuts short).

**RequestText, RecvData.** What `HttpRequest` abstracts. A text is a sequence of a few
characters, of which one stands for the words `Content-Length`; a number is one digit.
`isAllData`, `reqLineToMap`, `reqHeaderToMap` and `parseRawData` are operators on it, with
the positions the code computes: where `string::find` starts, which of two empty lines ends
the headers, what a line without a colon does. Their exceptions are the model value
`Throws`. `RecvData` is the constructor for a socket: each round clears `buf`, receives any
number of characters that fits, and appends `buf` up to the first NUL, which is behind `buf`
when the piece fills it (`Garbage` is what may stand there). `MCClasses` has the reference:
`Render` writes a request, and `Meaning` is what it must be parsed to. What the servers'
modules call *good* is a text of `Requests`, *bad* one of `Malformed`, and *endless* one whose
client stops before the end, or one of `Misread` that is never complete.

**ThreadPool, HandleRequest.** A worker is starting, waiting for a task or in one; `step`
is where it is in `HttpResponse::HandleRequest`. Receiving, responding, closing and the
callback are separate steps, since the main thread and clients act in between. What
`recvData` throws and what parsing throws both lead to the close.

**PoolServer.** `main` is the next call of the loop in `HttpServer_v1_1::run`; `After` has
their order. The callback's two counts are two steps of the worker.

**SelectServer.** One round: `ListenOnly`, `SelectReturns`, `SelectTimesOut` or
`SelectFails`; then one step for every socket of the set; `EndRound` makes the set for the
next. `forgotten` remembers the connections that an error of `select` leaves in no set; it is
not in the code. There are as many numbers as clients, so that `accept` never fails for
want of one (it would end the server). Sockets accepted on a non-blocking listening socket do not block under
Winsock, hence `RecvWouldBlock`.

**EpollServer.** `watched` and `ready` are the kernel's interest and ready lists. The
accepted sockets block, as they do on Linux. `EpollWait` returns any batch of at most
`MAX_EVENTS` of what is ready, and the rest stays on the list. `AddEventFails` and `SendKills` are the two
ways the process ends: a registration that fails since a stale task closed the new
connection's number, and SIGPIPE.

**Reactor.** `read_set` and `write_set` are sequences, as the loops of `waitEvents` index
arrays that handlers shorten (`FD_CLR` moves the rest down) and lengthen while the loop
runs. `i` is that index, `j` the one of the Acceptor's loop, whose bound `spareNumber`
shrinks as it grows. One thread does everything; only clients interleave.

**Statistics.** `recordStatisticInfoBySecond`. Its two reads of a round are two steps.

**DirectServer.** v0 and v1 differ in who handles a connection and in what an exception
skips, so one module has both and `version` chooses: `StartThread` is v1, `HandleHere` v0 (its
one thread of `Threads` then has `main` wait for it), and `Caught` is where an exception leads.
A failed `accept` is counted in both, and v1 starts a thread for it; `acceptErrors` bounds
how often that happens and is not in the code.

**IocpServer.** v4 and v4_1, by `version` too. An `IO_DATA` is an address (`IoData`) with its
fields `socketOf` and `opCode`. The kernel holds the posted ones (`kernel`); a completion
goes to the queue `port` with its number of bytes, or `Failed`; a worker takes it out
(`Get`) and goes on by the opCode. In v4 the main thread accepts and posts a receive; in
v4_1 it posts `AcceptEx` for `nPosted` sockets and binds each afterwards, so a completion may
come before the socket is bound (`RecvCompletes` then has nowhere to report it). `Handle`
parses what one receive brought: a part of a request throws or not, see
`PartParsesOrThrows`; in v4_1 the receive overwrites the first bytes, which
came with the accept, so it may do either. The branch for `SEND_FINISHED` is part of `Get`,
`Close`, `SubCurrent` and `Delete` (which in v4_1 posts the next accept), but nothing leads
there: `handleRequest` calls `HttpResponse::httpSend`, which blocks and posts nothing, and never
`IOCPHttpResponse::httpSend`, which is not virtual in the base class and is private. That no
worker gets there is not assumed but proved (`RepliesAreNeverReported`). `missed` remembers
the receives that completed while the main thread had posted the accept for their socket and
not bound it; it is not in the code.

## What is checked

Runs that pass:

| run | shows | instance |
|---|---|---|
| `classes` (SyncQueue) | `TypeOK`, `NoLostWakeup`, `FrontIsDefined`, `ImplementsFifo` (refinement of FifoQueue), `TakenIfSomeoneWaits` | 2 putters, 2 getters, 3 elements |
| `classes` (RecvData) | `CollectedAsSent`, `RightOutcome`, `PartParsesOrThrows`, `ReadToTheEnd` | 45 texts of up to 28 characters, a buffer of 8 |
| `logger` | `OnceInOrder`, `FileFollowsConsole`, `PutIsPrinted`, `ExitEnds` | 2 callers and `t_write`, 3 messages each, the file fails once, one SIGINT |
| `pool_server` | `OwnedOnce`, `AnswersWhatWasSent`, `CurrentIsExact`, `EveryoneIsServed` | 3 clients, 2 sockets, 2 workers |
| `select_server` | `WatchedOrOwned`, `AnswersWhatWasSent`, `ListenStaysWatched`, `AcceptedIsClosed` | 3 clients, 3 sockets, sets of 3, 1 worker, select fails once |
| `epoll_server` | `NoLostEdge`, `AnswersWhatWasSent`, `ArrivedIsHandled` | 3 clients, 2 sockets, 1 worker, batches of 2 |
| `reactor` | `RegisteredOnce`, `AnswersWhatWasSent`, `SpareIsThere`, `ClosedUnlessNoSpare` | 3 clients, sets of 3 |
| `direct_server` | `LeakedOnlyByException`, `CountersAreExact`, `RecordedOnce`, `GoodIsAnswered` | v0 and v1, 3 clients, 2 sockets, 4 threads, accept fails once |
| `iocp_server` | `InOnePlace`, `SocketIsItsOwn`, `LostForAReason`, `SentIsHandled` | v4 and v4_1, 3 clients, 3 sockets, 2 workers, 2 posted accepts |

`classes` is one run of the two classes that work on their own. They share no state, so each
behaviour of `MCClasses` is of one of them (`class` says of which), and the other's state stays
as it was. It checks the type invariant of the queue (`TypeOK`) on its own; elsewhere that is a
conjunct of `OnceInOrder`, `OwnedOnce`, `WatchedOrOwned`, `NoLostEdge`, `RegisteredOnce`,
`CountersAreExact`, `InOnePlace` and `CollectedAsSent`.

`AnswersWhatWasSent` connects a socket number with the client behind it: what a worker (in
the reactor, a ReadHandler) has collected, with what is still unread, is all that this client
has sent, and whoever is answered sent a whole good request and it was received to its end.
In v1_1, v2 and v2_2 it holds since nobody else has the number. In v3 that is not so: a
second edge makes a second task for one socket, and a task may find another connection on
its number. That is why there it holds of one worker only, which is what the Linux build has
(see the bounds); with two, TLC shows two tasks that each receive a part of one request.

Runs in which TLC finds what a comment or a document says
to be untrue of the code (see `findings` in `PROJECT.json`):

| run | property | what happens |
|---|---|---|
| `logger_exit` | `AllPrintedAtExit` | `util.h:50`, `QA.md:33`, an empty queue means that all is printed: `t_write` takes the last message out, `safeExit` finds the queue empty and ends the process before it is printed |
| `select_current` | `CurrentWhenQuiet` | `HttpServer.h:26`, the number of connections at present: the time-out closes connections and does not count them out |
| `epoll_watched` | `WatchedUntilClosed` | `HttpServer_v3.cpp:125`: `removeEvent` runs after `closeSocket` and deregisters the next connection that has the number |
| `reactor_spare` | `NoSpareWhenFull` | `SelectDemultiplexer.h:89`, no free space: a failed read closes its socket but keeps its spare number and its count |

Three more comments are not true of the code. No run refutes them; a theorem, or a property
with the case in it, says what is true instead:

- `SelectDemultiplexer.h:70`, a time-out closes all connections: the loop skips the connection
  after each one it closes. `ClosedUnlessNoSpare` says that it goes with a later time-out.
- `HttpServer.h:26`, the number of connections at present. It is true of v1_1 only
  (`CurrentIsExact`). Besides v2 above it is untrue of v0 and v1, where a failed accept is
  counted and never counted out (`FailedAcceptsStayCounted`, proved: when nothing is under way
  the number is off by just as many; until one fails it is exact, `CountersAreExact`); of v2_2,
  where a failed read keeps its count (`ReadHandler.h:55`); of v4, which counts out a
  connection whose client is gone but not what it closes after an exception or could not
  accept (so the number is only a bound, `NeverCountsTooFew`, proved); and of v3 and v4_1,
  which count no connection.
- `HttpServer_v4.h:116` and `HttpServer_v4_1.h:247`, the socket is closed at once after the
  response, upon which v4_1 posts the next accept: no operation reports the end of
  a response (`RepliesAreNeverReported`, proved), so neither place is reached. An answered
  connection stays open, and the accepts of `run` are the only ones. `LostForAReason` has it
  among the three reasons an `IO_DATA` can be lost for.

And a message that `safeExit` loses is the last of its thread (`ExitLosesOneAtMost`, proved).

`ClosedUnlessNoSpare` has an escape: the Acceptor has no spare number left and a client waits.
`select` then returns at once every time, so idle connections never time out. That is not the same
as full sets: `reactor_spare` shows that the spare number also runs out through failed
reads.

**Bounds.** Two threads of a kind are the fewest that compete, and three elements let a
third arrive while two are under way. Three clients on two numbers make a number be used
again, and leave one in the listen queue. One request in two segments is the least for a
partial receive, a second edge and a time-out in the middle. `FD_SETSIZE` is 3: the sets
are full with two connections, and two are the fewest of which a loop skips one. One
worker in the epoll instance is what the Linux build has (`OSHelper.cpp` returns 0 cores
there, and the pool has `2 * 0 + 1` threads); the select instance has one for the size
of its state space, which the pool instance makes up for with two. `MAX_EVENTS` is 2 instead of 10: with two
connections and the listening socket ready a batch leaves one of the three behind. The direct server has
two sockets, so that two leaks use up the numbers and `accept` fails, and a thread for
every connection and that failure. `nPosted` is 2 with three clients: one is left without an
accept. A buffer of 8 characters is filled by none, one or several pieces of every text; the
texts have every combination of a URL, headers and a body, bodies with an empty line, with
the words `Content-Length` and with a colon among them. `ExitEnds` needs that the threads stop
logging at last, for which `MaxLogged` stands: as long as they go on, `safeExit` may find the
queue non-empty each time it looks. The constants that bound counters
are `MaxLogged`, `MaxFailures`, `MaxSelectErrors` and `MaxAcceptErrors`, and `Clients`, each of
which connects once.

**Deadlock** is checked in `classes` (there is none: getters may always be called again
or wake spuriously, and `recv` returns data or that the client left) and in `reactor` (its
one thread always has a step). The others may stop: when every client has been served, or when the process has exited.

**Fairness** is weak fairness of each thread, since the operating system schedules every
thread that can run and the mutexes are held for a bounded time, and nothing else of the
program: nobody has to call `put`, `get`, the log or `safeExit`, SIGINT need not come, and no wake-up is ever
spurious. Of the clients `pool_server`, `epoll_server` and `direct_server` assume that one which began a
request sends the rest, and that one whose request never ends leaves at last
(`ClientFairness`): `recv` has no time-out there (`SO_RCVTIMEO` is set to 0, which is none),
and without the second assumption one silent client keeps a worker for good.
`select_server` and `reactor` have time-outs and assume nothing of the clients, and nor does
`iocp_server`, where an idle client holds no worker; there the kernel completes what can be
completed. `ReadToTheEnd` assumes that a client that has not left sends the rest of its text; it
states that itself (`RecvFairness`), as the other class of the run knows no client.
The recorder of `stat.txt` need not run.
`epoll_server` has strong fairness besides, for each socket: an `epoll_wait` that could return it again and
again returns it some day. The kernel's ready list is a queue, so what one batch has no
room for comes first in the next; without that a batch could leave out the same socket for ever.
A mutex under weak fairness: a thread that waits for `m_mutex` can be overtaken in
principle, and no property needs that it is not, as the instances put finitely often.

## What is proved

Every safety property of the runs that pass, but for `PartParsesOrThrows`, is a theorem of
`Spec` for every value of the constants, the types with it. What is assumed of them is in the
`ASSUME` of each module and
no more: that sets of threads, clients and sockets are finite (a program has finitely many
of each), that a value such as `NoSocket` is none of the real ones (`Throws` is no result of
a parsing function), that socket numbers are
numbers, and the sizes the bounds are about (as many `IO_DATA` as clients, a socket for every
posted accept, an epoll batch of at least one event). One theorem assumes more:
`AnswersOnlyWhatWasSent` of v3, that there is one worker, without which it is false. The
fairness plays no part.

| module | theorem | property |
|---|---|---|
| `ClassProofs` (SyncQueue) | `TypeCorrect`, `FrontAlwaysDefined`, `NoWakeupIsLost`, `Implementation` | `TypeOK`, `FrontIsDefined`, `NoLostWakeup`, `ImplementsFifo` |
| `ClassProofs` (RecvData) | `WhatWasSentIsCollected`, `OutcomeIsRight`, `CompleteOnlyAtTheEnd`, `PartsParseAlike` | `CollectedAsSent`, `RightOutcome`; the last two are about `isAllData` and `parseRawData` on a text and its parts |
| `LoggerProofs` | `LoggedOnceInOrder`, `FileAlwaysFollows`, `ExitLosesOneAtMost`, `LogUsesTheQueue` | `OnceInOrder`, `FileFollowsConsole`, `ExitLosesAtMostTheLast` (no run checks it), `Queue!Spec` |
| `PoolServerProofs` | `SocketsOwnedOnce`, `AnswersOnlyWhatWasSent`, `CurrentAlwaysExact`, `InFlightAlwaysExact`, `PoolUsesTheQueue` | `OwnedOnce`, `AnswersWhatWasSent`, `CurrentIsExact`, `InFlightIsExact` (no run checks it), `Queue!Spec` |
| `EpollServerProofs` | `NoEdgeIsLost`, `AnswersOnlyWhatWasSent`, `PoolUsesTheQueue` | `NoLostEdge`, `AnswersWhatWasSent` (one worker), `Queue!Spec` |
| `SelectServerProofs` | `AlwaysWatchedOrOwned`, `AnswersOnlyWhatWasSent`, `ListenAlwaysStaysWatched`, `PoolUsesTheQueue` | `WatchedOrOwned`, `AnswersWhatWasSent`, `ListenStaysWatched` (an action property), `Queue!Spec` |
| `ReactorProofs` | `AlwaysRegisteredOnce`, `AnswersOnlyWhatWasSent`, `SpareIsAlwaysThere` | `RegisteredOnce`, `AnswersWhatWasSent`, `SpareIsThere` |
| `DirectServerProofs` | `SocketsLeakByExceptionOnly`, `CountersAlwaysExact`, `FailedAcceptsStayCounted`, `EveryResponseRecordedOnce` | `LeakedOnlyByException`, `CountersAreExact`, `RecordedOnce`; `FailedAcceptsStayCounted` states what no run checks |
| `IocpServerProofs` | `IoDataAlwaysInOnePlace`, `SocketAlwaysItsOwn`, `NothingIsLostWithoutReason`, `NeverCountsTooFew`, `RepliesAreNeverReported` | `InOnePlace`, `SocketIsItsOwn`, `LostForAReason`; the last two state what no run checks, v4's counter and the branch that is never reached |

Each module has one inductive invariant, `IndInv`, a conjunction of named parts, one lemma
for each action (or group of actions that leave the same things alone), and the theorems at
its end. TLC has checked each `IndInv` on the instance of the run. Hardly any of the
properties is inductive alone, and what is added says why the code is right:

**SyncQueue.** `SafeInv`: the mutex is held by exactly the thread whose `pc` is one of the
locked steps (`MutexHeld`); a thread sleeps if and only if it is in `m_notEmpty`
(`WaitersWait`); a putter inside `put` has an element in `x` (`Argument`); a getter past
`pop_front` has an element or nothing in it (`Result`). With `MutexHeld` no second thread can
change the list between the test and `pop_front`. `NoLostWakeup` counts. A putter that pushes
adds an element and joins `Notifying`; its `notify_one` leaves `Notifying` and either moves a
sleeper to `Arriving` or finds nobody asleep, and then there is nothing to show; a getter that
goes to sleep does so under the mutex with an empty list; a getter that pops takes one element
and leaves `Arriving`. `Implementation` has one step lemma for putters and one for getters,
each of which maps every action to `Put`, `Get`, `Release` or a stutter.

**The queue and its users.** `Implementation` says that `SyncQueue` does what `FifoQueue`
promises; `PoolUsesTheQueue` (of v1_1, v2 and v3) and `LogUsesTheQueue` say that the modules
that work with an atomic queue take no other step with it than `FifoQueue` has: every step
of a whole server, or of the log with SIGINT and the exit, is a `Put`, a `Get`, a `Release` or
a stutter of its queue. So the atomic queue in those modules stands for the class.

**RecvData.** The invariant is the two properties together. A piece shorter than the buffer
and without a NUL comes out of `buf` as it went in, so `data` is the part of the text that was
received (`CollectedAsSent`). For `RightOutcome` one has to know what `isAllData` and
`parseRawData` make of a part of a text. Both go by `find`, so the lemma that carries the
proof is `FindInPart`: the first occurrence of a pattern in a part is the first one in the
text if that lies within the part, and otherwise there is none. `CompleteOnlyAtTheEnd`
and `PartsParseAlike` follow from it, the first for requests whose length field is where it
belongs (`IsRequest`). That `find` has a least position to return (`MinIsLeast`) rests on
inclusion being well-founded on the finite subsets of a set.

**Logger.** The proofs follow `Line`: a step leaves it as it is (`t_write` takes a message,
or prints the one it took) or appends the newest message of one thread. `Control` says that
one thread prints at a time, by `printLock` or by being `t_write`; `Signal` what the one
message is that SIGINT cut off, and that it can be in the queue only behind a mutex nobody
releases; `Writing` that what is being written to the file is the last on the console; and
`Exiting` what the thread knew when it saw the queue empty. The order inside `Line` gives
`ExitLosesAtMostTheLast`: in an empty queue's `Line` whatever is not on the console is the one
message in the hand of `t_write`, and nothing of the same thread is behind it.

**PoolServer, SelectServer.** `OwnedOnce` and `WatchedOrOwned` count the places of a socket.
The invariant has the same without counting (`Hands`): what is held is open, it is held once,
and what is open is held. The counters rest on it: a connection accepted is one more open
socket because its number was free, one closed is one less because its worker had it open.
`SelectServer` needs `Round` besides, the room there is in the set while a round lasts:
without it `FD_SET` could drop a connection without a word.

**AnswersWhatWasSent.** `ReadInv` is about clients where `Hands` is about numbers: a client is
in the listen queue once or behind one open socket (`OnePlace`); of a connection in the
queue, and of every open one that no worker is at, nothing has been received
(`NotReceivedYet`); and what a worker has collected is what is missing from the unread
(`Collected`). So a task begins with `data` empty and a request untouched, which is why what
it collects is that request from the beginning. In `Reactor` the part of the worker is
taken by the index of the loop, and a connection in `write_set` stays whole (`Whole`) through the
steps between its two handlers. In `EpollServer` nobody owns a number; but the one
worker closes the socket it received from before it takes another task, so that each task
finds its number closed, or with a connection of which nothing was received.

**EpollServer.** `NoLostEdge` is inductive with the types, of which two matter: the batch is
empty when `epoll_wait` is called again, and an idle worker has no task. It holds for every
`MAX_EVENTS`: what a batch has no room for is still on the ready list.

**Reactor.** `RegisteredOnce` and `SpareIsThere` need each other. `FD_SET` keeps a socket as
long as the set has room; that it has comes from counting the registered connections, which
are the open ones (`Registered`), and the spare numbers handed out (`SpareIsThere`). The types
include that while a handler runs, the loop's index is still the one of its socket (`Loops`).

**DirectServer.** That a leaked connection had no response is about clients, not numbers: a
client is in the listen queue once or at the end of one open socket (`OnePlace`), and a
socket a response was sent on is about to be closed (`AnsweredCloses`), so what an exception
leaves open was never answered. In v0 every open socket is held (`OpenIsHeld`). `Recorder`
orders the three numbers of `stat.txt`.

**IocpServer.** `Place`: an `IO_DATA` is in the kernel, or once at the port, or one worker
acts on it. It is inductive alone. `Owned` (no two pending `IO_DATA` have one socket, and it is
open or waits for a connection) rests on it. `Unsent`: what is in the kernel or at the port is
never a send, since a worker sets `SEND_FINISHED` on an `IO_DATA` it has taken out and never posts again; so
no worker reaches that branch. `BoundNext`: in v4_1 the only pending socket that is not bound is
the one the main thread is about to bind, so a receive that completes unbound is one of
`missed`. `Reasons` rests on all of these, and `Numbers` says what v4 counts.

## Only model-checked, and not modelled

Liveness (`TakenIfSomeoneWaits`, `PutIsPrinted`, `ExitEnds`, `EveryoneIsServed`, `ArrivedIsHandled`,
`AcceptedIsClosed`, `ClosedUnlessNoSpare`, `GoodIsAnswered`, `SentIsHandled`, `ReadToTheEnd`) is
checked by TLC and cannot be proved with the
installed provers, which know neither fairness nor `ENABLED`. `PartParsesOrThrows` says
that a part of a request throws or is parsed to what the request means, for the texts of
the instance, which `MCClasses` composes (`Render`) and so knows the `Meaning` of. What it rests on is proved for every text
(`PartsParseAlike`); that the composed texts are parsed to their `Meaning` needs induction on
the headers, which the provers cannot do. The
properties of the four runs that fail are not theorems, as they are false.

Not modelled, and why:

- `IOCPHttpResponse::httpSend`, which nothing calls, and the end of v4_1's main thread by its
  shutdown event;
- accept failing in v4 for want of a number, and `new`, `AcceptEx` or `socket` failing;
- v2_1: an older copy that does not compile against the current headers;
- v4_2 has only a README; `HttpConnection.h` is empty; `test.cpp` does not compile;
- the text of responses, log formatting, files, addresses, clocks, start-up
  (`createListenSocket`, `initWSA`): data or I/O that no property tells apart;
- an unsigned counter does not wrap in the models: it would go below zero, which
  `CurrentIsExact` rules out for v1_1, `CountersAreExact` for v0 and v1, and
  `NeverCountsTooFew` for v4;
- `select` reports urgent data only on sockets that also have ordinary data.

## Plan

1. Done: the queue, the log with `safeExit` and SIGINT, the pool, all the servers that compile, the statistics, and the
   receiving and parsing of requests.
2. Done: the safety properties of the queue, the log and all the servers, as theorems.
3. Done: what the receive loop collects and when it ends, for every text; that the servers answer
   what their clients sent; that pool and log use the queue as `FifoQueue` allows.
4. What is left: the liveness properties and `PartParsesOrThrows` for all texts, both beyond the
   provers; `AnswersWhatWasSent` of v3 needs a worker of its own for each socket, which the
   code does not have.
