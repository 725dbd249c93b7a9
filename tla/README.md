# A TLA+ model of East

East is a C++ server framework built on stackful coroutines: fibers are scheduled
on a pool of threads, blocking system calls are hooked so that they park the fiber
instead of the thread, and an epoll loop with timers puts parked fibers back to
work. This directory holds its specification: TLA+ modules translated from
`src/East`, TLC instances that check them, and TLAPS proofs. All paths below are
relative to `src/East` unless they start with `tla`.

## 1. The system

| Part | Its state | Its operations | How it meets the others |
|---|---|---|---|
| **Fiber** (`src/Fiber.cc`) | a stack, a function, a state INIT, HOLD, EXEC, READY, TERM, EXCEPT | `resume`, `yield`, `YieldToReady`, `YieldToHold`, `reset` | resumed by `Scheduler::run`; yields from hooks and from client code |
| **Scheduler** (`src/Scheduler.cc`) | `m_tasks`, thread counts, `m_stopping`, `m_autoStop`, the root fiber | `schedule` (one task, a batch), `start`, `stop`, `run`, `stopping`, `idle`, `tickle` | base class of IOManager; everything that wakes a fiber ends in `schedule` |
| **Timer, TimerManager** (`src/Timer.cc`) | an ordered set of timers, `m_tickled` | `addTimer`, `addConditionTimer`, `cancel`, `refresh`, `reset`, `getNextTimer`, `listExpiredCb` | base class of IOManager; `onTimerInsertAtFront` wakes a thread |
| **IOManager** (`src/IOManager.cc`) | a context per descriptor (awaited events and who waits), `m_pendingEventCount`, the epoll set, the pipe | `addEvent`, `removeEvent`, `cancelEvent`, `cancelAll`, `idle`, `tickle`, `stopping` | turns readiness and expired timers into scheduled tasks |
| **Hook, FdManager** (`src/Hook.cc`, `src/FdManager.cc`) | a context per socket (non-blocking flags, timeouts, closed) | `do_io`, `sleep`, `connect_with_timeout`, `close`, `fcntl`, ... | calls `addEvent` and `addConditionTimer`, then yields |
| **Thread and locks** (`src/Thread.cc`, `include/Mutex.h`) | pthread objects | start, join, lock | used everywhere |
| **Socket, Address, Stream** | a descriptor, addresses | system calls, loops over them | on top of the hooks |
| **TcpServer** (`src/TcpServer.cc`) | listening sockets, `m_stop` | `bind`, `start`, `startAccept`, `stop` | an accept loop per socket on an IOManager |
| **HTTP** (`http/`) | sessions, servlets, a pool of client connections | `recvRequest`, `handleClient`, dispatch, `getConnection` | on TcpServer and SocketStream; the parsers are generated by ragel |
| **ByteArray** (`src/ByteArray.cc`) | a list of blocks, position, size, capacity | reads and writes of integers, varints, strings | stand-alone |
| **Config, Env, Logging, Daemon, utilities** | tables, appenders | start-up and output | everywhere |

What is hard here is the concurrency of the first five rows. A fiber that parks
registers its wake-up (an event, a timer) and only then yields, so it may be
scheduled while it still runs. Counters that decide when threads may exit are
changed at many places. Wake-ups through the pipe are skipped when no thread looks
idle. epoll reports what was true before the lock of a context was taken. `stop()`
runs against all of it. A unit test sees one interleaving of these; `tests/` start
a scheduler, submit a few tasks and look at the log.

What makes each part correct:

* Scheduler: a fiber is on one thread at a time; a submitted task is executed, once
  per submission; the active count is exact; `stop()` returns, and only after the
  work is done; no assertion of Fiber fails.
* Timers: a callback runs once for each period that has passed, neither early nor twice;
  a timer has a callback exactly while it is set; a sleeping thread learns of a nearer timer.
* IOManager: every wait ends with the waiter scheduled once; the count of waits is
  exact; context, waiter and the kernel's interest agree; threads exit when, and
  only when, nothing is left to do.
* Hook: a fiber that yielded in a call is registered, and with whom it thinks; timers
  end with their calls; the table of descriptors speaks of the present owner of a
  number; a wait with a timeout ends.
* TcpServer: `stop()` ends the accept loop, and no number is closed twice, in whatever
  order it is started and stopped.
* HttpConnectionPool: a connection has one user; the count is that of the connections
  there are; the limit is passed by less than the number of clients.
* HttpSession: however the network cuts the bytes, a request is answered, its body is in
  place and inside its string, and the next request is looked for where it begins.
* ByteArray: whatever blocks the bytes are on, they are one text with a position;
  integers are read back as written.

`PROJECT.json` lists the parts under `components` and the hazards with their source
lines under `hazards`.

## 2. The modules

| Module | Models | Lines of code it follows |
|---|---|---|
| `TaskPool` | what a scheduler promises: jobs that are accepted, begun by one thread, ended, parked and woken, and a close that comes when none is ready or running | documentation of `include/Scheduler.h:84-132` |
| `Scheduler` | `Scheduler` and the states of `Fiber` | `src/Scheduler.cc:55-420`, `include/Scheduler.h:99-303`, `src/Fiber.cc:114-241` |
| `EventPool` | what an IOManager promises: jobs in line, on a thread, waiting for an event or asleep, and in line again when the wait ends | |
| `Alarms` | what a TimerManager promises: alarms with a start and a period, collected when the period is over and handed on once | documentation of `include/Timer.h:60-76` |
| `Timers` | the set of timers and every operation on it | `src/Timer.cc` |
| `TimerLoop` | `Timers` composed with the threads in `idle()`, the pipe and the clock | `src/IOManager.cc:478-634`, `652-654` |
| `IOManager` | events, timers and tasks of an IOManager, its `idle()`, `stopping()` and epoll | `src/IOManager.cc:62-655` |
| `Hook` | the hooked calls, the table of descriptors, and the kernel's descriptors | `src/Hook.cc:66-553`, `src/FdManager.cc:28-110` |
| `TcpServer` | `Hook` composed with the server: bind, accept loop, handlers, stop | `src/TcpServer.cc:86-200`, `src/Socket.cc:86-231` |
| `ConnectionPool` | the pool of HTTP connections | `http/HttpConnection.cc:285-347`, `393-497` |
| `HttpSession` | `recvRequest()` over pieces of any size, under the loop of `handleClient()` | `http/HttpSession.cc:13-69`, `http/HttpServer.cc:22-41`, `http/HttpParser.cc:180-194`, `src/Stream.cc:12-25` |
| `Varint` | variable-length integers and zigzag, as operators | `src/ByteArray.cc:78-113`, `216-265`, `427-478` |
| `Tape` | what a ByteArray promises: a text with a position | |
| `ByteArray` | the list of blocks and every operation on it, and the socket transfers | `src/ByteArray.cc:46-53`, `567-1046`, `src/SocketStream.cc:27-57` |
| `SchedulerProofs`, `TimerProofs`, `IOProofs`, `ServerProofs`, `PoolProofs`, `ByteArrayProofs`, `SessionProofs` | theorems and proofs, one module per component | |
| `OrderLemmas` | that a non-empty set of numbers has a least element, and from it induction over the members of a set | |
| `MCScheduler`, `MCTimerLoop`, `MCIOManager`, `MCServer`, `MCHttp` | instances for TLC | |

### Scheduler

`pc` is a thread's place in `run()`: *off* (not started), *scan* (at the top of the
loop), *idle*, *dispatch* (a task taken, not resumed), *run* (inside `resume()`),
*dec* (back, `m_activeThreadCount` not yet decremented), *settle* (decremented, the
state not yet looked at), *exited*, and *abort* for a failed assertion. The scan of
`m_tasks` is one step because it is one critical section; `resume()`, the decrement
and the settling are separate steps because they are outside of it.

| Action | Code |
|---|---|
| `Submit`, `SubmitBatch`, `SubmitFinished` | `schedule()` from outside or from a running job, also of a finished fiber |
| `TakeTask`, `FindNothing` | the scan: first task bound to no other thread whose fiber is not EXEC |
| `Resume`, `DropFinished`, `Deactivate` | `resume()`, the branch of a finished fiber, `--m_activeThreadCount` |
| `SettleReady`, `SettleFinished`, `SettleHold` | put back, reset, or HOLD, for fibers and for functions |
| `Return`, `Throw`, `YieldToReady`, `Arm`, `YieldToHold`, `Wake` | what a body does: end, yield, register a wake-up and park; the wake-up |
| `Idle` | one turn of the base `idle()` |
| `Start`, `StopCall` ... `StopReturn` | `start()`; `stop()` in the order of its statements |

The client follows the protocol of the hooks: before `YieldToHold` it arms one
source that will schedule it once. A fiber that parks with no source is a client
error and is not generated.

### Timers and TimerLoop

A timer is a number; order is by time and then by number, as the comparator orders
by time and then by address. A client inserts, cancels, refreshes and resets; when
an insertion is at the front and `m_tickled` was clear, it calls
`onTimerInsertAtFront()` as a step of its own after the lock is released. A thread of
`TimerLoop` goes round: enter idle, ask `getNextTimer` and sleep, wake by the pipe
or the timeout, `listExpiredCb`, drain the pipe, yield. `EnterIdle` is the moment
the thread counts as idle; `Tickle` writes only if one does. The clock (`Tick`)
advances when nobody has anything to do. This makes processing instantaneous: the
lateness that remains is that of a thread which sleeps too long, which is what the
properties are about.

`cbs` is the local vector of `idle()`: `Expire` (`listExpiredCb`) fills it with the
callbacks of the timers that are due, `Drain` hands them to `schedule()`. The module
implements `Alarms`, which knows no order of timers, no `m_tickled` and no pipe. There an
alarm has a *start* and a period; here the start is `exec - period`, and what a server has
collected is `cbs`. So a `reset()` that computes a wrong time, a recurring timer that is
put back without its time moved on, or a callback handed on twice is no step of `Alarms`.

### IOManager

A job is in the queue, on a thread, in a context, in a timer, or in the batch of
expired timers a thread is about to schedule. Operations on a descriptor's context
are one step each, since each holds the context's mutex. `EpollWait` takes a
snapshot, `ProcessEvent` treats one event of it later, under the mutex; everything
may happen in between. Where both events of a context are triggered, their waiters are
scheduled in one step, READ first, though another task may slip in between the two
calls of `schedule()`. `AskTimers`, `AskEvents` and `AskTasks` are the three
readings of `stopping()`. `Schedule` calls `tickle()` if the queue was empty, and
`Tickle` writes to the pipe only if some thread is counted as idle.

epoll is external and modelled from its use: `interest` is the set of events a
descriptor is registered for, `edge` says that it is in the ready list. `EpollCtl`
puts it there if it is ready at once, new readiness does, `EpollWait` empties the
list. An error is reported whatever was asked for.

`IOManager` abstracts what the other two modules have in detail: tasks carry no
thread_id, a fiber that waits leaves its thread in the step that registers it (the
early wake-up is `Scheduler`'s subject), and a timer may come due at any moment
(times are `TimerLoop`'s subject).

It implements `EventPool`, which has no epoll, pipe, idle threads or counters. `line` is
`m_tasks`, `doing` the job a thread resumes, `waits` the waiters in the contexts, and a
job is `asleep` while its timer is in the set or its expired callback is in the hands of
a thread. `triggerEvent()`, from a report or from a cancel, and the scheduling of a batch
of callbacks are its `Awaken`; `removeEvent()` is its `Forget`; the rest of `idle()` is
nothing to a client.

### Hook and TcpServer

A fiber's `pc` follows `do_io()`: *body* (outside of a call), *try* (at the label
`retry`), *arm* (EAGAIN, timer not yet added), *add* (before `addEvent()`), *parked*,
*woken* (in the task queue), *asleep* in `sleep()`; and `close()`: *body*, *delete*
(after `cancelAll()`), *shut* (after `deleteFd()`), *idle*. The acceptor is also at *call*:
the loop of `startAccept()` has seen that `m_isStop` is not set and has not yet called
`accept()`. A fiber that holds a thread
is in `Running`; there are at most `threads` of them and of callbacks together.

| Action | Code |
|---|---|
| `Transfer`, `Connect`, `Accept` | the beginning of a call: hooked, managed, blocking for the user; the timeout is read once |
| `TryEnds`, `TryAgain` | the original function: a result, or EAGAIN / EINPROGRESS |
| `Arm`, `Add`, `AddFails` | `addConditionTimer()`, `addEvent()`, and its failure |
| `Check` | the fiber runs again: cancel the timer, look at `cancelled`, retry |
| `Expire`, `TimeOut`, `CancelEvent` | the callback is collected, sets `cancelled`, calls `cancelEvent()` |
| `Deliver` | `idle()` triggers an awaited event |
| `Socket`, `SetMode`, `SetTimeout`, `CancelAll`, `DeleteFd`, `CloseFd` | `socket()`, `fcntl()`/`ioctl()`, `setsockopt()`, the three parts of `close()` |
| `Bind`, `Start`, `StartNothing`, `Stop` | `bind()`; `start()` with a socket and without; `stop()`, which schedules a function |
| `LoopOn`, `Accept`, `Accepted`, `AcceptFull`, `AcceptFails`, `LeaveLoop` | the accept loop: the flag is looked at, `accept()` is called, gives a connection, finds no number, fails on a closed socket; the loop ends |
| `Dispatch`, `CancelSock`, `CloseNothing`, `ClearSocks` | the task queue; the function `stop()` has scheduled |

What is left to nondeterminism: the kernel may have or not have a result at each try,
an event may come whenever it is awaited, a timer may come due at any time. A call on
a descriptor that is unmanaged, or that the user made non-blocking, changes nothing
here and is no step. The client keeps to its own descriptor: a user fiber opens one
socket (or is given one by `accept()`), uses it, closes it. `start()` and `stop()` come in
any order, `start()` also between a `stop()` and the function it has scheduled, as the code
allows; but there is one fiber for the accept loop and one for that function, so each is
begun again only when it has ended. Both IOManagers of the server are one.

Between `deleteFd()` and `close_f()` of a hooked `close()` the number is open and no longer
in the table. An `accept()` that is called then is not hooked and still finds the listening
socket: `Accepted` from *call*. The creation of a descriptor and of its entry in the table
(`socket_f()` or `accept_f()`, then `getFd(fd, true)`) is one step, `Opened`: until the hook
returns nobody else knows the number, the kernel does not hand it out again, and its slot
in the table was emptied before it was closed, so no step of another fiber can tell.

`ioctl(FIONBIO, 0)` is excluded by the constant `Modes`: the code hands it to the
kernel, which clears O_NONBLOCK, while the table keeps `isSysNonBlock()`; with it
`TableMatchesKernel` does not hold and a hooked call blocks its thread.

### ConnectionPool

A client is *idle*, has *scanned* the list (lock given up, bad connections still to
delete), is *connecting*, *using* a connection, or has *freed* one (deleted, not yet
counted down). The scan removes two connections for every bad one, as the code does
(`pop_front()` at 296 and again at 300 or 305): `Looked` are those at odd places, and an
empty list at the second `pop_front()` sets `crashed`. The connections removed unseen
stay `alive` and counted for ever, which is why `TotalExact` speaks of all connections
there are and not of those in use.

### ByteArray

Node `k` is the k-th block; `cur` is a number or `NULL`. Every operation is given the
node the code starts at (`m_cur`) and not the one the offset says, so that a wrong
`m_cur` shows. An operation that follows the last block's `next` sets `fault`, and the
run of the program ends there. There are three ways:

* *list*: bytes are left to move and the blocks are at an end. `StaysInList` says that it
  does not happen, whatever was called before.
* *seek*: `setOffset(capacity)` reads `m_cur->size` after the last block
  (`src/ByteArray.cc:731`), directly, or at the end of a socket transfer that fills all
  blocks or reads the last byte of them. It does happen, in one step.
* *null*: `read()` computes what is left of the current block before its loop
  (`src/ByteArray.cc:639`), also for no bytes; `write()` returns early for those. At the
  end of the capacity `m_cur` is `NULL`, so it does happen, for instance with an empty string
  that ends there.

`ReadAt` is `read(buf, size, offset)`. It takes the place in the block from `offset` and
the block from the position, so it is right only where the two are in one block; otherwise
it hands out other bytes, or passes by the end of the list. `Elsewhere` are the offsets it
is called with besides the position itself. In the run, and where `StaysInList`, the
refinement and `ValuesReadBack` are proved, it is empty.

The constructor sets `m_size` to the first block's
size, so unwritten bytes (`Junk`) count as readable; `Text` includes them.

### HttpSession

`at` is the handler's place: *recv* and *body* (in a `read()`), *handle* (in the servlet),
*closed*, and *overrun* once a byte of a body was written beyond its string. The bytes of a request are numbered, so a body is right when byte `k` of it has
number `head + k`; of the bytes in the socket their number is enough, and how many of them
are `stale`, left over from a request that was answered.

| Action | Code |
|---|---|
| `Parse` | one turn of the loop: `read()`, `execute()`, and `Finish` after the end of the header |
| `Misparse` | a turn in which a byte does not fit |
| `Finish` | the sizes and the first part of the body (48-69), with `AfterHeader` and `Copied` |
| `ReadBody`, `ReadFails`, `ReadEnd` | a `read()` of `readFixSize()`; one that fails or finds the end |
| `Respond` | servlet, `sendResponse()`, and the next turn or the end of `handleClient()` |
| `SendRequest`, `HangUp` | the peer |

The parser is generated and appears by its effects. `execute()` clears `mark` and moves the
rest of the buffer over the bytes it has consumed (`http/HttpParser.cc:180-186`), so a field
that two reads cut in two loses its first part; `cut` is the place at which this happens to
Content-Length, and after such a read (`torn`) any shorter length may come out. `hasError()`
wants both an error set by a callback and a failed automaton, and `isFinished()` is -1 for a
failed one, which ends the loop like 1 does: `Misparse` therefore either closes or hands a
half-read request to the servlet. Both set `garbled`. Three things the code does are in the
model as they are:

* `std::string body(' ', body_len)` (line 50) makes 32 characters (`StrLen`), whatever the
  length of the body is. Bodies of any length are sent: one that is longer is written past
  the string by `memcpy` (55) or by `readFixSize()` (63). What the program does then is not
  defined, and the behaviour ends in *overrun*. `OnlyLongBodiesOverrun` says exactly when.
* A body that has come whole with the header never reaches the servlet: `len` is 0, and
  `setBody()` (67) is called only if something was still to be read. Any other comes with the rest of
  the 32 characters (`Filler`). `BodyInPlace` says exactly what the servlet gets.
* Bytes behind the body in the local buffer are lost with it. The peer of the model does
  not pipeline; one that does would lose its second request.

## 3. The runs

| Run | Instance | What it shows |
|---|---|---|
| `sched_safety` | crews {w1,w2}, {w1}+caller, caller alone; two fibers and a function, one fiber bound to w1, one submitted by a running job; bodies may throw | types, `FiberExclusive`, `OneWayOn`, `NothingLost`, `ActiveExact`, `StopDrains`, `OnlyThrowsAbort`, and that `Scheduler` implements `TaskPool` |
| `sched_live` | the same crews, jobs bound to w1 and to the caller; functions do not throw | `EveryTaskTaken`, `StopReturns` |
| `sched_spawn_pinned` | a running job submits a task for the other worker | `StopDrains` is violated |
| `timer_loop` | two timers, a client, two threads, periods 1 and 4, times to 4 | `CallbackIffArmed`, `LateByIdleSleep`, and that `TimerLoop` implements `Alarms` |
| `timer_front` | the same, with an idle sleep of 2 | `FrontTimerWakes` is violated |
| `io_safety` | two threads, three jobs, a socket read and written, errors possible | `PendingExact`, `ContextInSync`, `OnePlace`, `WaitEndsScheduled`, and that `IOManager` implements `EventPool` |
| `io_live` | two threads, two jobs that wait, read and write, no errors and no cancels | `EveryTaskTaken`, `ReadyWaiterWoken`, `ThreadsExit` |
| `io_trigger` | as `io_safety`, without errors | `TriggersAwaited` is violated |
| `io_exit` | two threads, two jobs | `ExitDrains` is violated |
| `server` | one thread or two; the acceptor, `stop()`'s function and a user fiber; two descriptors | `ParkedIsRegistered`, `TimersEndWithCalls`, `TableMatchesKernel`, `OwnedOnce`, `WaitsCanEnd`, `TimedWaitEnds`, `AcceptLoopEnds` |
| `http` | a ByteArray of up to three blocks of two bytes, integers of 3 bits in groups of 2, a text of four bytes; or a pool of size 1 with three clients and three connections of two requests; or a session with a buffer of 5 bytes, a string of 3, headers of 2 and 3, bodies of 0, 1, 3 and 4 | `CurHoldsOffset`, `StaysInList`, `ValuesReadBack`, that `ByteArray` implements `Tape`; `OneHolder`, `TotalExact`, `LimitSlack`; `StartsAtRequest`, `BodyInPlace`, `OnlyLongBodiesOverrun`, `RequestAnswered` |
| `session_long_body` | the session of `http` alone | `BodyFits` is violated |

`http` checks three components that share no state: a behaviour is one of the buffer, of
the pool or of the session (`MCHttp`), so its states are the sum and not the product. With one
thread the server of `server` is started and stopped in any order; with two, which have many
more states, `start()` and `stop()` take turns, each after the other has taken effect
(`MCServer`); the proofs do not have this restriction.
The type invariants of `TimerLoop`, `IOManager`, `ByteArray`, the pool and the session are proved, and no
run repeats them.

Each property of a passing run has a mutant in `PROJECT.json`: a definition of the
model (an operator marked *Slip* in its comment) that changes the code the way a
plausible mistake would, under which TLC finds the property violated.

**Bounds.** Two threads are enough for every race of the code, whose critical
sections involve the thread and *the others*; three jobs give one running, one
queued and one parked. One descriptor with both events has all interactions of
contexts: those of different descriptors share only the count and the queue, and
the proofs hold for any number. Two timers give a front and one behind it; period 4
exceeds `MaxSleep` 3, period 1 does not, and `IdleSleep` 1 is shorter than
`MaxSleep`, as 256 ms is than 3000 ms (in `timer_front` it is 2, longer than the short
period, so that such a sleep can miss a timer). `MaxTime` bounds the clock only.
Two descriptors are the listening socket and one connection, so that numbers are used
again after every close and EMFILE happens; the third fiber can then be the handler of
a connection or own a socket while the first two race. Three connections allow a good
one behind a bad one and one dropped unseen; three clients are one that connects, one
that uses and one that scans. Blocks of two bytes make every integer of two groups
cross a block boundary at odd offsets, and a text of four bytes spans three blocks. A
buffer of 5 holds a header with all, some or none of its body, and a header of 3 can be
cut at two places. Bodies of 0, 1 and 3 are none, one that fits the string and one that
fills it; one of 4 overruns it, from the buffer or from the socket. `MaxInbox` 8 is more than
the longest request (7), so that bytes of an answered one can lie before the next. Symmetry is
used in safety runs on threads that are interchangeable and, in `io_safety`, on jobs.
Deadlock is not checked: a stopped system, or one whose clock has reached its bound,
really stops.

**Fairness.** Weak fairness of each thread's steps (the operating system runs every
thread, and `epoll_wait` returns: it is given at most 3 seconds), of the end or next
yield of every running body, of `start()`/`stop()` once begun, and in `IOManager` of
timers coming due. Nothing is assumed of clients or of the network. `StopReturns`
presupposes that bodies end. `ReadyWaiterWoken` presupposes that threads come back to
`epoll_wait` (`PollsAgain`), because a queue that is never empty keeps them all from
it; this is how the code is (`idle()` runs only when the scan finds nothing), and is
listed as a hazard. `io_live` uses its own next-state relation, a workload in which
nobody removes another's wait: with it, a wake-up could always be overtaken by a
cancellation.

In `server`: threads go on with what they run, the task queue is served in turn (the
scan takes the first eligible task: strong fairness of `Dispatch` and `Resume`), timers
come due. Of the users it is assumed that handlers end, and that connections pause now
and then; a fiber whose call never has to wait never gives up its thread, and with one
thread neither `stop()`'s function nor any timer would run. This is how the code is. An
accept loop whose socket is closed under it is such a fiber too (`Spins`, see
below), and no fairness of the threads helps against it.

In `http`, for the session: a `read()` with bytes in the socket, or after the end, returns,
and servlets return. The peer need do nothing.

**What the properties do not promise.** Some are stated for one thread, or
with an exception, because the code does not give more:

* `TimedWaitEnds`: with two threads the callback of an earlier try, collected before
  `cancel()`, may set `cancelled` after the fiber has checked it and gone back to
  `retry`. The callback of the next timer finds `cancelled` set and returns, so that
  wait has no timeout any more (`src/Hook.cc:118-161`). Nor does it end if the one thread is
  taken by an accept loop that spins on a closed socket (`Spins`). That happens after `stop()`
  and a `start()` that comes before the function `stop()` has scheduled: `start()` clears
  `m_isStop`, the function closes the sockets all the same, the loop sees no flag, `accept()`
  fails with EBADF at once, and the loop calls it again for ever (`src/TcpServer.cc:129-163`,
  `188-200`). The comment at `src/TcpServer.cc:145` says that all accept loops end.
* `WaitsCanEnd`: `close()` in another thread wakes the acceptor by `cancelAll()`; it may
  try again and register before `close_f()`, and the kernel then drops the descriptor
  from epoll without an event (`src/Hook.cc:409-423`).
* `AcceptLoopEnds`: the accept loop retries with the number it was called with. If a new
  listening socket got the number by then, it waits there, also with one thread
  (`src/Hook.cc:164`). It speaks of a server that stays stopped: a `start()` takes it back.
* `TotalExact` counts the connections there are, also those that were dropped from the list
  unseen and will never be used again.
* `OnlyThrowsAbort`: one assertion does fail. `MainFunc` catches the exception of a function
  and sets EXCEPT; `run()` then resets the callback fiber, and `reset()` asserts INIT or TERM
  (`src/Fiber.cc:116`, `src/Scheduler.cc:329-331`). The process is gone then; in the model only
  the thread is.
* `BodyInPlace`: the servlet gets no body if all of it came with the header, and a padded one
  otherwise (`http/HttpSession.cc:50-68`), although `README.md:455` of the repository speaks
  of a complete HTTP/1.1.
* The properties of a session end with the first request that is `garbled`: after a lost
  Content-Length the body is taken for the next request, or the servlet gets a request
  without its end (`http/HttpParser.cc:180-194`).

**What the violations say.**

* `sched_spawn_pinned`: a worker exits as soon as the queue is empty and no task is
  active. A task that a running job then schedules *for that worker* stays in
  `m_tasks`; `stop()` joins the rest and returns. The documentation of `stop()`
  promises that all tasks complete.
* `timer_front`: add a front timer (`m_tickled` set), cancel it, let a thread call
  `getNextTimer()` with no timer left: it returns before it clears `m_tickled`. The
  next front insertion wakes nobody. `LateByIdleSleep` bounds the harm: a thread that
  saw no timer sleeps for 256 ms only.
* `io_trigger`: see `src/IOManager.cc:580-620`: the awaited events are tested with
  "any of", then all reported ones are triggered.
* `io_exit`: while one thread, whose idle fiber has already returned, still takes a
  task, another reads "no timers", then "no events"; the task parks on a timer; the
  other reads "no tasks, none active" and ends too.
* `session_long_body`: a well-formed request with a body that is longer than the string. The
  body is written beyond its end, by `memcpy` or by `readFixSize()`, whatever its length; the
  limit of 6 MiB the configuration describes is compared with nothing.

## 4. The proofs

TLAPS checks these for every value of the constants, under the named assumptions of
the modules (finite sets of workers, jobs, uses, clients and connections; model values
outside the sets).

* **`SchedulerProofs`**: `TypeCorrect`, `Exclusive`, `SingleWay`, `Kept`,
  `CountExact`, `OnlyThrows`, `NoAbort` if functions do not throw, and the refinement
  `Implements`. They come from one inductive
  invariant (`Inductive`). The properties are not inductive by themselves: that two
  threads do not hold the same fiber needs that a queued fiber which is not EXEC is
  held by nobody, which needs to know at which `pc` a thread holds which state, which
  needs that no job is queued twice or both queued and armed. `NoAbort` adds that a
  fiber about to be resumed is not EXEC. `Implements` says that the scheduler implements
  `TaskPool` in every behaviour in which `StopDrains` holds, which depends on the
  workload (`sched_spawn_pinned`); everything but the step to *closed* is proved without
  that hypothesis. It adds `CloseInv`: without workers nothing runs before the root fiber
  does, and after `stop()` has returned no thread runs and nobody outside submits. Each
  step of the code is shown to be a step of `TaskPool` (`Begins`, `Ends`, `Awakes`,
  `Accepts`, `Closes`) or a stutter, by what it does to where a job is and to its state.
  `Drains` is `StopDrains` under `SpawnedFree`: running jobs submit tasks for any thread
  only, and tasks bound to a thread come from outside. This is the complement of
  `sched_spawn_pinned`, and with it `ImplementsFree` is the refinement without the
  hypothesis on behaviours. `DrainInv` is the argument: once an idle fiber has returned,
  every entry of the queue is for any thread (`FreeInv`); a thread that scanned such a
  queue and took nothing saw only fibers that are EXEC, which are in another thread's
  hands; so the thread that goes last has found the queue empty.
* **`TimerProofs`**: `TimerTypeCorrect`, `Armed`, the refinement `IsAlarms`, and `Late`. The type invariant keeps
  `exec[t] >= period[t]`, so that the subtraction of `reset()` stays in the natural
  numbers; what it needs beside it is who owns a timer between its construction and
  its insertion, when it has a callback and is in no set (`OwnersInv`). `getNextTimer` and `NextTimeout` take the front of the set with CHOOSE,
  and the lemma `FrontExists` shows that a non-empty set has one. `Late`
  (`LateByIdleSleep`, if there is a thread at all) rests on `LateInv`: while `m_tickled` is
  set, and an insertion is silent, the loop is `Alert` (a thread is awake, a tickle is on
  its way, or a thread sleeps since there were no timers and only for `IdleSleep`); when it
  is not alert, every timer has a sleeper that wakes in time for it (`Covered`). That a
  timer's start is never in the future (`StartInv`) is what makes `refresh()`, which
  bypasses `addTimer()`, harmless. `IsAlarms` maps each operation to one of `Alarms` or a
  stutter (`AlarmStep`). It rests on `AlarmInv`: `StartInv`, since a start in the future would
  be moved back by `refresh()`, and `HandInv`, that a thread has callbacks in hand only between
  `listExpiredCb()` and `schedule()`, so that what is handed on is what was collected. So the lateness the run `timer_front` finds is bounded
  by `IdleSleep` for every number of threads and timers.
* **`IOProofs`**: `InSync`, `CountOfWaits`, `IOTypeCorrect`, `Woken` and `Placed`. `IOInv` is
  `ContextInSync` with the types, the fact that only events in use are awaited, and
  that a running thread has a job. Two lemmas say what a context is after a
  registration (`RegisterContext`) and after events left it, by any of the five ways
  (`DropContext`). The count follows from the cardinality of what was added or taken
  (`CountRegister`, `CountDrop`); `Woken` from the fact that `triggerEvent` puts every
  waiter it takes into the queue (`TriggerSchedules`), in which the order of READ and
  WRITE does not matter. `Placed` is `OnePlace`, a sum of cardinalities, from
  `PlaceInv`, which says it place by place: none holds a job twice (`Apart`), no two hold
  the same (`Alone`). Each step moves jobs from one place to another: a context to the
  queue (`PlacesTriggered`), a thread to a context or the timers (`PlacesRegistered`,
  `LeftThread`), the timers to a batch to the queue. `IsEventPool` is the refinement. It
  needs `PlaceInv`, because `Awaken` takes a waiter out of all that waits and puts it in
  line once, and `HandsInv`: a thread has a job in `run()` only, and callbacks only
  between `listExpiredCb()` and `schedule()`, so that taking the expired timers from the
  set changes nothing for a client. `triggerEvent()` schedules the list of those who
  waited for its events, each once (`TriggerList`), and those are nowhere else
  (`WaitersAlone`).
  `OneThreadTriggers` and `OneThreadDrains` say that the violations of `io_trigger` and
  `io_exit` need a second thread. With one, and no error of a descriptor, what
  `epoll_wait` reported is still awaited when it is processed (`ReportInv`), because only
  a job or the processing itself could change it; and an answer that `stopping()` has been
  given still holds at its next question (`AnswersInv`).

* **`ServerProofs`**: `ServerTypeCorrect`, `Registered`, `NoStrayTimer`, `ClosedOnce`,
  `HandlersCanBeWoken`, `WaitsEnd`, and `TableAgrees` when `ioctl(FIONBIO, 0)` is not among `Modes`.
  `ServerInv` adds what a fiber can have at each step (a call from *try* to *parked*,
  nothing outside; a sleeping fiber has its timer or its callback, not both) and what the
  three roles do: the acceptor owns nothing; `stop()`'s function owns the listening socket from
  `bind()` until it has closed it, and there is none (`sock = NoFd`) only while that function is
  idle or not yet begun; a user calls only on its own descriptor. That last fact makes a
  number safe against a second close, and keeps a handler's descriptor in epoll while it
  waits. The acceptor has no such protection, which is the exception of `WaitsCanEnd`; with
  one thread `WaitsEnd` covers it too. At most one fiber is then between two yields
  (`AloneInv`, from the sum in the guard `ThreadFree`); so nothing comes between the
  `cancelAll()` and the `close_f()` of `close()`, nor between a try and its `addEvent()`,
  and nobody is about to close the number the acceptor waits on (`AcceptorInv`).
* **`PoolProofs`**: `PoolTypeCorrect`, `HeldOnce`, `CountOfConnections`, `Slack` and
  `RequestsLimited`. What needs strengthening: a client has a connection exactly while it
  uses one, and some to delete only after a scan (`StageInv`); and `LimitSlack` is not
  inductive, since each client that is connecting will add one: `RoomInv` counts them
  (`total + |Connecting| <= MaxSize + |Clients| - 1`), which holds because who begins to
  connect has seen room. `TotalExact` is arithmetic over the cardinalities of disjoint
  parts of `alive`; the lemma `Scan` covers every way the loop of `getConnection()` can
  leave the list.
* **`ByteArrayProofs`**: `ArrayTypeCorrect` and `CurrentNode` for any `Elsewhere`; `InList`, the
  refinement `IsTape` and `ReadBack` if it is empty; and `ZigZagInverse`. Position and node are related by division with remainder
  (`DivUnique`, `Further`): i bytes from where the offset falls is where offset + i falls.
  `Grows` says that `addCapacity()` makes enough room, `Reached` that the loops stay in the
  list, `StoredAt` and `LoadedText` that bytes over node boundaries are a section of
  `Text`. Each operation is then one of `Tape` or a stutter. `VarintInverse` says of the
  loops of the varints that decoding takes the bytes that were written and gives the
  value, for any width and any bits per group: after i bytes the sum is the value's
  remainder by `Base^i` (`SumsMakeUp`), and the loop ends at the byte without the
  continuation bit, which is the last one written (`TakesGroups`). With the written bytes
  found in `Text` again (`PutText`, `WrittenReads`) this gives `ReadBack`. The recursions
  are functions on numbers, and the induction over them is the lemma `Inductive` of
  `OrderLemmas`: a set of numbers with 0 that is closed under successor is all of them,
  from the least counterexample. The theorems have the hypothesis `Powers`, six facts of
  2^Width and of the base of the groups: they are true of every Width and Group of the
  assumptions, but `^` is opaque to the provers.
* **`SessionProofs`**: `SessionTypeCorrect`, `InStep`, `Assembled` and `Overrun`, for bodies of any
  length. `BytesInv` accounts
  for every byte of a request that is not garbled: what the parser has seen and what is in
  the socket make up the request while the header is read; what `readFixSize()` still wants
  is exactly what is in the socket, and what is in place is the rest. So nothing is left
  over when the request is handed to the servlet, and `place` is beyond the string only if the
  body is longer than it.

Only model-checked: the liveness properties (`EveryTaskTaken`, `StopReturns`,
`ReadyWaiterWoken`, `ThreadsExit`, `TimedWaitEnds`, `AcceptLoopEnds`, `RequestAnswered`),
because the prover does neither fairness nor ENABLED. Every invariant, action property
and refinement of a passing run is proved. What a run finds violated has its complement
among the theorems, with the hypothesis that excludes the violation: `Drains` for
`sched_spawn_pinned`, `Late` for `timer_front`,
`OneThreadTriggers` for `io_trigger`, `OneThreadDrains` for `io_exit`, `Overrun` for
`session_long_body`.

## 5. What is left out, and why

* **Memory**: stacks, contexts, reference counts, and the fiber pointers that keep an
  object alive. A fiber object and its job are one thing in the models.
* **Torn reads and weak memory**: `m_autoStop` and `m_stopping` are written without
  the lock and read under it; the models write each at a step of its own.
* **Restart** of a stopped scheduler, and `thread_id`s after the first turn of a job
  (the code forgets them; so do the models).
* Of the hooks: calls that go straight to the kernel, descriptors that are no sockets,
  the growth of FdManager's table and its look-up under two locks
  (`src/FdManager.cc:66-99`), EINTR (a loop).
* Of the server: several addresses, a failing bind, two IOManagers, a second accept loop or a
  second function of `stop()` beside one that has not ended.
* Of ByteArray: byte order and floats, the strings (a length and the bytes), and
  `getReadableBuffers(buffers, len, offset)` for an offset other than the position.
* Of HTTP: `recvResponse()`, whose branch for a Content-Length has the shape of
  `recvRequest()` and whose branch for chunks depends on the generated automaton (it does
  not skip the line end behind a chunk, and takes a failed parser for a finished one);
  `sendResponse()` and `sendRequest()`; the tables of servlets; pipelining.
* **`detectClockRollover`** and clocks that step; the conditions of condition timers.
* **`SafeContextResize`** and the table of contexts: contexts exist on demand in
  `IOManager`. Two concurrent growths can shrink the table (hazard at
  `src/IOManager.cc:434`).
* **Failures of `epoll_ctl`**, `write` to the pipe, allocation.
* The cast of the timeout to `int` (`src/IOManager.cc:520`).
* Parsers, formatting, logging, configuration: text handling without interleavings. The
  three ragel automata alone (requests, responses, URIs) are some thirty thousand of the
  lines under `src/East`, generated from grammars of 800 lines.

## 6. Plan

Done: `Scheduler`, `TaskPool`, `Timers`, `TimerLoop`, `Alarms`, `IOManager`, `EventPool`; `Hook`, `TcpServer`,
`ConnectionPool`, `HttpSession`, `ByteArray`, `Varint`, `Tape`; the proofs of section 4.

Open, most important first:

1. `FdTable`: `addEvent`'s lookup and `SafeContextResize` under the read-write lock, and
   `FdManager::getFd`; property: a context once found is never lost.
2. `Scheduler`: restart after stop.
3. Proofs: that the waits of `Hook` are the waits of `IOManager`.
4. `recvResponse()` over chunks, with an abstraction of the automaton of
   `httpclient_parser`; a session whose peer pipelines.
