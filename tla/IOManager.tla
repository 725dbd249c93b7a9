------------------------------ MODULE IOManager ------------------------------
(***************************************************************************)
(* East::IOManager (IOManager.cc, IOManager.h): a Scheduler whose idle     *)
(* threads sleep in epoll_wait.  Jobs wait for an event of a descriptor or *)
(* for a timer, and the threads in idle() put them back in the task queue. *)
(*                                                                         *)
(* The scan of the queue, the ways of leaving a fiber and stop() are those *)
(* of module Scheduler, here without thread_id; the order of timers and    *)
(* their times are those of module TimerLoop, here a timer comes due at    *)
(* any moment.  epoll is modelled from its use: edge-triggered, with a     *)
(* ready list that epoll_ctl and new readiness fill and epoll_wait empties.*)
(***************************************************************************)
EXTENDS Integers, Sequences, FiniteSets, SequencesExt

CONSTANTS
    Threads,    \* the threads that execute run()
    Jobs,       \* fibers and callbacks
    NoJob,
    Fds,
    Uses,       \* the <<fd, event>> pairs that jobs wait for
    FdErrors    \* whether epoll may report EPOLLERR or EPOLLHUP

READ == "READ"
WRITE == "WRITE"
ERR == "ERR"
Events == {READ, WRITE}

ASSUME UsesAssumption == Uses \subseteq Fds \X Events /\ IsFiniteSet(Uses)
ASSUME JobsAssumption == NoJob \notin Jobs /\ IsFiniteSet(Jobs)
ASSUME FdErrorsAssumption == FdErrors \in BOOLEAN

VARIABLES
    queue,      \* m_tasks
    pc,         \* where each thread is in run() and idle()
    cur,        \* the job each thread executes
    ended,      \* whether the thread's idle fiber has returned
    stop,       \* m_autoStop and m_stopping: stop() has been called
    events,     \* FdContext::events
    waiter,     \* the fiber or callback in EventContext, for each fd and event
    pending,    \* m_pendingEventCount
    timers,     \* the jobs in m_timers
    due,        \* those whose time has come
    batch,      \* timer_cbs of each thread
    report,     \* what epoll_wait gave each thread and it has not processed yet
    gotPipe,    \* whether that includes the pipe
    pipe,       \* the pipe: empty, new (epoll has not reported it) or seen
    interest,   \* epoll: the events each descriptor is in the epoll set for
    edge,       \* epoll: the descriptor is in the ready list
    ready,      \* the descriptor can be read or written
    broken      \* the descriptor has an error or was hung up

threadVars == <<pc, cur, ended>>
ctxVars == <<events, waiter, pending>>
timerVars == <<timers, due, batch>>
reportVars == <<report, gotPipe>>
epollVars == <<interest, edge>>
worldVars == <<ready, broken>>
vars == <<queue, threadVars, stop, ctxVars, timerVars, reportVars, pipe, epollVars, worldVars>>

Init ==
    /\ queue = <<>>
    /\ pc = [h \in Threads |-> "scan"]
    /\ cur = [h \in Threads |-> NoJob]
    /\ ended = [h \in Threads |-> FALSE]
    /\ stop = FALSE
    /\ events = [f \in Fds |-> {}]
    /\ waiter = [f \in Fds |-> [e \in Events |-> NoJob]]
    /\ pending = 0
    /\ timers = {} /\ due = {}
    /\ batch = [h \in Threads |-> {}]
    /\ report = [h \in Threads |-> {}]
    /\ gotPipe = [h \in Threads |-> FALSE]
    /\ pipe = "empty"
    /\ interest = [f \in Fds |-> {}]
    /\ edge = [f \in Fds |-> FALSE]
    /\ ready \in [Fds -> {{}, {WRITE}}]
    /\ broken = [f \in Fds |-> FALSE]

IdleSteps == {"ask", "askEvents", "askTasks", "sleep", "woken", "batch", "events"}
IdleThreads == {h \in Threads : pc[h] \in IdleSteps}
ActiveThreads == {h \in Threads : pc[h] = "run"}
Aborted == \E h \in Threads : pc[h] = "abort"

Queued(j) == \E i \in 1 .. Len(queue) : queue[i] = j
Waiting(j) == {u \in Uses : waiter[u[1]][u[2]] = j}
Fresh(j) ==
    /\ ~Queued(j) /\ j \notin timers /\ Waiting(j) = {}
    /\ \A h \in Threads : cur[h] # j /\ j \notin batch[h]

-----------------------------------------------------------------------------
(* tickle(), schedule() and epoll_ctl().                                    *)

Goto(h, l) == pc' = [pc EXCEPT ![h] = l]

\* Nobody is woken unless some thread counts as idle at this moment.
Tickle == pipe' = IF IdleThreads = {} THEN pipe ELSE "new"

\* schedule(): tickle() if the queue was empty.
Schedule(s) ==
    /\ queue' = queue \o s
    /\ IF queue = <<>> /\ s # <<>> THEN Tickle ELSE UNCHANGED pipe

\* epoll_ctl ADD, MOD and DEL: a descriptor that is ready for what it is now in the set
\* for enters the ready list.
EpollCtl(f, S) ==
    /\ interest' = [interest EXCEPT ![f] = S]
    /\ edge' = [edge EXCEPT ![f] = S # {} /\ (ready[f] \cap S # {} \/ broken[f])]

\* Slip: the context keeps the fiber it has scheduled.
TriggerKeepsFiber(f, S) ==
    /\ events' = [events EXCEPT ![f] = @ \ S]
    /\ pending' = pending - Cardinality(S)
    /\ Schedule([i \in 1 .. Cardinality(S) |-> waiter[f][SetToSeq(S)[i]]])
    /\ UNCHANGED waiter

\* Slip: of two events that come together only the first is scheduled.
TriggerFirst(f, S) ==
    /\ events' = [events EXCEPT ![f] = @ \ S]
    /\ waiter' = [waiter EXCEPT ![f] = [e \in Events |-> IF e \in S THEN NoJob ELSE @[e]]]
    /\ pending' = pending - Cardinality(S)
    /\ Schedule(<<waiter[f][IF READ \in S THEN READ ELSE WRITE]>>)

\* triggerEvent() for the events of S, READ first, each with the decrement of
\* m_pendingEventCount its callers make after it.
Trigger(f, S) ==
    /\ events' = [events EXCEPT ![f] = @ \ S]
    /\ waiter' = [waiter EXCEPT ![f] = [e \in Events |-> IF e \in S THEN NoJob ELSE @[e]]]
    /\ pending' = pending - Cardinality(S)
    /\ Schedule((IF READ \in S THEN <<waiter[f][READ]>> ELSE <<>>)
                \o (IF WRITE \in S THEN <<waiter[f][WRITE]>> ELSE <<>>))

-----------------------------------------------------------------------------
(* What the job that thread h executes may do.                              *)

Leave(h) == Goto(h, "scan") /\ cur' = [cur EXCEPT ![h] = NoJob]

\* addEvent(), up to the context: job j is to be woken by event e of f.
Register(f, e, j) ==
    /\ <<f, e>> \in Uses /\ e \notin events[f]
    /\ EpollCtl(f, events[f] \cup {e})
    /\ pending' = pending + 1
    /\ events' = [events EXCEPT ![f] = @ \cup {e}]
    /\ waiter' = [waiter EXCEPT ![f][e] = j]

\* Without a callback the running fiber is registered, which then yields; its wake-up may
\* come before that, which is the subject of module Scheduler.
AddEvent(h, f, e) ==
    /\ pc[h] = "run"
    /\ Register(f, e, cur[h])
    /\ Leave(h)
    /\ UNCHANGED <<queue, ended, stop, timerVars, reportVars, pipe, worldVars>>

AddCallback(h, f, e, j) ==
    /\ pc[h] = "run" /\ Fresh(j)
    /\ Register(f, e, j)
    /\ UNCHANGED <<queue, threadVars, stop, timerVars, reportVars, pipe, worldVars>>

\* Slip: the descriptor leaves the epoll set while the other event is still awaited.
RemoveEventWithDel(h, f, e) ==
    /\ pc[h] = "run" /\ e \in events[f]
    /\ EpollCtl(f, {})
    /\ pending' = pending - 1
    /\ events' = [events EXCEPT ![f] = @ \ {e}]
    /\ waiter' = [waiter EXCEPT ![f][e] = NoJob]
    /\ UNCHANGED <<queue, threadVars, stop, timerVars, reportVars, pipe, worldVars>>

\* removeEvent(): whoever waits is not woken.
RemoveEvent(h, f, e) ==
    /\ pc[h] = "run" /\ e \in events[f]
    /\ EpollCtl(f, events[f] \ {e})
    /\ pending' = pending - 1
    /\ events' = [events EXCEPT ![f] = @ \ {e}]
    /\ waiter' = [waiter EXCEPT ![f][e] = NoJob]
    /\ UNCHANGED <<queue, threadVars, stop, timerVars, reportVars, pipe, worldVars>>

\* cancelEvent(): whoever waits is woken.
CancelEvent(h, f, e) ==
    /\ pc[h] = "run" /\ e \in events[f]
    /\ EpollCtl(f, events[f] \ {e})
    /\ Trigger(f, {e})
    /\ UNCHANGED <<threadVars, stop, timerVars, reportVars, worldVars>>

\* Slip: the count goes down once for both events.
CancelAllCountsOnce(h, f) ==
    /\ pc[h] = "run" /\ events[f] # {}
    /\ EpollCtl(f, {})
    /\ events' = [events EXCEPT ![f] = {}]
    /\ waiter' = [waiter EXCEPT ![f] = [e \in Events |-> NoJob]]
    /\ pending' = pending - 1
    /\ Schedule(SetToSeq({waiter[f][e] : e \in events[f]}))
    /\ UNCHANGED <<threadVars, stop, timerVars, reportVars, worldVars>>

CancelAll(h, f) ==
    /\ pc[h] = "run" /\ events[f] # {}
    /\ EpollCtl(f, {})
    /\ Trigger(f, events[f])
    /\ UNCHANGED <<threadVars, stop, timerVars, reportVars, worldVars>>

\* A timer that will schedule the fiber, which yields.  Whether the insertion calls
\* onTimerInsertAtFront() is left open.
Sleep(h) ==
    /\ pc[h] = "run"
    /\ timers' = timers \cup {cur[h]}
    /\ Tickle \/ UNCHANGED pipe
    /\ Leave(h)
    /\ UNCHANGED <<queue, ended, stop, ctxVars, due, batch, reportVars, epollVars, worldVars>>

\* The job reads or writes all there is.
Consume(h, f, e) ==
    /\ pc[h] = "run" /\ e \in ready[f]
    /\ ready' = [ready EXCEPT ![f] = @ \ {e}]
    /\ UNCHANGED <<queue, threadVars, stop, ctxVars, timerVars, reportVars, pipe, epollVars,
                   broken>>

Finish(h) ==
    /\ pc[h] = "run"
    /\ Leave(h)
    /\ UNCHANGED <<queue, ended, stop, ctxVars, timerVars, reportVars, pipe, epollVars, worldVars>>

\* A new job, from outside until stop() is called, or from a running job.
Submit(j) ==
    /\ Fresh(j)
    /\ ~stop \/ ActiveThreads # {}
    /\ Schedule(<<j>>)
    /\ UNCHANGED <<threadVars, stop, ctxVars, timerVars, reportVars, epollVars, worldVars>>

\* stop() wakes the threads.
StopCall ==
    /\ ~stop
    /\ stop' = TRUE
    /\ Tickle
    /\ UNCHANGED <<queue, threadVars, ctxVars, timerVars, reportVars, epollVars, worldVars>>

-----------------------------------------------------------------------------
(* run() and idle().                                                        *)

TakeTask(h) ==
    /\ pc[h] = "scan" /\ queue # <<>>
    /\ cur' = [cur EXCEPT ![h] = Head(queue)]
    /\ queue' = Tail(queue)
    /\ IF Len(queue) > 1 THEN Tickle ELSE UNCHANGED pipe
    /\ Goto(h, "run")
    /\ UNCHANGED <<ended, stop, ctxVars, timerVars, reportVars, epollVars, worldVars>>

FindNothing(h) ==
    /\ pc[h] = "scan" /\ queue = <<>>
    /\ Goto(h, IF ended[h] THEN "exited" ELSE "enter")
    /\ UNCHANGED <<queue, cur, ended, stop, ctxVars, timerVars, reportVars, pipe, epollVars,
                   worldVars>>

Move(h, from, to) ==
    /\ pc[h] = from
    /\ Goto(h, to)
    /\ UNCHANGED <<queue, cur, stop, ctxVars, timerVars, reportVars, pipe, epollVars, worldVars>>

\* ++m_idleThreadCount: a task scheduled since the scan has woken nobody.
EnterIdle(h) == Move(h, "enter", "ask") /\ UNCHANGED ended

\* stopping(): three readings, one after the other, of state that changes in between.
AskTimers(h) == Move(h, "ask", IF timers = {} THEN "askEvents" ELSE "sleep") /\ UNCHANGED ended

AskEvents(h) == Move(h, "askEvents", IF pending = 0 THEN "askTasks" ELSE "sleep") /\ UNCHANGED ended

AskTasks(h) ==
    LET stopping == stop /\ queue = <<>> /\ ActiveThreads = {} IN
    /\ Move(h, "askTasks", IF stopping THEN "scan" ELSE "sleep")
    /\ ended' = [ended EXCEPT ![h] = stopping]

Signals(f) == (ready[f] \cap interest[f]) \cup (IF broken[f] THEN {ERR} ELSE {})
Deliverable == {f \in Fds : edge[f] /\ Signals(f) # {}}

\* Slip: a thread sleeps until epoll has something for it.
EpollWaitForever(h) ==
    /\ pc[h] = "sleep"
    /\ Deliverable # {} \/ pipe = "new"
    /\ report' = [report EXCEPT ![h] = {[fd |-> f, signals |-> Signals(f)] : f \in Deliverable}]
    /\ edge' = [f \in Fds |-> FALSE]
    /\ gotPipe' = [gotPipe EXCEPT ![h] = pipe = "new"]
    /\ pipe' = IF pipe = "new" THEN "seen" ELSE pipe
    /\ Goto(h, "woken")
    /\ UNCHANGED <<queue, cur, ended, stop, ctxVars, timerVars, interest, worldVars>>

\* epoll_wait() returns with all that is in the ready list; with nothing when the time it
\* was given is over, which happens at last: it is never more than 3 seconds.
EpollWait(h) ==
    /\ pc[h] = "sleep"
    /\ report' = [report EXCEPT ![h] = {[fd |-> f, signals |-> Signals(f)] : f \in Deliverable}]
    /\ edge' = [f \in Fds |-> FALSE]
    /\ gotPipe' = [gotPipe EXCEPT ![h] = pipe = "new"]
    /\ pipe' = IF pipe = "new" THEN "seen" ELSE pipe
    /\ Goto(h, "woken")
    /\ UNCHANGED <<queue, cur, ended, stop, ctxVars, timerVars, interest, worldVars>>

\* Slip: the timers that have come due stay in the set.
ExpireKeeps(h) ==
    /\ pc[h] = "woken"
    /\ batch' = [batch EXCEPT ![h] = due]
    /\ due' = {}
    /\ Goto(h, "batch")
    /\ UNCHANGED <<queue, cur, ended, stop, ctxVars, timers, reportVars, pipe, epollVars, worldVars>>

\* listExpiredCb(); the callbacks are in no place a stopping() looks at until scheduled.
Expire(h) ==
    /\ pc[h] = "woken"
    /\ timers' = timers \ due
    /\ batch' = [batch EXCEPT ![h] = due]
    /\ due' = {}
    /\ Goto(h, "batch")
    /\ UNCHANGED <<queue, cur, ended, stop, ctxVars, reportVars, pipe, epollVars, worldVars>>

ScheduleBatch(h) ==
    /\ pc[h] = "batch"
    /\ \E s \in SetToSeqs(batch[h]) : Schedule(s)
    /\ batch' = [batch EXCEPT ![h] = {}]
    /\ Goto(h, "events")
    /\ UNCHANGED <<cur, ended, stop, ctxVars, timers, due, reportVars, epollVars, worldVars>>

\* Slip: a descriptor leaves the epoll set as soon as one of its events has come.
LeftNone(f, real) == {}

\* The events that stay in the epoll set.
Left(f, real) == events[f] \ real

\* One event of epoll_wait's, under the mutex of its context.  Both events are taken to
\* have come if there is an error, also one nobody waits for: then the assertion of
\* triggerEvent() fails.
ProcessEvent(h, r) ==
    LET f == r.fd
        real == IF ERR \in r.signals THEN Events ELSE r.signals
    IN
    /\ pc[h] = "events" /\ r \in report[h]
    /\ report' = [report EXCEPT ![h] = @ \ {r}]
    /\ \/ /\ events[f] \cap real = {}
          /\ UNCHANGED <<queue, pc, ctxVars, pipe, epollVars>>
       \/ /\ events[f] \cap real # {} /\ real \subseteq events[f]
          /\ EpollCtl(f, Left(f, real))
          /\ Trigger(f, real)
          /\ UNCHANGED pc
       \/ /\ events[f] \cap real # {} /\ ~(real \subseteq events[f])
          /\ Goto(h, "abort")
          /\ UNCHANGED <<queue, ctxVars, pipe, epollVars>>
    /\ UNCHANGED <<cur, ended, stop, timerVars, gotPipe, worldVars>>

\* The event of the pipe: it is read until it is empty.
DrainPipe(h) ==
    /\ pc[h] = "events" /\ gotPipe[h]
    /\ gotPipe' = [gotPipe EXCEPT ![h] = FALSE]
    /\ pipe' = "empty"
    /\ UNCHANGED <<queue, threadVars, stop, ctxVars, timerVars, report, epollVars, worldVars>>

\* All events are processed: the idle fiber yields.
YieldIdle(h) ==
    /\ report[h] = {} /\ ~gotPipe[h]
    /\ Move(h, "events", "scan")
    /\ UNCHANGED ended

-----------------------------------------------------------------------------
(* The world: time passes, and descriptors become ready or fail.            *)

ComeDue(j) ==
    /\ j \in timers \ due
    /\ due' = due \cup {j}
    /\ UNCHANGED <<queue, threadVars, stop, ctxVars, timers, batch, reportVars, pipe, epollVars,
                   worldVars>>

BecomeReady(f, e) ==
    /\ ready' = [ready EXCEPT ![f] = @ \cup {e}]
    /\ edge' = [edge EXCEPT ![f] = @ \/ e \in interest[f]]
    /\ UNCHANGED <<queue, threadVars, stop, ctxVars, timerVars, reportVars, pipe, interest, broken>>

Break(f) ==
    /\ FdErrors
    /\ broken' = [broken EXCEPT ![f] = TRUE]
    /\ edge' = [edge EXCEPT ![f] = interest[f] # {}]
    /\ UNCHANGED <<queue, threadVars, stop, ctxVars, timerVars, reportVars, pipe, interest, ready>>

-----------------------------------------------------------------------------
ThreadStep(h) ==
    \/ TakeTask(h) \/ FindNothing(h) \/ EnterIdle(h)
    \/ AskTimers(h) \/ AskEvents(h) \/ AskTasks(h) \/ EpollWait(h)
    \/ Expire(h) \/ ScheduleBatch(h) \/ \E r \in report[h] : ProcessEvent(h, r)
    \/ DrainPipe(h) \/ YieldIdle(h)

\* How a job leaves its thread.
JobEnds(h) == Finish(h) \/ Sleep(h) \/ \E u \in Uses : AddEvent(h, u[1], u[2])

JobStep(h) ==
    \/ \E u \in Uses :
        \/ RemoveEvent(h, u[1], u[2]) \/ CancelEvent(h, u[1], u[2]) \/ Consume(h, u[1], u[2])
        \/ \E j \in Jobs : AddCallback(h, u[1], u[2], j)
    \/ \E f \in Fds : CancelAll(h, f)

Next ==
    \/ \E h \in Threads : ThreadStep(h)
    \/ \E h \in Threads : JobEnds(h)
    \/ \E h \in Threads : JobStep(h)
    \/ \E j \in Jobs : Submit(j) \/ ComeDue(j)
    \/ \E u \in Uses : BecomeReady(u[1], u[2])
    \/ \E f \in Fds : Break(f)
    \/ StopCall

Spec == Init /\ [][Next]_vars

\* Every thread keeps running, every epoll_wait returns, every job reaches a yield or its
\* end, and every timer comes due.
Fairness ==
    /\ \A h \in Threads : WF_vars(ThreadStep(h)) /\ WF_vars(JobEnds(h))
    /\ \A j \in Jobs : WF_vars(ComeDue(j))

FairSpec == Spec /\ Fairness

-----------------------------------------------------------------------------
(* Properties.                                                              *)

\* Types of the state (IOManager.h:48-86, 193-198).
TypeOK ==
    /\ queue \in Seq(Jobs)
    /\ pc \in [Threads -> IdleSteps \cup {"scan", "run", "enter", "exited", "abort"}]
    /\ cur \in [Threads -> Jobs \cup {NoJob}]
    /\ ended \in [Threads -> BOOLEAN] /\ stop \in BOOLEAN
    /\ events \in [Fds -> SUBSET Events]
    /\ waiter \in [Fds -> [Events -> Jobs \cup {NoJob}]]
    /\ pending \in Nat
    /\ due \subseteq timers /\ timers \subseteq Jobs
    /\ batch \in [Threads -> SUBSET Jobs]
    /\ \A h \in Threads : report[h] \subseteq [fd : Fds, signals : SUBSET {READ, WRITE, ERR}]
    /\ gotPipe \in [Threads -> BOOLEAN]
    /\ pipe \in {"empty", "new", "seen"}
    /\ interest \in [Fds -> SUBSET Events] /\ edge \in [Fds -> BOOLEAN]
    /\ ready \in [Fds -> SUBSET Events] /\ broken \in [Fds -> BOOLEAN]

Registered == {u \in Uses : u[2] \in events[u[1]]}

\* m_pendingEventCount is the number of events somebody waits for, however these waits end:
\* a count too low lets the threads exit under a waiter, one too high keeps stop() from
\* returning (IOManager.cc:211, 282, 344, 397, 402, 470, 613, 619).
PendingExact == pending = Cardinality(Registered)

\* A context says an event is awaited exactly when it holds a waiter and the kernel watches
\* the descriptor for it, so that the assertion of addEvent() holds and no awaited event
\* goes unreported (IOManager.cc:212-223, 283-287, 584-599).
ContextInSync ==
    \A f \in Fds :
        /\ interest[f] = events[f]
        /\ \A e \in Events : e \in events[f] <=> waiter[f][e] # NoJob

\* A job is in one place at a time: in the queue once, on one thread, in one context or in
\* one timer.  A wake-up that leaves it where it was would run it twice (IOManager.cc:70-77).
OnePlace ==
    \A j \in Jobs :
        Cardinality({i \in 1 .. Len(queue) : queue[i] = j})
      + Cardinality({h \in Threads : cur[h] = j})
      + Cardinality({h \in Threads : j \in batch[h]})
      + Cardinality(Waiting(j))
      + Cardinality({j} \cap timers) <= 1

\* "Stop condition: the scheduler has ended && no events to execute && no timers to execute"
\* (IOManager.cc:640): when all threads have exited, no job is left anywhere.  But stopping()
\* reads the timers, the events and the tasks one after the other (IOManager.cc:468-471).
ExitDrains ==
    (\A h \in Threads : pc[h] = "exited") =>
        /\ queue = <<>> /\ timers = {} /\ Registered = {}
        /\ \A h \in Threads : batch[h] = {}

\* A wait ends with the waiter in the queue, by whatever way, unless removeEvent() ends it
\* (IOManager.cc:70-77, 343, 395-403, 611-620).
WaitEndsScheduled ==
    [][\A u \in Uses :
          u[2] \in events[u[1]] \ events'[u[1]] =>
              \/ \E i \in 1 .. Len(queue') : queue'[i] = waiter[u[1]][u[2]]
              \/ \E h \in Threads : RemoveEvent(h, u[1], u[2])]_vars

\* triggerEvent() is called for awaited events only: EAST_ASSERT(events & event)
\* (IOManager.cc:63).
TriggersAwaited == ~Aborted

\* A job in the queue is taken, also one scheduled when a thread had already found the queue
\* empty and was not yet counted idle, so that no tickle came (Scheduler.cc:263-350,
\* IOManager.cc:479).
EveryTaskTaken == \A j \in Jobs : Queued(j) ~> ~Queued(j) \/ Aborted

\* A job that waits for an event is woken while the descriptor is ready for it, unless tasks
\* keep all threads from epoll_wait for ever; the edge that told so is not lost to another
\* event of the descriptor (IOManager.cc:585-599).
PollsAgain == []<>(\E h \in Threads : pc[h] = "sleep")
ReadyWaiterWoken == PollsAgain =>
    \A u \in Uses :
        u \in Registered /\ u[2] \in ready[u[1]] ~>
            u \notin Registered \/ u[2] \notin ready[u[1]] \/ Aborted

\* Once there is no work left, every thread exits after stop() (IOManager.cc:509-512).
NoWork ==
    /\ queue = <<>> /\ timers = {} /\ Registered = {} /\ ActiveThreads = {}
    /\ \A h \in Threads : batch[h] = {}
ThreadsExit ==
    <>[](stop /\ NoWork) => <>(Aborted \/ \A h \in Threads : pc[h] = "exited")

-----------------------------------------------------------------------------
(* IOManager implements EventPool.                                          *)

\* A job sleeps until its callback is scheduled.
Asleep == timers \cup UNION {batch[h] : h \in Threads}

Pool == INSTANCE EventPool WITH
    line <- queue,
    doing <- cur,
    waits <- waiter,
    asleep <- Asleep

\* Whatever epoll_wait reports, late or twice, and whoever cancels or removes events between
\* its return and the processing, clients see jobs that are taken in the order in which they
\* came to the queue, and waits that end with the waiter there, once; only the caller of
\* removeEvent() ends one otherwise (IOManager.cc:62-79, 230-407, 479-623).
ImplementsEventPool == Pool!PoolSpec
=============================================================================
