------------------------------ MODULE TimerLoop ------------------------------
(***************************************************************************)
(* The timers of an IOManager: TimerManager together with the threads that *)
(* serve it from idle() (IOManager.cc:498-634), asleep in epoll_wait until *)
(* the first timer is due, and the pipe by which tickle() wakes one.       *)
(* Time passes only while nobody has anything to do, so that the only      *)
(* lateness of a timer is that of a loop which sleeps too long.            *)
(***************************************************************************)
EXTENDS Timers

CONSTANTS
    Threads,    \* the threads that execute idle()
    MaxSleep,   \* MAX_TIMEOUT, 3000 ms
    IdleSleep,  \* the sleep with no timer at all: MAX_EVENTS, 256, taken as ms
    None        \* ~0ull

ASSUME SleepAssumption == MaxSleep \in Nat /\ IdleSleep \in Nat /\ None \notin Nat

VARIABLES
    loop,       \* where each thread is: in a task, or in idle()
    wakeAt,     \* when its epoll_wait times out
    gotPipe,    \* epoll_wait reported the pipe to it
    cbs,        \* timer_cbs, the timers whose callbacks it is about to schedule
    byte,       \* the pipe holds data
    edge        \* epoll has not yet reported the last write to the pipe

pipeVars == <<byte, edge>>
vars == <<timerVars, loop, wakeAt, gotPipe, cbs, pipeVars>>

Init ==
    /\ TimersInit
    /\ loop = [h \in Threads |-> "task"]
    /\ wakeAt = [h \in Threads |-> 0]
    /\ gotPipe = [h \in Threads |-> FALSE]
    /\ cbs = [h \in Threads |-> {}]
    /\ byte = FALSE
    /\ edge = FALSE

IdleThreads == {h \in Threads : loop[h] # "task"}
Asleep(h) == loop[h] = "sleep"

ClientStep(c) ==
    /\ \/ \E t \in Timers, p \in Periods, r \in BOOLEAN : Make(c, t, p, r) \/ Reset(c, t, p, r)
       \/ \E t \in Timers : Cancel(c, t) \/ Refresh(c, t)
       \/ Insert(c)
    /\ UNCHANGED <<loop, wakeAt, gotPipe, cbs, pipeVars>>

\* onTimerInsertAtFront(): tickle() writes only if some thread is idle.
Tickle(c) ==
    /\ client[c].pc = "tickle"
    /\ client' = [client EXCEPT ![c] = Ready]
    /\ IF IdleThreads # {} THEN byte' = TRUE /\ edge' = TRUE ELSE UNCHANGED pipeVars
    /\ UNCHANGED <<now, timers, exec, fields, tickled, loop, wakeAt, gotPipe, cbs>>

Goto(h, l) == loop' = [loop EXCEPT ![h] = l]

\* run() finds no task, counts the thread idle and resumes the idle fiber.
EnterIdle(h) ==
    /\ loop[h] = "task"
    /\ Goto(h, "ask")
    /\ UNCHANGED <<timerVars, wakeAt, gotPipe, cbs, pipeVars>>

\* How long epoll_wait is to sleep.
SleepFor(timeout) ==
    IF timeout = None THEN IdleSleep ELSE IF timeout > MaxSleep THEN MaxSleep ELSE timeout

\* stopping(next_timeout), then epoll_wait.
GoToSleep(h) ==
    /\ loop[h] = "ask"
    /\ GetNextTimer
    /\ wakeAt' = [wakeAt EXCEPT ![h] = now + SleepFor(NextTimeout(None))]
    /\ Goto(h, "sleep")
    /\ UNCHANGED <<now, timers, exec, fields, client, gotPipe, cbs, pipeVars>>

\* epoll_wait returns: the pipe is edge-triggered, its event goes to one thread.
WakeByPipe(h) ==
    /\ Asleep(h) /\ byte /\ edge
    /\ edge' = FALSE
    /\ gotPipe' = [gotPipe EXCEPT ![h] = TRUE]
    /\ wakeAt' = [wakeAt EXCEPT ![h] = 0]
    /\ Goto(h, "expire")
    /\ UNCHANGED <<timerVars, cbs, byte>>

WakeByTimeout(h) ==
    /\ Asleep(h) /\ now >= wakeAt[h]
    /\ wakeAt' = [wakeAt EXCEPT ![h] = 0]
    /\ Goto(h, "expire")
    /\ UNCHANGED <<timerVars, gotPipe, cbs, pipeVars>>

\* The callbacks of the expired timers are copied to a vector of the thread's own.
Expire(h) ==
    /\ loop[h] = "expire"
    /\ ListExpiredCb
    /\ cbs' = [cbs EXCEPT ![h] = Expired]
    /\ Goto(h, "drain")
    /\ UNCHANGED <<wakeAt, gotPipe, pipeVars>>

\* They go to the task queue, the pipe is read until it is empty, and the idle fiber yields.
Drain(h) ==
    /\ loop[h] = "drain"
    /\ cbs' = [cbs EXCEPT ![h] = {}]
    /\ byte' = (byte /\ ~gotPipe[h])
    /\ gotPipe' = [gotPipe EXCEPT ![h] = FALSE]
    /\ Goto(h, "task")
    /\ UNCHANGED <<timerVars, wakeAt, edge>>

\* The clock advances when every thread sleeps and no client is inside an operation.
Quiet ==
    /\ \A h \in Threads : Asleep(h) /\ now < wakeAt[h]
    /\ ~(byte /\ edge)
    /\ \A c \in Clients : client[c] = Ready

Tick ==
    /\ Quiet
    /\ now < MaxTime
    /\ now' = now + 1
    /\ UNCHANGED <<timers, exec, fields, tickled, client, loop, wakeAt, gotPipe, cbs, pipeVars>>

LoopStep(h) ==
    \/ EnterIdle(h) \/ GoToSleep(h) \/ WakeByPipe(h) \/ WakeByTimeout(h) \/ Expire(h) \/ Drain(h)

Next ==
    \/ \E c \in Clients : ClientStep(c) \/ Tickle(c)
    \/ \E h \in Threads : LoopStep(h)
    \/ Tick

Spec == Init /\ [][Next]_vars

-----------------------------------------------------------------------------
(* Properties.                                                              *)

\* Types of the state of Timer.h:32-37, 79-81 and of the loop; m_execute_time - m_period
\* is unsigned and does not wrap (Timer.cc:81).
TypeOK ==
    /\ TimerTypeOK
    /\ loop \in [Threads -> {"task", "ask", "sleep", "expire", "drain"}]
    /\ wakeAt \in [Threads -> Nat]
    /\ gotPipe \in [Threads -> BOOLEAN]
    /\ cbs \in [Threads -> SUBSET Timers]
    /\ byte \in BOOLEAN /\ edge \in BOOLEAN

\* The timers as their users see them.
A == INSTANCE Alarms WITH
        Names <- Timers, Servers <- Threads, due <- cbs,
        alarms <- [t \in timers |->
                      [start |-> exec[t] - period[t], period |-> period[t], again |-> recurring[t]]]

\* The set ordered by time is a set of alarms, whatever threads look at it and whatever
\* clients do to it meanwhile: a callback is handed on when a whole period has passed since
\* the start, as moved by refresh() and reset() and by the last firing (Timer.cc:57, 81-87,
\* 163-194), never before and never twice for one start; reset() measures the new period
\* from the old start; a timer cancelled after its callback was copied runs once more.
ImplementsAlarms == A!Spec

\* When all threads sleep, one of them wakes no later than slack after the first timer.
Catches(slack) ==
    Quiet /\ timers # {} =>
        \E h \in Threads :
            wakeAt[h] <= (IF exec[Front] < now THEN now ELSE exec[Front]) + slack

\* A timer is at most IdleSleep late: one inserted in front of all others wakes a sleeper,
\* and where m_tickled is still set from before and the insertion is silent, some thread
\* sleeps only for the short time (Timer.cc:118-125, 130-133; IOManager.cc:519-525).
LateByIdleSleep == Catches(IdleSleep)

\* "Callback for a timer inserted at the front of the queue: wakes an idle thread to deal
\* with the new timer" (IOManager.cc:648-650): a sleeper wakes in time for the first timer.
FrontTimerWakes == Catches(0)
=============================================================================
