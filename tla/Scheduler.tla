------------------------------ MODULE Scheduler ------------------------------
(***************************************************************************)
(* East::Scheduler (Scheduler.cc, Scheduler.h) and the East::Fiber states  *)
(* it drives (Fiber.cc): one task queue under m_mutex, worker threads that *)
(* all execute run(), and a caller thread that start()s and stop()s the    *)
(* scheduler and, with use_caller, executes run() on the root fiber inside *)
(* stop().                                                                 *)
(*                                                                         *)
(* A job is one piece of work handed to schedule(): a fiber, or a function *)
(* (a member of Functions) which run() puts in its cb_fiber.  The body of  *)
(* a job is the client's: it may submit jobs, yield, return or throw, in   *)
(* any order.  A job that suspends itself follows the protocol of the      *)
(* hooks: it registers one wake-up source (an event or a timer), which     *)
(* will schedule() it once, and calls YieldToHold next; the wake-up may    *)
(* come before the fiber has left its thread.                              *)
(***************************************************************************)
EXTENDS Integers, Sequences, FiniteSets, SequencesExt

CONSTANTS
    Workers,        \* threads start() may create: the constructor's threads says how many
    Caller,         \* the thread that calls start() and stop()
    Jobs,           \* the work of one run
    Functions,      \* the jobs given to schedule() as a std::function
    Outside,        \* the jobs submitted by threads outside the scheduler; running
                    \* jobs submit the others
    Home,           \* the thread_id a job is submitted with, or AnyThread
    AnyThread,            \* thread_id -1
    NoJob,
    FunctionsThrow  \* whether the body of a function may let an exception out

Threads == Workers \cup {Caller}

ASSUME WorkersAssumption == IsFiniteSet(Workers) /\ Caller \notin Workers
ASSUME FlagsAssumption == FunctionsThrow \in BOOLEAN
ASSUME JobsAssumption ==
    Functions \subseteq Jobs /\ Outside \subseteq Jobs /\ NoJob \notin Jobs
ASSUME HomeAssumption ==
    AnyThread \notin Threads /\ Home \in [Jobs -> Threads \cup {AnyThread}]

VARIABLES
    crew,       \* the threads start() creates (m_threadCount of them)
    useCaller,  \* the caller executes run() too, on m_rootFiber, in stop()
    queue,      \* m_tasks
    state,      \* Fiber::m_state of each job's fiber; NEW before it is submitted
    armed,      \* the jobs whose wake-up source is registered and has not fired
    pc,         \* where each thread is in run()
    cur,        \* the task each thread has taken from the queue
    branch,     \* which arm of run() executes it: task.fiber or cb_fiber
    idleTerm,   \* whether the thread's idle fiber has returned
    active,     \* m_activeThreadCount
    stopFlag,   \* m_stopping
    autoStop,   \* m_autoStop
    main        \* where the caller is between start() and the end of stop()

config == <<crew, useCaller>>
vars == <<config, queue, state, armed, pc, cur, branch, idleTerm, active,
          stopFlag, autoStop, main>>
threadVars == <<pc, cur, branch, idleTerm>>
stopVars == <<stopFlag, autoStop, main>>

Entry == [job : Jobs, pin : Threads \cup {AnyThread}]
States == {"NEW", "INIT", "HOLD", "EXEC", "READY", "TERM", "EXCEPT"}
Finished == {"TERM", "EXCEPT"}

Has(q, j) == \E i \in 1 .. Len(q) : q[i].job = j
NoTwice(q) == \A i, k \in 1 .. Len(q) : q[i].job = q[k].job => i = k
Queued(j) == Has(queue, j)
Owns(t, j) == cur[t] = j
Owned(j) == \E t \in Threads : Owns(t, j)

\* A running job that has registered its wake-up source is about to call
\* YieldToHold: the source is still armed, or has already queued the fiber.
Parking(j) == j \in armed \/ Queued(j)
Running(t, j) == pc[t] = "run" /\ Owns(t, j) /\ ~Parking(j)

Aborted == \E t \in Threads : pc[t] = "abort"

Stopping == autoStop /\ stopFlag /\ queue = <<>> /\ active = 0

Init ==
    /\ crew \in SUBSET Workers
    /\ useCaller \in BOOLEAN
    /\ useCaller \/ crew # {}
    /\ queue = <<>>
    /\ state = [j \in Jobs |-> "NEW"]
    /\ armed = {}
    /\ pc = [t \in Threads |-> "off"]
    /\ cur = [t \in Threads |-> NoJob]
    /\ branch = [t \in Threads |-> "FIBER"]
    /\ idleTerm = [t \in Threads |-> FALSE]
    /\ active = 0
    /\ stopFlag = TRUE
    /\ autoStop = FALSE
    /\ main = "created"

-----------------------------------------------------------------------------
(* schedule(): append under m_mutex.  tickle() only logs in this class.     *)

Push(j, p) == queue' = Append(queue, [job |-> j, pin |-> p])

\* Who may call schedule() for a job: a thread outside, until stop() is called, or
\* a running job.
FromOutside == ~autoStop
FromJob == \E t \in Threads, j \in Jobs : Running(t, j)

Submitter(j) ==
    /\ Home[j] \in {AnyThread} \cup crew \cup (IF useCaller THEN {Caller} ELSE {})
    /\ IF j \in Outside THEN FromOutside ELSE FromJob

Submit(j) ==
    /\ state[j] = "NEW"
    /\ Submitter(j)
    /\ state' = [state EXCEPT ![j] = "INIT"]
    /\ Push(j, Home[j])
    /\ UNCHANGED <<config, armed, threadVars, active, stopVars>>

\* schedule(begin, end): several tasks under one lock, all with thread_id -1.
SubmitBatch(j, k) ==
    /\ j # k
    /\ state[j] = "NEW" /\ state[k] = "NEW"
    /\ Submitter(j) /\ Submitter(k)
    /\ Home[j] = AnyThread /\ Home[k] = AnyThread
    /\ state' = [state EXCEPT ![j] = "INIT", ![k] = "INIT"]
    /\ queue' = queue \o <<[job |-> j, pin |-> AnyThread], [job |-> k, pin |-> AnyThread]>>
    /\ UNCHANGED <<config, armed, threadVars, active, stopVars>>

\* The client schedules again a fiber that has already run to its end.
SubmitFinished(j) ==
    /\ j \notin Functions
    /\ state[j] \in Finished
    /\ ~Queued(j) /\ ~Owned(j)
    /\ FromOutside
    /\ Push(j, AnyThread)
    /\ UNCHANGED <<config, state, armed, threadVars, active, stopVars>>

\* Slip: the source stays registered after it has fired.
WakeAndStay(j) ==
    /\ j \in armed
    /\ FromOutside \/ FromJob
    /\ Push(j, AnyThread)
    /\ UNCHANGED <<config, state, armed, threadVars, active, stopVars>>

\* A registered wake-up source fires and schedules its fiber.
Wake(j) ==
    /\ j \in armed
    /\ FromOutside \/ FromJob
    /\ armed' = armed \ {j}
    /\ Push(j, AnyThread)
    /\ UNCHANGED <<config, state, threadVars, active, stopVars>>

-----------------------------------------------------------------------------
(* run(): the scan of the queue is one critical section of m_mutex.         *)

\* Slip: the scan looks at thread_id only.
EligibleWhileExecuting(t, e) == e.pin \in {AnyThread, t}

\* Tasks of other threads are skipped, and so are fibers somebody is executing.
Eligible(t, e) == e.pin \in {AnyThread, t} /\ state[e.job] # "EXEC"

\* Slip: the scan goes through the queue from its end.
LastEligible(t, i) ==
    /\ Eligible(t, queue[i])
    /\ \A k \in i + 1 .. Len(queue) : ~Eligible(t, queue[k])

FirstEligible(t, i) ==
    /\ Eligible(t, queue[i])
    /\ \A k \in 1 .. i - 1 : ~Eligible(t, queue[k])

TakeTask(t) ==
    /\ pc[t] = "scan"
    /\ \E i \in 1 .. Len(queue) :
        /\ FirstEligible(t, i)
        /\ cur' = [cur EXCEPT ![t] = queue[i].job]
        /\ queue' = RemoveAt(queue, i)
    /\ active' = active + 1
    /\ pc' = [pc EXCEPT ![t] = "dispatch"]
    /\ UNCHANGED <<config, state, armed, branch, idleTerm, stopVars>>

\* Slip: the count is decremented even if no task was taken.
FindNothingDecrements(t) ==
    /\ pc[t] = "scan"
    /\ \A i \in 1 .. Len(queue) : ~Eligible(t, queue[i])
    /\ pc' = [pc EXCEPT ![t] = IF idleTerm[t] THEN "exited" ELSE "idle"]
    /\ active' = active - 1
    /\ UNCHANGED <<config, queue, state, armed, cur, branch, idleTerm, stopVars>>

\* No task: run() ends if the idle fiber has returned, else it resumes it.
FindNothing(t) ==
    /\ pc[t] = "scan"
    /\ \A i \in 1 .. Len(queue) : ~Eligible(t, queue[i])
    /\ pc' = [pc EXCEPT ![t] = IF idleTerm[t] THEN "exited" ELSE "idle"]
    /\ UNCHANGED <<config, queue, state, armed, cur, branch, idleTerm, active, stopVars>>

\* One turn of idle(): it evaluates stopping() under m_mutex, then yields or returns.
\* m_idleThreadCount is read by no method of this class.
Idle(t) ==
    /\ pc[t] = "idle"
    /\ idleTerm' = [idleTerm EXCEPT ![t] = Stopping]
    /\ pc' = [pc EXCEPT ![t] = "scan"]
    /\ UNCHANGED <<config, queue, state, armed, cur, branch, active, stopVars>>

\* Slip: the fiber's state is not looked at before resume().
ResumeFinished(t) ==
    /\ pc[t] = "dispatch"
    /\ pc' = [pc EXCEPT ![t] = IF state[cur[t]] = "EXEC" THEN "abort" ELSE "run"]
    /\ state' = [state EXCEPT ![cur[t]] = "EXEC"]
    /\ UNCHANGED <<config, queue, armed, cur, branch, idleTerm, active, stopVars>>

\* Fiber::resume() asserts that the fiber is not executing, Fiber::reset() that it has not
\* begun or has ended.
CanResume(s) == s # "EXEC"
CanReset(s) == s \in {"INIT", "TERM"}

\* resume() of the task's fiber, or of the cb_fiber that now holds the function.
Resume(t) ==
    /\ pc[t] = "dispatch"
    /\ state[cur[t]] \notin Finished
    /\ pc' = [pc EXCEPT ![t] = IF CanResume(state[cur[t]]) THEN "run" ELSE "abort"]
    /\ branch' = [branch EXCEPT ![t] =
                    IF cur[t] \in Functions /\ state[cur[t]] = "INIT"
                    THEN "FUNCTION" ELSE "FIBER"]
    /\ state' = [state EXCEPT ![cur[t]] = "EXEC"]
    /\ UNCHANGED <<config, queue, armed, cur, idleTerm, active, stopVars>>

\* Slip: a dropped task stays counted.
DropCounted(t) ==
    /\ pc[t] = "dispatch"
    /\ state[cur[t]] \in Finished
    /\ cur' = [cur EXCEPT ![t] = NoJob]
    /\ pc' = [pc EXCEPT ![t] = "scan"]
    /\ UNCHANGED <<config, queue, state, armed, branch, idleTerm, active, stopVars>>

\* The fiber has finished before: only the count goes back.
DropFinished(t) ==
    /\ pc[t] = "dispatch"
    /\ state[cur[t]] \in Finished
    /\ active' = active - 1
    /\ cur' = [cur EXCEPT ![t] = NoJob]
    /\ pc' = [pc EXCEPT ![t] = "scan"]
    /\ UNCHANGED <<config, queue, state, armed, branch, idleTerm, stopVars>>

\* Slip: only the branch of the fibers decrements the count.
DeactivateFiber(t) ==
    /\ pc[t] = "dec"
    /\ active' = IF branch[t] = "FIBER" THEN active - 1 ELSE active
    /\ pc' = [pc EXCEPT ![t] = "settle"]
    /\ UNCHANGED <<config, queue, state, armed, cur, branch, idleTerm, stopVars>>

\* Back from resume(): the count is decremented before the state is looked at.
Deactivate(t) ==
    /\ pc[t] = "dec"
    /\ active' = active - 1
    /\ pc' = [pc EXCEPT ![t] = "settle"]
    /\ UNCHANGED <<config, queue, state, armed, cur, branch, idleTerm, stopVars>>

EndTurn(t) ==
    /\ cur' = [cur EXCEPT ![t] = NoJob]
    /\ branch' = [branch EXCEPT ![t] = "FIBER"]

\* Slip: a fiber that yielded READY is not put back.
SettleForgotten(t) ==
    /\ pc[t] = "settle"
    /\ state[cur[t]] = "READY"
    /\ pc' = [pc EXCEPT ![t] = "scan"]
    /\ EndTurn(t)
    /\ UNCHANGED <<config, queue, state, armed, idleTerm, active, stopVars>>

\* READY goes back to the queue, for any thread.
SettleReady(t) ==
    /\ pc[t] = "settle"
    /\ state[cur[t]] = "READY"
    /\ Push(cur[t], AnyThread)
    /\ pc' = [pc EXCEPT ![t] = "scan"]
    /\ EndTurn(t)
    /\ UNCHANGED <<config, state, armed, idleTerm, active, stopVars>>

\* A finished function leaves its cb_fiber to the next one, which resets it; a finished
\* fiber is let go.
SettleFinished(t) ==
    /\ pc[t] = "settle"
    /\ state[cur[t]] \in Finished
    /\ pc' = [pc EXCEPT ![t] =
                IF branch[t] = "FUNCTION" /\ ~CanReset(state[cur[t]])
                THEN "abort" ELSE "scan"]
    /\ EndTurn(t)
    /\ UNCHANGED <<config, queue, state, armed, idleTerm, active, stopVars>>

\* Anything else is parked: only now may another thread take its queue entry.
SettleHold(t) ==
    /\ pc[t] = "settle"
    /\ state[cur[t]] \notin Finished \cup {"READY"}
    /\ state' = [state EXCEPT ![cur[t]] = "HOLD"]
    /\ pc' = [pc EXCEPT ![t] = "scan"]
    /\ EndTurn(t)
    /\ UNCHANGED <<config, queue, armed, idleTerm, active, stopVars>>

-----------------------------------------------------------------------------
(* The body of the job that thread t executes.                              *)

SwitchOut(t, j, s) ==
    /\ state' = [state EXCEPT ![j] = s]
    /\ pc' = [pc EXCEPT ![t] = "dec"]
    /\ UNCHANGED <<config, queue, armed, cur, branch, idleTerm, active, stopVars>>

Return(t, j) == Running(t, j) /\ SwitchOut(t, j, "TERM")

Throw(t, j) ==
    /\ Running(t, j)
    /\ FunctionsThrow \/ branch[t] = "FIBER"
    /\ SwitchOut(t, j, "EXCEPT")

YieldToReady(t, j) == Running(t, j) /\ SwitchOut(t, j, "READY")

\* The job registers its wake-up source ...
Arm(t, j) ==
    /\ Running(t, j)
    /\ armed' = armed \cup {j}
    /\ UNCHANGED <<config, queue, state, threadVars, active, stopVars>>

\* ... and leaves its thread, still in state EXEC.
YieldToHold(t, j) ==
    /\ pc[t] = "run" /\ Owns(t, j)
    /\ Parking(j)
    /\ SwitchOut(t, j, "EXEC")

-----------------------------------------------------------------------------
(* start() and stop() on the caller.                                        *)

Start ==
    /\ main = "created"
    /\ stopFlag' = FALSE
    /\ pc' = [t \in Threads |-> IF t \in crew THEN "scan" ELSE pc[t]]
    /\ main' = "started"
    /\ UNCHANGED <<config, queue, state, armed, cur, branch, idleTerm, active, autoStop>>

\* With only the root fiber, which has not run yet, stop() first looks whether there
\* is anything to do at all.
StopCall ==
    /\ main = "started"
    /\ autoStop' = TRUE
    /\ IF useCaller /\ crew = {}
       THEN stopFlag' = TRUE /\ main' = "check"
       ELSE main' = "flag" /\ UNCHANGED stopFlag
    /\ UNCHANGED <<config, queue, state, armed, threadVars, active>>

StopCheck ==
    /\ main = "check"
    /\ main' = IF Stopping THEN "returned" ELSE "flag"
    /\ UNCHANGED <<config, queue, state, armed, threadVars, active, stopFlag, autoStop>>

StopFlag ==
    /\ main = "flag"
    /\ stopFlag' = TRUE
    /\ main' = IF useCaller THEN "root" ELSE "join"
    /\ UNCHANGED <<config, queue, state, armed, threadVars, active, autoStop>>

\* Slip: stop() leaves the root fiber alone.
StopWithoutRoot ==
    /\ main = "root"
    /\ main' = "join"
    /\ UNCHANGED <<config, queue, state, armed, threadVars, active, stopFlag, autoStop>>

\* The root fiber is resumed, and executes run(), unless stopping() holds already.
StopRoot ==
    /\ main = "root"
    /\ main' = "join"
    /\ pc' = [pc EXCEPT ![Caller] = IF Stopping THEN pc[Caller] ELSE "scan"]
    /\ UNCHANGED <<config, queue, state, armed, cur, branch, idleTerm, active,
                   stopFlag, autoStop>>

\* The caller is back from the root fiber and has joined every worker.
StopReturn ==
    /\ main = "join"
    /\ \A t \in Threads : pc[t] \in {"exited", "off"}
    /\ main' = "returned"
    /\ UNCHANGED <<config, queue, state, armed, threadVars, active, stopFlag, autoStop>>

-----------------------------------------------------------------------------
RunStep(t) ==
    \/ TakeTask(t) \/ FindNothing(t) \/ Idle(t)
    \/ Resume(t) \/ DropFinished(t) \/ Deactivate(t)
    \/ SettleReady(t) \/ SettleFinished(t) \/ SettleHold(t)

Leave(t, j) == Return(t, j) \/ Throw(t, j) \/ YieldToReady(t, j) \/ YieldToHold(t, j)

Stop == StopCall \/ StopCheck \/ StopFlag \/ StopRoot \/ StopReturn

Client(j) == Submit(j) \/ SubmitFinished(j) \/ Wake(j) \/ \E k \in Jobs : SubmitBatch(j, k)

Next ==
    \/ \E t \in Threads : RunStep(t)
    \/ \E t \in Threads, j \in Jobs : Leave(t, j) \/ Arm(t, j)
    \/ \E j \in Jobs : Client(j)
    \/ Start
    \/ Stop

Spec == Init /\ [][Next]_vars

\* Every thread keeps running, every body reaches a yield or its end, and the caller
\* gets through start() and stop().
Fairness ==
    /\ \A t \in Threads : WF_vars(RunStep(t))
    /\ \A t \in Threads : WF_vars(\E j \in Jobs : Leave(t, j))
    /\ WF_vars(Start \/ Stop)

FairSpec == Spec /\ Fairness

-----------------------------------------------------------------------------
(* Properties.                                                              *)

\* Types of the state (Scheduler.h:306-319, Fiber.h:19).
TypeOK ==
    /\ crew \subseteq Workers /\ useCaller \in BOOLEAN
    /\ queue \in Seq(Entry)
    /\ state \in [Jobs -> States]
    /\ armed \subseteq Jobs
    /\ pc \in [Threads -> {"off", "scan", "idle", "dispatch", "run", "dec", "settle",
                          "exited", "abort"}]
    /\ cur \in [Threads -> Jobs \cup {NoJob}]
    /\ branch \in [Threads -> {"FIBER", "FUNCTION"}]
    /\ idleTerm \in [Threads -> BOOLEAN]
    /\ active \in Nat
    /\ stopFlag \in BOOLEAN /\ autoStop \in BOOLEAN
    /\ main \in {"created", "started", "check", "flag", "root", "join", "returned"}

\* No fiber is in the hands of two threads: the state test of the scan is made under
\* m_mutex, but resume() and everything after it is not (Scheduler.cc:274, 303).
FiberExclusive ==
    \A t, u \in Threads : t # u /\ cur[t] # NoJob => cur[t] # cur[u]

\* A job has at most one way to be executed next: one queue entry, or an armed wake-up
\* source, or the thread that holds it.  Both at once only while the fiber is parking,
\* and then its state EXEC keeps the entry from being taken (Scheduler.cc:273-277).
OneWayOn ==
    /\ NoTwice(queue)
    /\ \A j \in Jobs :
        /\ ~(j \in armed /\ Queued(j))
        /\ Parking(j) /\ Owned(j) =>
            /\ state[j] = "EXEC"
            /\ \E t \in Threads : Owns(t, j) /\ pc[t] \in {"run", "dec", "settle"}

\* No job is dropped: one that can run is in the queue or held by a thread, and one
\* that is parked has its wake-up source armed or is already back in the queue.
NothingLost ==
    \A j \in Jobs :
        /\ state[j] \in {"INIT", "READY"} => Queued(j) \/ Owned(j)
        /\ state[j] = "EXEC" => Owned(j)
        /\ state[j] = "HOLD" => Queued(j) \/ j \in armed \/ Owned(j)

\* m_activeThreadCount counts the threads between taking a task and the decrement on
\* each of the three ways out of an execution (Scheduler.cc:281, 304, 325, 340).
ActiveExact == active = Cardinality({t \in Threads : pc[t] \in {"dispatch", "run", "dec"}})

\* No assertion of run(), resume() or reset() fails (Fiber.cc:116, 132).
NoAssertionFails == ~Aborted

\* One does when a function has let an exception out: MainFunc() makes its fiber EXCEPT, and
\* run() resets it all the same.  None fails for another reason, whatever the threads do
\* between the scan and resume() (Scheduler.cc:286-331, Fiber.cc:116, 132).
OnlyThrowsAbort ==
    [][\A t \in Threads : pc[t] # "abort" /\ pc'[t] = "abort" =>
          branch[t] = "FUNCTION" /\ state[cur[t]] = "EXCEPT"]_vars

\* "Stops all worker threads gracefully, waiting for all tasks to complete"
\* (Scheduler.h:86): when stop() returns, no submitted job can still run.  A job that is
\* parked then stays so: that somebody wakes it later is no affair of the base Scheduler.
StopDrains ==
    main = "returned" =>
        \A j \in Jobs : state[j] \in {"NEW", "HOLD"} \cup Finished /\ ~Queued(j)

\* A task in the queue is taken at last: no later task, and no task of another thread,
\* keeps it from being reached (Scheduler.cc:263-284).  Tasks bound to the caller are
\* executed in stop() only.
EveryTaskTaken ==
    \A j \in Jobs : Queued(j) /\ Home[j] # Caller ~> ~Queued(j)

\* stop() returns, unless the body of some job goes on for ever: the last threads find
\* stopping() true, their idle fibers return and they leave run() (Scheduler.cc:344-347,
\* 396-401, 416-420).
BodiesEnd == \A j \in Jobs : <>[](state[j] \in {"NEW", "HOLD"} \cup Finished)
StopReturns == BodiesEnd => (main = "flag" ~> main = "returned")

-----------------------------------------------------------------------------
(* The scheduler implements TaskPool.                                       *)

\* What a client sees of a job.  Back from resume(), a job is settled by its state; a
\* parking one is ready as soon as its wake-up has queued it.
Status(j) ==
    IF \E t \in Threads : Owns(t, j) /\ pc[t] = "run" THEN "running"
    ELSE CASE state[j] = "NEW" -> "new"
           [] state[j] \in Finished -> "done"
           [] state[j] \in {"INIT", "READY"} -> "ready"
           [] OTHER -> IF Queued(j) \/ \E t \in Threads : Owns(t, j) /\ pc[t] = "dispatch"
                       THEN "ready" ELSE "parked"

Pool == INSTANCE TaskPool WITH
    status <- [j \in Jobs |-> Status(j)],
    doing <- [t \in Threads |-> IF pc[t] = "run" THEN cur[t] ELSE NoJob],
    closed <- main = "returned"

\* Every behaviour of run(), schedule() and stop() is one of TaskPool: each job is
\* executed by one thread at a time and to its end once, and stop() returns only when
\* nothing can run (Scheduler.h:84-88).
ImplementsTaskPool == Pool!PoolSpec
=============================================================================
