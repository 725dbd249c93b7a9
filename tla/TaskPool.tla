------------------------------ MODULE TaskPool -------------------------------
(***************************************************************************)
(* What East::Scheduler promises its clients, without queue, counters or   *)
(* fiber states: every job handed over is executed by one thread at a      *)
(* time, resumes only after it yielded or was woken, runs to its end       *)
(* exactly once, and stop() returns only when no job is able to run.       *)
(***************************************************************************)
CONSTANTS Jobs, Threads, NoJob

VARIABLES
    status,     \* new, ready, running, parked or done
    doing,      \* the job each thread executes, or NoJob
    closed      \* stop() has returned

poolVars == <<status, doing, closed>>

PoolInit ==
    /\ status = [j \in Jobs |-> "new"]
    /\ doing = [t \in Threads |-> NoJob]
    /\ closed = FALSE

\* Jobs are handed over, one or several at a time.
Accept ==
    /\ ~closed
    /\ \E S \in SUBSET Jobs :
        /\ \A j \in S : status[j] = "new"
        /\ status' = [j \in Jobs |-> IF j \in S THEN "ready" ELSE status[j]]
    /\ UNCHANGED <<doing, closed>>

Begin(t, j) ==
    /\ ~closed
    /\ status[j] = "ready"
    /\ doing[t] = NoJob
    /\ status' = [status EXCEPT ![j] = "running"]
    /\ doing' = [doing EXCEPT ![t] = j]
    /\ UNCHANGED closed

\* The job leaves its thread: it can run on, waits for its wake-up, or has ended.
End(t, j) ==
    /\ doing[t] = j
    /\ \E s \in {"ready", "parked", "done"} : status' = [status EXCEPT ![j] = s]
    /\ doing' = [doing EXCEPT ![t] = NoJob]
    /\ UNCHANGED closed

Awaken(j) ==
    /\ ~closed
    /\ status[j] = "parked"
    /\ status' = [status EXCEPT ![j] = "ready"]
    /\ UNCHANGED <<doing, closed>>

Close ==
    /\ ~closed
    /\ \A j \in Jobs : status[j] \notin {"ready", "running"}
    /\ closed' = TRUE
    /\ UNCHANGED <<status, doing>>

PoolNext ==
    \/ Accept
    \/ \E j \in Jobs : Awaken(j) \/ \E t \in Threads : Begin(t, j) \/ End(t, j)
    \/ Close

PoolSpec == PoolInit /\ [][PoolNext]_poolVars
=============================================================================
