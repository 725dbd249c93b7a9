----------------------------- MODULE EventPool -----------------------------
(***************************************************************************)
(* What East::IOManager promises its clients, without epoll, pipe, idle    *)
(* fibers or counters: a job is in line, on one thread, waiting for one    *)
(* event or asleep, and when its wait ends it is in line again.  Threads   *)
(* take the jobs in the order of the line.                                 *)
(***************************************************************************)
EXTENDS Sequences, SequencesExt

CONSTANTS Jobs, Threads, NoJob, Fds, Events

VARIABLES
    line,       \* the jobs that can run
    doing,      \* the job each thread executes, or NoJob
    waits,      \* who waits for each event of each descriptor, or NoJob
    asleep      \* who waits for a time

poolVars == <<line, doing, waits, asleep>>

PoolInit ==
    /\ line = <<>>
    /\ doing = [t \in Threads |-> NoJob]
    /\ waits = [f \in Fds |-> [e \in Events |-> NoJob]]
    /\ asleep = {}

\* A job that is in no place: it is new, has ended, or nobody will ever wake it.
Away(j) ==
    /\ \A i \in 1 .. Len(line) : line[i] # j
    /\ \A t \in Threads : doing[t] # j
    /\ \A f \in Fds, e \in Events : waits[f][e] # j
    /\ j \notin asleep

Accept(j) ==
    /\ line' = Append(line, j)
    /\ Away(j)
    /\ UNCHANGED <<doing, waits, asleep>>

Take(t) ==
    /\ line # <<>> /\ doing[t] = NoJob
    /\ doing' = [doing EXCEPT ![t] = Head(line)]
    /\ line' = Tail(line)
    /\ UNCHANGED <<waits, asleep>>

\* Only one job waits for the same.
Await(f, e, j) ==
    /\ waits[f][e] = NoJob
    /\ waits' = [waits EXCEPT ![f][e] = j]

\* The running job ends, falls asleep or waits.
Yield(t) ==
    /\ doing[t] # NoJob
    /\ doing' = [doing EXCEPT ![t] = NoJob]
    /\ \/ UNCHANGED <<waits, asleep>>
       \/ asleep' = asleep \cup {doing[t]} /\ UNCHANGED waits
       \/ \E f \in Fds, e \in Events : Await(f, e, doing[t]) /\ UNCHANGED asleep
    /\ UNCHANGED line

Busy == \E t \in Threads : doing[t] # NoJob

\* A running job makes another one wait.
Leave(f, e, j) ==
    /\ Busy /\ Await(f, e, j) /\ Away(j)
    /\ UNCHANGED <<line, doing, asleep>>

\* A running job ends a wait for ever.
Forget(f, e) ==
    /\ Busy /\ waits[f][e] # NoJob
    /\ waits' = [waits EXCEPT ![f][e] = NoJob]
    /\ UNCHANGED <<line, doing, asleep>>

Waiters == {waits[f][e] : f \in Fds, e \in Events} \ {NoJob}

\* Some waits end together: whoever waited joins the line.
Awaken ==
    /\ UNCHANGED doing
    /\ \E S \in SUBSET (asleep \cup Waiters) :
        /\ \E s \in SetToSeqs(S) : line' = line \o s
        /\ waits' = [f \in Fds |-> [e \in Events |->
                        IF waits[f][e] \in S THEN NoJob ELSE waits[f][e]]]
        /\ asleep' = asleep \ S

PoolNext ==
    /\ poolVars' # poolVars
    /\ \/ \E j \in Jobs : Accept(j)
       \/ \E t \in Threads : Take(t) \/ Yield(t)
       \/ \E f \in Fds, e \in Events : Forget(f, e) \/ \E j \in Jobs : Leave(f, e, j)
       \/ Awaken

PoolSpec == PoolInit /\ [][PoolNext]_poolVars
=============================================================================
