------------------------------- MODULE Timers --------------------------------
(***************************************************************************)
(* East::Timer and East::TimerManager (Timer.cc, Timer.h): timers in a set *)
(* ordered by their time and, among equal times, by their address; every   *)
(* operation is one critical section of the manager's RWLock, except that  *)
(* addTimer() unlocks before it calls onTimerInsertAtFront().              *)
(***************************************************************************)
EXTENDS Integers, FiniteSets

CONSTANTS
    Timers,     \* the timer objects, named by their addresses
    Clients,    \* threads that add, cancel, refresh and reset timers
    Periods,    \* the periods in use, in ms
    MaxTime     \* bound: the clock stops here

ASSUME TimersAssumption == Timers \subseteq Nat /\ Periods \subseteq Nat /\ MaxTime \in Nat

VARIABLES
    now,        \* GetCurrentTimeInMs()
    timers,     \* m_timers
    exec,       \* m_execute_time of each timer
    period,     \* m_period
    recurring,  \* m_recurring
    callback,   \* m_cb is not null
    tickled,    \* m_tickled
    client      \* each client: ready, or about to insert a timer, or about to tickle

timerVars == <<now, timers, exec, period, recurring, callback, tickled, client>>
fields == <<period, recurring, callback>>

NoTimer == -1
Ready == [pc |-> "ready", timer |-> NoTimer]

\* Timer::Cmp
Before(s, t) == exec[s] < exec[t] \/ (exec[s] = exec[t] /\ s < t)
IsFront(t, S) == \A s \in S \ {t} : Before(t, s)
Front == CHOOSE t \in timers : IsFront(t, timers)

TimersInit ==
    /\ now = 0
    /\ timers = {}
    /\ exec = [t \in Timers |-> 0]
    /\ period = [t \in Timers |-> 0]
    /\ recurring = [t \in Timers |-> FALSE]
    /\ callback = [t \in Timers |-> FALSE]
    /\ tickled = FALSE
    /\ client = [c \in Clients |-> Ready]

-----------------------------------------------------------------------------
(* Operations of the clients.                                               *)

\* The constructor reads the clock before the manager is locked.
Make(c, t, p, r) ==
    /\ client[c] = Ready
    /\ ~callback[t] /\ t \notin timers
    /\ exec' = [exec EXCEPT ![t] = now + p]
    /\ period' = [period EXCEPT ![t] = p]
    /\ recurring' = [recurring EXCEPT ![t] = r]
    /\ callback' = [callback EXCEPT ![t] = TRUE]
    /\ client' = [client EXCEPT ![c] = [pc |-> "insert", timer |-> t]]
    /\ UNCHANGED <<now, timers, tickled>>

\* addTimer(timer, lock), for a manager that holds the timers of S: the first in line is
\* announced, after the unlock, unless one has been since the flag was last cleared.
InsertLocked(c, S, t) ==
    /\ timers' = S \cup {t}
    /\ LET first == ~tickled /\ \A s \in S : exec'[t] < exec[s] \/ (exec'[t] = exec[s] /\ t < s)
       IN  /\ tickled' = (tickled \/ first)
           /\ client' = [client EXCEPT ![c] =
                IF first THEN [pc |-> "tickle", timer |-> NoTimer] ELSE Ready]

Insert(c) ==
    /\ client[c].pc = "insert"
    /\ exec' = exec
    /\ InsertLocked(c, timers, client[c].timer)
    /\ UNCHANGED <<now, fields>>

\* Timers that lose their callback.  No operation looks at their other fields again (a
\* reset() that would change nothing returns before it looks at anything), so the model
\* forgets these.
Dispose(S) ==
    /\ callback' = [t \in Timers |-> callback[t] /\ t \notin S]
    /\ recurring' = [t \in Timers |-> recurring[t] /\ t \notin S]
    /\ period' = [t \in Timers |-> IF t \in S THEN 0 ELSE period[t]]

\* A client can use a timer once addTimer() has returned it.
Known(t) == \A c \in Clients : client[c].timer # t

Cancel(c, t) ==
    /\ client[c] = Ready /\ Known(t)
    /\ callback[t]
    /\ timers' = timers \ {t}
    /\ exec' = [exec EXCEPT ![t] = 0]
    /\ Dispose({t})
    /\ UNCHANGED <<now, tickled, client>>

\* refresh() puts the timer back without addTimer(): it can only have moved backwards.
Refresh(c, t) ==
    /\ client[c] = Ready /\ Known(t)
    /\ callback[t] /\ t \in timers
    /\ exec' = [exec EXCEPT ![t] = now + period[t]]
    /\ UNCHANGED <<now, timers, fields, tickled, client>>

\* Slip: m_period is assigned before the old start is computed from it.
ResetPeriodFirst(c, t, p, fromNow) ==
    /\ client[c] = Ready /\ Known(t)
    /\ p # period[t] \/ fromNow
    /\ callback[t] /\ t \in timers
    /\ exec' = [exec EXCEPT ![t] = IF fromNow THEN now + p ELSE exec[t]]
    /\ period' = [period EXCEPT ![t] = p]
    /\ InsertLocked(c, timers \ {t}, t)
    /\ UNCHANGED <<now, recurring, callback>>

Reset(c, t, p, fromNow) ==
    /\ client[c] = Ready /\ Known(t)
    /\ p # period[t] \/ fromNow
    /\ callback[t] /\ t \in timers
    /\ exec' = [exec EXCEPT ![t] = (IF fromNow THEN now ELSE exec[t] - period[t]) + p]
    /\ period' = [period EXCEPT ![t] = p]
    /\ InsertLocked(c, timers \ {t}, t)
    /\ UNCHANGED <<now, recurring, callback>>

-----------------------------------------------------------------------------
(* Operations of the event loop.                                            *)

\* Slip: the flag stays set.
ForgetfulGetNextTimer == UNCHANGED tickled

\* getNextTimer(): with no timer it returns before it clears the flag.
GetNextTimer == tickled' = (tickled /\ timers = {})

NextTimeout(none) ==
    IF timers = {} THEN none
    ELSE IF now >= exec[Front] THEN 0 ELSE exec[Front] - now

Expired == {t \in timers : exec[t] <= now}

\* Slip: a timer that has fired keeps its callback.
KeepCallbacks ==
    /\ timers' = (timers \ Expired) \cup {t \in Expired : recurring[t]}
    /\ exec' = [t \in Timers |-> IF t \in Expired THEN now + period[t] ELSE exec[t]]
    /\ UNCHANGED <<now, fields, tickled, client>>

\* listExpiredCb(): the expired timers leave the set; the recurring ones come back with a
\* new time, without addTimer(), and the others lose their callback.
ListExpiredCb ==
    LET again == {t \in Expired : recurring[t]} IN
    /\ timers' = (timers \ Expired) \cup again
    /\ exec' = [t \in Timers |-> CASE t \in again -> now + period[t]
                              [] t \in Expired \ again -> 0
                              [] OTHER -> exec[t]]
    /\ Dispose(Expired \ again)
    /\ UNCHANGED <<now, tickled, client>>

-----------------------------------------------------------------------------
TimerTypeOK ==
    /\ now \in 0 .. MaxTime
    /\ timers \subseteq Timers
    /\ exec \in [Timers -> Nat]
    /\ period \in [Timers -> Nat]
    /\ recurring \in [Timers -> BOOLEAN]
    /\ callback \in [Timers -> BOOLEAN]
    /\ tickled \in BOOLEAN
    /\ \A t \in timers : period[t] <= exec[t]
    /\ client \in [Clients -> [pc : {"ready", "insert", "tickle"}, timer : Timers \cup {NoTimer}]]

\* A timer that its users know has a callback exactly while it is in the set, so that the
\* iterator cancel() erases is never end() and a fired timer cannot be refreshed back
\* (Timer.cc:39-42, 53, 74, 184-194).
CallbackIffArmed ==
    \A t \in Timers : Known(t) => (callback[t] <=> t \in timers)
=============================================================================
