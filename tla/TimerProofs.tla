---------------------------- MODULE TimerProofs -----------------------------
(***************************************************************************)
(* Safety of TimerLoop for any timers, clients and threads.  TInv adds to  *)
(* the checked invariants who owns a timer between its construction and    *)
(* its insertion, when it has a callback and is in no set yet.  AlarmInv   *)
(* is what makes the timers alarms: none starts in the future.             *)
(* LateInv says why no timer is later than IdleSleep: an insertion that    *)
(* wakes nobody finds a loop that is alert.                                *)
(***************************************************************************)
EXTENDS TimerLoop, OrderLemmas, TLAPS

\* A client about to insert a timer is the only one that has it, and the timer is as
\* addTimer() expects it.
OwnersInv ==
    /\ \A c \in Clients : client[c].pc = "insert" <=> client[c].timer # NoTimer
    /\ \A c, d \in Clients :
          client[c].timer = client[d].timer /\ client[c].timer # NoTimer => c = d
    /\ \A c \in Clients : client[c].timer # NoTimer =>
          /\ callback[client[c].timer]
          /\ client[c].timer \notin timers
          /\ period[client[c].timer] <= exec[client[c].timer]

TInv == TypeOK /\ CallbackIffArmed /\ OwnersInv

\* Cmp is a total order with a least element: a set of timers that is not empty has a front.
LEMMA FrontExists ==
    ASSUME timers # {}, timers \subseteq Timers, exec \in [Timers -> Nat]
    PROVE  Front \in timers /\ IsFront(Front, timers)
<1> DEFINE times == {exec[t] : t \in timers}
<1>1. PICK m \in times : \A n \in times : m <= n
  <2>1. times \subseteq Nat /\ times # {}
    OBVIOUS
  <2> QED BY <2>1, LeastNumber
<1> DEFINE first == {t \in timers : exec[t] = m}
<1>2. PICK t \in first : \A s \in first : t <= s
  <2>1. first \subseteq Nat /\ first # {}
    BY TimersAssumption
  <2> QED BY <2>1, LeastNumber
<1>3. IsFront(t, timers)
  BY <1>1, <1>2, TimersAssumption DEF IsFront, Before
<1> QED BY <1>2, <1>3 DEF Front

\* What idle() sleeps is a length of time, also when the first timer is overdue.
LEMMA SleepType ==
    ASSUME TypeOK
    PROVE  SleepFor(NextTimeout(None)) \in Nat
<1>1. NextTimeout(None) = None \/ NextTimeout(None) \in Nat
  <2>1. CASE timers = {}
    BY <2>1 DEF NextTimeout
  <2>2. CASE timers # {}
    <3>1. exec[Front] \in Nat /\ now \in Nat
      BY <2>2, FrontExists DEF TypeOK, TimerTypeOK
    <3> QED BY <2>2, <3>1 DEF NextTimeout
  <2> QED BY <2>1, <2>2
<1> QED BY <1>1, SleepAssumption DEF SleepFor

LEMMA InitTInv == Init => TInv
<1> SUFFICES ASSUME Init PROVE TInv
  OBVIOUS
<1> USE DEF Init, TimersInit
<1>1. TypeOK
  <2>1. TimerTypeOK
    <3>1. client \in [Clients -> [pc : {"ready", "insert", "tickle"}, timer : Timers \cup {NoTimer}]]
      BY DEF Ready
    <3>2. now \in 0 .. MaxTime
      BY TimersAssumption
    <3> QED BY <3>1, <3>2 DEF TimerTypeOK
  <2> QED BY <2>1 DEF TypeOK
<1>2. CallbackIffArmed
  BY DEF CallbackIffArmed
<1>3. OwnersInv
  BY DEF OwnersInv, Ready
<1> QED BY <1>1, <1>2, <1>3 DEF TInv

\* No operation of a client breaks the invariant.
LEMMA ClientNext ==
    ASSUME TInv, NEW c \in Clients, ClientStep(c)
    PROVE  TInv'
<1> USE TimersAssumption DEF TInv, TypeOK, TimerTypeOK, CallbackIffArmed, OwnersInv, Known,
        Ready, NoTimer, fields
<1>1. ASSUME NEW t \in Timers, NEW p \in Periods, NEW r \in BOOLEAN, Make(c, t, p, r),
             UNCHANGED <<loop, wakeAt, gotPipe, cbs, pipeVars>>
      PROVE  TInv'
  BY <1>1 DEF Make, pipeVars
<1>2. ASSUME NEW t \in Timers, NEW p \in Periods, NEW r \in BOOLEAN, Reset(c, t, p, r),
             UNCHANGED <<loop, wakeAt, gotPipe, cbs, pipeVars>>
      PROVE  TInv'
  BY <1>2 DEF Reset, InsertLocked, pipeVars
<1>3. ASSUME NEW t \in Timers, Cancel(c, t), UNCHANGED <<loop, wakeAt, gotPipe, cbs, pipeVars>>
      PROVE  TInv'
  BY <1>3 DEF Cancel, Dispose, pipeVars
<1>4. ASSUME NEW t \in Timers, Refresh(c, t), UNCHANGED <<loop, wakeAt, gotPipe, cbs, pipeVars>>
      PROVE  TInv'
  BY <1>4 DEF Refresh, pipeVars
<1>5. ASSUME Insert(c), UNCHANGED <<loop, wakeAt, gotPipe, cbs, pipeVars>>
      PROVE  TInv'
  <2> DEFINE t == client[c].timer
  <2>1. t \in Timers /\ t # NoTimer /\ callback[t] /\ t \notin timers /\ period[t] <= exec[t]
    BY <1>5 DEF Insert
  <2>2. \A d \in Clients \ {c} : client[d].timer # t /\ client'[d] = client[d]
    BY <1>5, <2>1 DEF Insert, InsertLocked
  <2>3. client'[c].timer = NoTimer /\ client'[c].pc \in {"ready", "tickle"}
    BY <1>5 DEF Insert, InsertLocked
  <2>4. timers' = timers \cup {t} /\ tickled' \in BOOLEAN
    BY <1>5 DEF Insert, InsertLocked
  <2>5. TypeOK'
    BY <1>5, <2>1, <2>4 DEF Insert, InsertLocked, pipeVars
  <2>6. CallbackIffArmed'
    BY <1>5, <2>1, <2>2, <2>3, <2>4 DEF Insert
  <2>7. OwnersInv'
    BY <1>5, <2>1, <2>2, <2>3, <2>4 DEF Insert
  <2> QED BY <2>5, <2>6, <2>7
<1> QED BY <1>1, <1>2, <1>3, <1>4, <1>5 DEF ClientStep

LEMMA LoopNext ==
    ASSUME TInv, NEW h \in Threads, LoopStep(h)
    PROVE  TInv'
<1> USE TimersAssumption DEF TInv, TypeOK, TimerTypeOK, CallbackIffArmed, OwnersInv, Known,
        NoTimer, Goto, pipeVars, fields
<1>1. ASSUME EnterIdle(h) PROVE TInv'
  BY <1>1 DEF EnterIdle, timerVars
<1>2. ASSUME GoToSleep(h) PROVE TInv'
  <2>1. wakeAt' \in [Threads -> Nat]
    <3>1. SleepFor(NextTimeout(None)) \in Nat
      BY SleepType
    <3> QED BY <1>2, <3>1 DEF GoToSleep
  <2> QED BY <1>2, <2>1 DEF GoToSleep, GetNextTimer
<1>3. ASSUME WakeByPipe(h) PROVE TInv'
  BY <1>3 DEF WakeByPipe, timerVars
<1>4. ASSUME WakeByTimeout(h) PROVE TInv'
  BY <1>4 DEF WakeByTimeout, timerVars
<1>5. ASSUME Expire(h) PROVE TInv'
  BY <1>5 DEF Expire, ListExpiredCb, Expired, Dispose
<1>6. ASSUME Drain(h) PROVE TInv'
  BY <1>6 DEF Drain, timerVars
<1> QED BY <1>1, <1>2, <1>3, <1>4, <1>5, <1>6 DEF LoopStep

LEMMA NextTInv == TInv /\ [Next]_vars => TInv'
<1> SUFFICES ASSUME TInv, [Next]_vars PROVE TInv'
  OBVIOUS
<1>1. ASSUME NEW c \in Clients, ClientStep(c) PROVE TInv'
  BY <1>1, ClientNext
<1>2. ASSUME NEW c \in Clients, Tickle(c) PROVE TInv'
  BY <1>2 DEF Tickle, TInv, TypeOK, TimerTypeOK, CallbackIffArmed, OwnersInv, Known, Ready,
      NoTimer, fields, pipeVars
<1>3. ASSUME NEW h \in Threads, LoopStep(h) PROVE TInv'
  BY <1>3, LoopNext
<1>4. ASSUME Tick PROVE TInv'
  BY <1>4, TimersAssumption DEF Tick, TInv, TypeOK, TimerTypeOK, CallbackIffArmed, OwnersInv,
      Known, NoTimer, fields, pipeVars
<1>5. CASE UNCHANGED vars
  BY <1>5 DEF vars, timerVars, pipeVars, TInv, TypeOK, TimerTypeOK, CallbackIffArmed, OwnersInv,
      Known
<1> QED BY <1>1, <1>2, <1>3, <1>4, <1>5 DEF Next

THEOREM TimersInductive == Spec => []TInv
BY InitTInv, NextTInv, PTL DEF Spec

\* Type correctness; in particular m_execute_time - m_period never wraps in reset(), and
\* epoll_wait is never given a negative time.
THEOREM TimerTypeCorrect == Spec => []TypeOK
BY TimersInductive, PTL DEF TInv

\* A timer its users know has a callback exactly while it is in the set: cancel() never
\* erases end(), and refresh() and reset() never bring back a timer that has fired.
THEOREM Armed == Spec => []CallbackIffArmed
BY TimersInductive, PTL DEF TInv

-----------------------------------------------------------------------------
(* The timers are alarms.                                                   *)

\* The start of a timer, m_execute_time - m_period, is not in the future.
StartInv ==
    \A t \in Timers :
        t \in timers \/ (\E c \in Clients : client[c].timer = t) => exec[t] <= now + period[t]

\* Callbacks are in a thread's hand only between listExpiredCb() and schedule().
HandInv == \A h \in Threads : loop[h] # "drain" => cbs[h] = {}

AlarmInv == StartInv /\ HandInv

LEMMA AlarmInit == Init => AlarmInv
BY DEF Init, TimersInit, AlarmInv, StartInv, HandInv, Ready, NoTimer

\* Clients start timers now, or leave their start where it was.
LEMMA StartClient ==
    ASSUME TInv, StartInv, NEW c \in Clients, ClientStep(c)
    PROVE  StartInv'
<1> USE TimersAssumption DEF TInv, TypeOK, TimerTypeOK
<1>1. ASSUME NEW t \in Timers, NEW p \in Periods, NEW r \in BOOLEAN, Make(c, t, p, r)
      PROVE  StartInv'
  BY <1>1 DEF Make, StartInv, NoTimer
<1>2. ASSUME NEW t \in Timers, NEW p \in Periods, NEW r \in BOOLEAN, Reset(c, t, p, r)
      PROVE  StartInv'
  <2>1. /\ exec[t] <= now + period[t] /\ period[t] <= exec[t] /\ p \in Nat
        /\ exec' = [exec EXCEPT ![t] = (IF r THEN now ELSE exec[t] - period[t]) + p]
        /\ period' = [period EXCEPT ![t] = p] /\ now' = now /\ timers' = timers
    BY <1>2 DEF Reset, StartInv, InsertLocked
  <2>2. exec'[t] \in Nat /\ exec'[t] <= now + p
    BY <2>1
  <2>3. client'[c].timer = NoTimer /\ \A d \in Clients \ {c} : client'[d] = client[d]
    BY <1>2 DEF Reset, InsertLocked, Ready
  <2> QED BY <2>1, <2>2, <2>3 DEF StartInv, NoTimer
<1>3. ASSUME NEW t \in Timers, Cancel(c, t) PROVE StartInv'
  BY <1>3 DEF Cancel, Dispose, StartInv, Known
<1>4. ASSUME NEW t \in Timers, Refresh(c, t) PROVE StartInv'
  BY <1>4 DEF Refresh, StartInv, fields
<1>5. ASSUME Insert(c) PROVE StartInv'
  <2>1. PICK t \in Timers : t = client[c].timer /\ t \notin timers
    BY <1>5 DEF Insert, OwnersInv
  <2>2. exec' = exec /\ period' = period /\ now' = now /\ timers' = timers \cup {t}
    BY <1>5, <2>1 DEF Insert, InsertLocked, fields
  <2>3. client'[c].timer = NoTimer /\ \A d \in Clients \ {c} : client'[d] = client[d]
    BY <1>5 DEF Insert, InsertLocked, Ready
  <2>4. ASSUME NEW s \in Timers, s \in timers' \/ \E d \in Clients : client'[d].timer = s
        PROVE  s \in timers \/ \E d \in Clients : client[d].timer = s
    BY <2>1, <2>2, <2>3, <2>4 DEF NoTimer
  <2> QED BY <2>2, <2>4 DEF StartInv
<1> QED BY <1>1, <1>2, <1>3, <1>4, <1>5 DEF ClientStep

\* A timer that has fired starts again now.
LEMMA StartExpire ==
    ASSUME TInv, StartInv, ListExpiredCb
    PROVE  StartInv'
<1> USE TimersAssumption DEF TInv, TypeOK, TimerTypeOK
<1>1. /\ now' = now /\ client' = client /\ timers' \subseteq timers
      /\ \A t \in Timers : t \in timers' => exec'[t] \in {exec[t], now + period[t]} /\ period'[t] = period[t]
      /\ \A t \in Timers : t \notin timers => exec'[t] = exec[t] /\ period'[t] = period[t]
  BY DEF ListExpiredCb, Dispose, Expired
<1>2. ASSUME NEW t \in Timers, NEW c \in Clients, client[c].timer = t PROVE t \notin timers
  BY <1>2 DEF OwnersInv, NoTimer
<1> QED BY <1>1, <1>2 DEF StartInv

LEMMA AlarmNext == TInv /\ AlarmInv /\ [Next]_vars => AlarmInv'
<1> SUFFICES ASSUME TInv, StartInv, HandInv, [Next]_vars PROVE StartInv' /\ HandInv'
  BY DEF AlarmInv
<1> USE TimersAssumption DEF TInv, TypeOK, TimerTypeOK
<1>1. ASSUME NEW c \in Clients, ClientStep(c) PROVE StartInv' /\ HandInv'
  BY <1>1, StartClient DEF ClientStep, HandInv
<1>2. ASSUME NEW c \in Clients, Tickle(c) PROVE StartInv' /\ HandInv'
  BY <1>2 DEF Tickle, StartInv, HandInv, fields, Ready, NoTimer
<1>3. ASSUME NEW h \in Threads, Expire(h) PROVE StartInv' /\ HandInv'
  BY <1>3, StartExpire DEF Expire, HandInv, Goto
<1>4. ASSUME NEW h \in Threads,
             EnterIdle(h) \/ GoToSleep(h) \/ WakeByPipe(h) \/ WakeByTimeout(h) \/ Drain(h)
      PROVE  StartInv' /\ HandInv'
  <2>1. StartInv'
    BY <1>4 DEF EnterIdle, GoToSleep, WakeByPipe, WakeByTimeout, Drain, StartInv, timerVars, fields
  <2>2. /\ (cbs' = cbs /\ loop[h] # "drain") \/ cbs' = [cbs EXCEPT ![h] = {}]
        /\ \A g \in Threads \ {h} : loop'[g] = loop[g]
    BY <1>4 DEF EnterIdle, GoToSleep, WakeByPipe, WakeByTimeout, Drain, Goto, Asleep
  <2>3. HandInv'
    BY <2>2 DEF HandInv
  <2> QED BY <2>1, <2>3
<1>5. CASE Tick
  BY <1>5 DEF Tick, StartInv, HandInv, fields
<1>6. CASE UNCHANGED vars
  BY <1>6 DEF vars, timerVars, fields, StartInv, HandInv
<1> QED BY <1>1, <1>2, <1>3, <1>4, <1>5, <1>6 DEF Next, LoopStep

THEOREM AlarmInductive == Spec => []AlarmInv
BY AlarmInit, AlarmNext, TimersInductive, PTL DEF Spec

\* Each step of the loop and of its clients is one of the alarms' own or leaves them alone.
LEMMA AlarmStep == TInv /\ AlarmInv /\ [Next]_vars => [A!Next]_(A!vars)
<1> SUFFICES ASSUME TInv, StartInv, HandInv, [Next]_vars PROVE [A!Next]_(A!vars)
  BY DEF AlarmInv
<1> USE TimersAssumption DEF TInv, TypeOK, TimerTypeOK
<1> DEFINE view == [t \in timers |->
                      [start |-> exec[t] - period[t], period |-> period[t], again |-> recurring[t]]]
<1>a. A!Set = timers /\ A!Set' = timers'
  BY DEF A!Set
<1>1. ASSUME NEW c \in Clients, NEW t \in Timers, NEW p \in Periods, NEW r \in BOOLEAN,
             Make(c, t, p, r), cbs' = cbs
      PROVE  UNCHANGED A!vars
  <2>1. \A s \in timers : s # t
    BY <1>1 DEF Make
  <2>2. view' = view
    BY <1>1, <2>1 DEF Make
  <2> QED BY <1>1, <2>2 DEF Make, A!vars
<1>2. ASSUME NEW c \in Clients, Insert(c), cbs' = cbs PROVE A!Next
  <2>1. PICK t \in Timers : t = client[c].timer /\ t \notin timers
    BY <1>2 DEF Insert, OwnersInv
  <2>2. /\ UNCHANGED <<now, exec, period, recurring>> /\ timers' = timers \cup {t}
        /\ exec[t] <= now + period[t]
    BY <1>2, <2>1 DEF Insert, InsertLocked, fields, StartInv
  <2>3. A!SetAlarm(t)
    BY <1>2, <1>a, <2>1, <2>2 DEF A!SetAlarm, A!OthersStay
  <2> QED BY <2>3 DEF A!Next
<1>3. ASSUME NEW c \in Clients, NEW t \in Timers, NEW p \in Periods, NEW r \in BOOLEAN,
             Reset(c, t, p, r), cbs' = cbs
      PROVE  A!Next
  <2>1. /\ period[t] <= exec[t] /\ p \in Nat /\ t \in timers
        /\ exec' = [exec EXCEPT ![t] = (IF r THEN now ELSE exec[t] - period[t]) + p]
        /\ period' = [period EXCEPT ![t] = p]
        /\ now' = now /\ timers' = timers /\ recurring' = recurring
    BY <1>3 DEF Reset, InsertLocked
  <2>2. A!Adjust(t)
    BY <1>3, <1>a, <2>1 DEF A!Adjust, A!OthersStay
  <2> QED BY <2>2 DEF A!Next
<1>4. ASSUME NEW c \in Clients, NEW t \in Timers, Refresh(c, t), cbs' = cbs PROVE A!Next
  <2>1. A!Adjust(t)
    BY <1>4, <1>a DEF Refresh, fields, A!Adjust, A!OthersStay
  <2> QED BY <2>1 DEF A!Next
<1>5. ASSUME NEW c \in Clients, NEW t \in Timers, Cancel(c, t), cbs' = cbs PROVE A!Next
  <2>1. t \in timers
    BY <1>5 DEF Cancel, CallbackIffArmed
  <2>2. A!Drop(t)
    BY <1>5, <1>a, <2>1 DEF Cancel, Dispose, A!Drop, A!OthersStay
  <2> QED BY <2>2 DEF A!Next
<1>6. ASSUME NEW h \in Threads, Expire(h) PROVE A!Next
  <2>1. A!Ripe = Expired
    <3>1. \A t \in timers : (exec[t] - period[t]) + period[t] = exec[t]
      OBVIOUS
    <3> QED BY <1>a, <3>1 DEF A!Ripe, Expired
  <2>2. cbs[h] = {}
    BY <1>6 DEF Expire, HandInv
  <2>3. A!Collect(h)
    BY <1>6, <1>a, <2>1, <2>2 DEF Expire, ListExpiredCb, Expired, Dispose, A!Collect, A!OthersStay
  <2> QED BY <2>3 DEF A!Next
<1>7. ASSUME NEW h \in Threads, Drain(h) PROVE A!Next
  <2>1. A!HandOn(h)
    BY <1>7 DEF Drain, timerVars, fields, A!HandOn
  <2> QED BY <2>1 DEF A!Next
<1>8. ASSUME NEW h \in Threads, EnterIdle(h) \/ GoToSleep(h) \/ WakeByPipe(h) \/ WakeByTimeout(h)
      PROVE  UNCHANGED A!vars
  BY <1>8 DEF EnterIdle, GoToSleep, WakeByPipe, WakeByTimeout, timerVars, fields, A!vars
<1>9. ASSUME NEW c \in Clients, Tickle(c) PROVE UNCHANGED A!vars
  BY <1>9 DEF Tickle, fields, A!vars
<1>10. ASSUME Tick PROVE A!Next
  <2>1. A!Pass
    BY <1>10 DEF Tick, fields, A!Pass
  <2> QED BY <2>1 DEF A!Next
<1>11. CASE UNCHANGED vars
  BY <1>11 DEF vars, timerVars, fields, A!vars
<1> QED BY <1>1, <1>2, <1>3, <1>4, <1>5, <1>6, <1>7, <1>8, <1>9, <1>10, <1>11
       DEF Next, ClientStep, LoopStep

\* For any timers, clients, threads, periods and times, the set ordered by time, served by
\* threads that copy callbacks out of it, is a set of alarms.
THEOREM IsAlarms == Spec => ImplementsAlarms
<1>1. Init => A!Init
  BY DEF Init, TimersInit, A!Init, A!Set
<1> QED BY <1>1, AlarmStep, TimersInductive, AlarmInductive, PTL DEF Spec, ImplementsAlarms, A!Spec

-----------------------------------------------------------------------------
(* How late a timer can be.                                                 *)

\* Some thread will look at the timers at once, or has slept since there were none.
Alert ==
    \/ \E c \in Clients : client[c].pc = "tickle"
    \/ byte /\ edge
    \/ \E h \in Threads : loop[h] # "sleep"
    \/ \E h \in Threads : loop[h] = "sleep" /\ wakeAt[h] <= now + IdleSleep

\* A sleeper wakes in time for t.
Covered(t) == \E h \in Threads : loop[h] = "sleep" /\ wakeAt[h] <= exec[t] + IdleSleep

\* While m_tickled is set an insertion is silent, but then the loop is alert.
LateInv ==
    /\ tickled => Alert
    /\ Alert \/ \A t \in timers : Covered(t)

\* Nothing is tickled and every thread is awake.
LEMMA LateInit == ASSUME Threads # {} PROVE Init => LateInv
BY DEF Init, TimersInit, LateInv, Alert, Ready, NoTimer

\* A client's insertion tickles, or is not the first timer, or m_tickled was set.
LEMMA InsertionCovered ==
    ASSUME TInv, LateInv, NEW c \in Clients, client[c].pc # "tickle",
           NEW S \in SUBSET timers, NEW t \in Timers, exec'[t] \in Nat,
           InsertLocked(c, S, t), \A s \in S \ {t} : exec'[s] = exec[s], t \notin S,
           UNCHANGED <<now, loop, wakeAt, byte, edge>>
    PROVE  (tickled' => Alert') /\ (Alert' \/ \A s \in timers' : Covered(s)')
<1> USE DEF TInv, TypeOK, TimerTypeOK
<1>1. CASE client'[c].pc = "tickle"
  BY <1>1 DEF Alert
<1>2. CASE client'[c].pc # "tickle"
  <2>1. /\ client' = [client EXCEPT ![c] = Ready] /\ tickled' = tickled
        /\ tickled \/ ~(\A s \in S : exec'[t] < exec[s] \/ (exec'[t] = exec[s] /\ t < s))
    BY <1>2 DEF InsertLocked
  <2>2. Alert => Alert'
    BY <2>1 DEF Alert
  <2>3. CASE Alert
    BY <2>2, <2>3
  <2>4. CASE ~Alert
    <3>1. ~tickled /\ ~tickled'
      BY <2>1, <2>4 DEF LateInv
    <3>2. PICK s \in S : ~(exec'[t] < exec[s])
      BY <2>1, <3>1
    <3>3. Covered(s) /\ exec[s] \in Nat /\ exec[s] <= exec'[t]
      BY <2>4, <3>2, TimersAssumption DEF LateInv
    <3>4. Covered(t)'
      BY <3>3, SleepAssumption DEF Covered
    <3>5. ASSUME NEW r \in S PROVE Covered(r)'
      BY <2>4, <3>5 DEF Covered, LateInv
    <3>6. timers' = S \cup {t}
      BY DEF InsertLocked
    <3> QED BY <3>1, <3>4, <3>5, <3>6
  <2> QED BY <2>3, <2>4
<1> QED BY <1>1, <1>2

\* No operation of a client leaves a timer without a thread that wakes in time.
LEMMA LateClient ==
    ASSUME TInv, StartInv, LateInv, NEW c \in Clients, ClientStep(c)
    PROVE  LateInv'
<1> USE TimersAssumption DEF TInv, TypeOK, TimerTypeOK
<1>1. ASSUME NEW t \in Timers, NEW p \in Periods, NEW r \in BOOLEAN, Make(c, t, p, r),
             UNCHANGED <<loop, wakeAt, gotPipe, cbs, pipeVars>>
      PROVE  LateInv'
  <2>2. Alert => Alert'
    BY <1>1 DEF Make, Alert, pipeVars, Ready
  <2>3. \A s \in timers : Covered(s) => Covered(s)'
    BY <1>1 DEF Make, Covered
  <2> QED BY <1>1, <2>2, <2>3 DEF LateInv, Make
<1>2. ASSUME NEW t \in Timers, NEW p \in Periods, NEW r \in BOOLEAN, Reset(c, t, p, r),
             UNCHANGED <<loop, wakeAt, gotPipe, cbs, pipeVars>>
      PROVE  LateInv'
  <2>1. /\ exec[t] <= now + period[t] /\ period[t] <= exec[t] /\ p \in Nat
        /\ exec' = [exec EXCEPT ![t] = (IF r THEN now ELSE exec[t] - period[t]) + p]
        /\ period' = [period EXCEPT ![t] = p] /\ now' = now /\ timers' = timers
    BY <1>2 DEF Reset, StartInv, InsertLocked
  <2>2. exec'[t] \in Nat /\ exec'[t] <= now + p
    BY <2>1
  <2>5. InsertLocked(c, timers \ {t}, t) /\ client[c].pc # "tickle"
        /\ UNCHANGED <<now, loop, wakeAt, byte, edge>>
    BY <1>2 DEF Reset, Ready, pipeVars
  <2>6. \A s \in timers \ {t} : exec'[s] = exec[s]
    BY <2>1
  <2>7. PICK S \in SUBSET timers : S = timers \ {t}
    OBVIOUS
  <2>8. (tickled' => Alert') /\ (Alert' \/ \A s \in timers' : Covered(s)')
    <3> HIDE DEF TInv, TypeOK, TimerTypeOK
    <3> QED BY <2>2, <2>5, <2>6, <2>7, InsertionCovered
  <2> QED BY <2>8 DEF LateInv
<1>3. ASSUME NEW t \in Timers, Cancel(c, t), UNCHANGED <<loop, wakeAt, gotPipe, cbs, pipeVars>>
      PROVE  LateInv'
  <2>2. Alert => Alert'
    BY <1>3 DEF Cancel, Alert, pipeVars
  <2>3. \A s \in timers' : s \in timers /\ (Covered(s) => Covered(s)')
    BY <1>3 DEF Cancel, Covered
  <2> QED BY <1>3, <2>2, <2>3 DEF LateInv, Cancel
<1>4. ASSUME NEW t \in Timers, Refresh(c, t), UNCHANGED <<loop, wakeAt, gotPipe, cbs, pipeVars>>
      PROVE  LateInv'
  <2>1. exec[t] <= now + period[t] /\ exec' = [exec EXCEPT ![t] = now + period[t]]
        /\ UNCHANGED <<now, timers, fields, tickled, client>>
    BY <1>4 DEF Refresh, StartInv
  <2>3. Alert => Alert'
    BY <1>4, <2>1 DEF Alert, pipeVars
  <2>4. \A s \in timers : exec[s] <= exec'[s] /\ exec[s] \in Nat /\ exec'[s] \in Nat
    BY <2>1
  <2>5. \A s \in timers : Covered(s) => Covered(s)'
    BY <1>4, <2>4, SleepAssumption DEF Covered
  <2> QED BY <2>1, <2>3, <2>5 DEF LateInv
<1>5. ASSUME Insert(c), UNCHANGED <<loop, wakeAt, gotPipe, cbs, pipeVars>>
      PROVE  LateInv'
  <2>1. PICK t \in Timers : t = client[c].timer /\ t \notin timers
    BY <1>5 DEF Insert, OwnersInv
  <2>2. /\ exec' = exec /\ period' = period /\ now' = now
        /\ timers' = timers \cup {t} /\ InsertLocked(c, timers, t)
        /\ client[c].pc # "tickle" /\ UNCHANGED <<now, loop, wakeAt, byte, edge>>
    BY <1>5, <2>1 DEF Insert, InsertLocked, fields, pipeVars
  <2>5. (tickled' => Alert') /\ (Alert' \/ \A s \in timers' : Covered(s)')
    <3>1. exec'[t] \in Nat /\ \A s \in timers \ {t} : exec'[s] = exec[s]
      BY <2>2
    <3>2. PICK S \in SUBSET timers : S = timers
      OBVIOUS
    <3> HIDE DEF TInv, TypeOK, TimerTypeOK
    <3> QED BY <2>1, <2>2, <3>1, <3>2, InsertionCovered
  <2> QED BY <2>5 DEF LateInv
<1> QED BY <1>1, <1>2, <1>3, <1>4, <1>5 DEF ClientStep

\* Nor does a thread that goes to sleep: it has just seen the first timer.
LEMMA LateLoop ==
    ASSUME TInv, LateInv, NEW h \in Threads, LoopStep(h)
    PROVE  LateInv'
<1> USE TimersAssumption, SleepAssumption DEF TInv, TypeOK, TimerTypeOK
<1>1. CASE EnterIdle(h) \/ WakeByPipe(h) \/ WakeByTimeout(h) \/ Drain(h)
  <2>1. UNCHANGED timerVars /\ loop'[h] # "sleep"
    BY <1>1 DEF EnterIdle, WakeByPipe, WakeByTimeout, Drain, Goto
  <2>2. Alert'
    BY <2>1 DEF Alert
  <2> QED BY <2>2 DEF LateInv
<1>2. CASE Expire(h)
  <2>1. Alert'
    BY <1>2 DEF Expire, Alert, Goto
  <2> QED BY <2>1 DEF LateInv
<1>3. CASE GoToSleep(h)
  <2>1. /\ wakeAt' = [wakeAt EXCEPT ![h] = now + SleepFor(NextTimeout(None))]
        /\ loop' = [loop EXCEPT ![h] = "sleep"] /\ tickled' = (tickled /\ timers = {})
        /\ UNCHANGED <<now, timers, exec, fields, client, pipeVars>> /\ loop[h] = "ask"
    BY <1>3 DEF GoToSleep, Goto, GetNextTimer
  <2>3. wakeAt'[h] = now + SleepFor(NextTimeout(None)) /\ loop'[h] = "sleep"
    BY <2>1
  <2>4. CASE timers = {}
    <3>1. wakeAt'[h] = now + IdleSleep
      BY <2>3, <2>4 DEF SleepFor, NextTimeout
    <3>2. Alert'
      BY <2>1, <2>3, <3>1 DEF Alert
    <3> QED BY <3>2 DEF LateInv
  <2>5. CASE timers # {}
    <3>1. Front \in timers /\ IsFront(Front, timers) /\ exec[Front] \in Nat
      BY <2>5, FrontExists
    <3>2. ~tickled'
      BY <2>1, <2>5
    <3>3. CASE now >= exec[Front]
      <4>1. NextTimeout(None) = 0
        BY <2>5, <3>3 DEF NextTimeout
      <4>2. SleepFor(0) = 0
        BY DEF SleepFor
      <4>3. wakeAt'[h] = now
        BY <2>3, <4>1, <4>2
      <4>4. Alert'
        BY <2>1, <2>3, <4>3 DEF Alert
      <4> QED BY <4>4 DEF LateInv
    <3>4. CASE ~(now >= exec[Front])
      <4>1. wakeAt'[h] <= exec[Front]
        BY <2>3, <2>5, <3>1, <3>4 DEF SleepFor, NextTimeout
      <4>2. \A t \in timers : exec[Front] <= exec[t]
        BY <3>1 DEF IsFront, Before
      <4>3. wakeAt'[h] \in Nat
        <5>1. SleepFor(NextTimeout(None)) \in Nat
          BY SleepType
        <5> QED BY <2>3, <5>1
      <4>4. \A t \in timers' : Covered(t)'
        BY <2>1, <2>3, <3>1, <4>1, <4>2, <4>3 DEF Covered
      <4> QED BY <3>2, <4>4 DEF LateInv
    <3> QED BY <3>3, <3>4
  <2> QED BY <2>4, <2>5
<1> QED BY <1>1, <1>2, <1>3 DEF LoopStep

\* LateInv is inductive relative to TInv and StartInv, if there is a thread to wake.
LEMMA LateNext ==
    ASSUME Threads # {}
    PROVE  TInv /\ AlarmInv /\ LateInv /\ [Next]_vars => LateInv'
<1> SUFFICES ASSUME TInv, StartInv, LateInv, [Next]_vars PROVE LateInv'
  BY DEF AlarmInv
<1> USE TimersAssumption, SleepAssumption DEF TInv, TypeOK, TimerTypeOK
<1>1. ASSUME NEW c \in Clients, Tickle(c) PROVE LateInv'
  <2>1. Alert'
    <3>1. CASE IdleThreads # {}
      BY <1>1, <3>1 DEF Tickle, Alert
    <3>2. CASE IdleThreads = {}
      <4>1. \A h \in Threads : loop'[h] = "task"
        BY <1>1, <3>2 DEF Tickle, IdleThreads
      <4> QED BY <4>1 DEF Alert
    <3> QED BY <3>1, <3>2
  <2> QED BY <2>1 DEF LateInv
<1>2. CASE Tick
  <2>1. now' = now + 1 /\ UNCHANGED <<timers, exec, fields, tickled, client, loop, wakeAt, byte, edge>>
    BY <1>2 DEF Tick, pipeVars
  <2>3. Alert => Alert'
    BY <2>1 DEF Alert
  <2>4. \A t \in timers : Covered(t) => Covered(t)'
    BY <2>1 DEF Covered
  <2> QED BY <2>1, <2>3, <2>4 DEF LateInv
<1>3. CASE UNCHANGED vars
  BY <1>3 DEF vars, timerVars, fields, pipeVars, LateInv, Alert, Covered
<1> QED BY <1>1, <1>2, <1>3, LateClient, LateLoop DEF Next

\* For any timers, clients and threads (one at least) and any times, one of the sleeping
\* threads wakes no later than IdleSleep after the first timer.
THEOREM Late ==
    ASSUME Threads # {}
    PROVE  Spec => []LateByIdleSleep
<1>1. Init => LateInv
  BY LateInit
<1>2. TInv /\ AlarmInv /\ LateInv /\ [Next]_vars => LateInv'
  BY LateNext
<1>3. TInv /\ LateInv => LateByIdleSleep
  <2> SUFFICES ASSUME TInv, LateInv, Quiet, timers # {}
               PROVE  \E h \in Threads :
                          wakeAt[h] <= (IF exec[Front] < now THEN now ELSE exec[Front]) + IdleSleep
    BY DEF LateByIdleSleep, Catches
  <2>1. Front \in timers /\ exec[Front] \in Nat /\ now \in Nat
    <3>1. timers \subseteq Timers /\ exec \in [Timers -> Nat] /\ now \in Nat
      BY TimersAssumption DEF TInv, TypeOK, TimerTypeOK
    <3> QED BY <3>1, FrontExists
  <2>2. CASE Covered(Front)
    BY <2>1, <2>2, SleepAssumption DEF Covered, TInv, TypeOK
  <2>3. CASE Alert
    <3>1. PICK h \in Threads : wakeAt[h] <= now + IdleSleep
      BY <2>3 DEF Alert, Quiet, Asleep, Ready
    <3> QED BY <2>1, <3>1, SleepAssumption DEF TInv, TypeOK
  <2> QED BY <2>1, <2>2, <2>3 DEF LateInv
<1> QED BY <1>1, <1>2, <1>3, TimersInductive, AlarmInductive, PTL DEF Spec
=============================================================================
