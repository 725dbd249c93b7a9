--------------------------- MODULE SchedulerProofs ---------------------------
(***************************************************************************)
(* Safety of Scheduler for any number of threads and jobs.  IInv adds to   *)
(* the checked invariants what each point of run() knows of the state of   *)
(* the fiber in its hands, which is what makes the test of the state under *)
(* m_mutex enough although resume() comes after the unlock.                *)
(***************************************************************************)
EXTENDS Scheduler, FiniteSetTheorems, SequenceTheorems, TLAPS

Holding == {"dispatch", "run", "dec", "settle"}

\* A thread holds a job exactly between taking it and settling it.
CurInv == \A t \in Threads : cur[t] # NoJob <=> pc[t] \in Holding

\* A fiber with a wake-up or a queue entry that is still in the hands of a thread is
\* executing: it is on its way out.
ParkInv ==
    \A t \in Threads : cur[t] # NoJob /\ Parking(cur[t]) =>
        state[cur[t]] = "EXEC" /\ pc[t] # "dispatch"

\* What each point of run() knows of its fiber.
HeldInv ==
    \A t \in Threads :
        /\ pc[t] = "dispatch" => state[cur[t]] \notin {"NEW", "EXEC"}
        /\ pc[t] = "run" => state[cur[t]] = "EXEC"
        /\ pc[t] \in {"dec", "settle"} => state[cur[t]] \in {"EXEC", "READY"} \cup Finished
        /\ pc[t] \in {"dec", "settle"} /\ state[cur[t]] = "EXEC" => Parking(cur[t])

\* Where the jobs are by their state.
PlaceInv ==
    \A j \in Jobs :
        /\ ~(j \in armed /\ Queued(j))
        /\ j \in armed => state[j] \in {"EXEC", "HOLD"}
        /\ state[j] = "NEW" => ~Queued(j) /\ ~Owned(j)
        /\ state[j] \in {"INIT", "READY"} => Queued(j) \/ Owned(j)
        /\ state[j] = "EXEC" => Owned(j)
        /\ state[j] = "HOLD" => Queued(j) \/ j \in armed \/ Owned(j)

Types ==
    /\ crew \subseteq Workers /\ useCaller \in BOOLEAN
    /\ queue \in Seq(Entry)
    /\ state \in [Jobs -> States]
    /\ armed \subseteq Jobs
    /\ pc \in [Threads -> {"off", "scan", "idle", "dispatch", "run", "dec", "settle",
                          "exited", "abort"}]
    /\ cur \in [Threads -> Jobs \cup {NoJob}]
    /\ branch \in [Threads -> {"FIBER", "FUNCTION"}]
    /\ idleTerm \in [Threads -> BOOLEAN]
    /\ active \in Int
    /\ stopFlag \in BOOLEAN /\ autoStop \in BOOLEAN
    /\ main \in {"created", "started", "check", "flag", "root", "join", "returned"}

\* Nothing runs before start(), nor on the caller before stop() resumes the root fiber.
MainInv ==
    /\ main = "created" => \A t \in Threads : pc[t] = "off"
    /\ main \in {"created", "started", "check", "flag", "root"} => pc[Caller] = "off"

IInv ==
    /\ Types
    /\ MainInv
    /\ NoTwice(queue)
    /\ CurInv
    /\ FiberExclusive
    /\ ParkInv
    /\ HeldInv
    /\ PlaceInv

\* Appending an entry of a job that is not in the queue keeps the entries distinct.
LEMMA AppendQueue ==
    ASSUME NEW q \in Seq(Entry), NEW e \in Entry
    PROVE  /\ Append(q, e) \in Seq(Entry)
           /\ \A j : Has(Append(q, e), j) <=> Has(q, j) \/ j = e.job
           /\ NoTwice(q) /\ ~Has(q, e.job) => NoTwice(Append(q, e))
  BY DEF Has, NoTwice, Entry

LEMMA AppendBoth ==
    ASSUME NEW q \in Seq(Entry), NEW a \in Entry, NEW b \in Entry, a.job # b.job, NoTwice(q),
           ~Has(q, a.job), ~Has(q, b.job)
    PROVE  /\ q \o <<a, b>> \in Seq(Entry)
           /\ \A j : Has(q \o <<a, b>>, j) <=> Has(q, j) \/ j = a.job \/ j = b.job
           /\ NoTwice(q \o <<a, b>>)
  <1> DEFINE r == Append(q, a)
  <1>1. q \o <<a, b>> = Append(r, b)
    OBVIOUS
  <1>2. /\ r \in Seq(Entry)
        /\ \A j : Has(r, j) <=> Has(q, j) \/ j = a.job
        /\ NoTwice(r)
    BY AppendQueue
  <1> HIDE DEF r
  <1>3. /\ Append(r, b) \in Seq(Entry)
        /\ \A j : Has(Append(r, b), j) <=> Has(r, j) \/ j = b.job
        /\ NoTwice(Append(r, b))
    BY <1>2, AppendQueue
  <1> QED BY <1>1, <1>2, <1>3

\* What is in the queue when an entry has been taken out.
LEMMA RemoveEntries ==
    ASSUME NEW q \in Seq(Entry), NEW i \in 1 .. Len(q)
    PROVE  /\ RemoveAt(q, i) \in Seq(Entry)
           /\ Len(RemoveAt(q, i)) = Len(q) - 1
           /\ \A k \in 1 .. Len(RemoveAt(q, i)) :
                 RemoveAt(q, i)[k] = IF k < i THEN q[k] ELSE q[k + 1]
  <1> DEFINE r == RemoveAt(q, i)
             a == SubSeq(q, 1, i - 1)
             b == SubSeq(q, i + 1, Len(q))
  <1>1. a \in Seq(Entry) /\ Len(a) = i - 1 /\ \A k \in 1 .. i - 1 : a[k] = q[k]
    BY SubSeqProperties
  <1>2. /\ b \in Seq(Entry) /\ Len(b) = Len(q) - i
        /\ \A k \in 1 .. Len(q) - i : b[k] = q[i + k]
    BY SubSeqProperties
  <1>3. r = a \o b
    BY DEF RemoveAt
  <1> HIDE DEF a, b, r
  <1>4. /\ r \in Seq(Entry)
        /\ Len(r) = Len(a) + Len(b)
        /\ \A k \in 1 .. Len(a) + Len(b) :
              r[k] = IF k <= Len(a) THEN a[k] ELSE b[k - Len(a)]
    BY <1>1, <1>2, <1>3, ConcatProperties
  <1>5. Len(r) = Len(q) - 1
    BY <1>1, <1>2, <1>4
  <1>6. ASSUME NEW k \in 1 .. Len(r) PROVE r[k] = IF k < i THEN q[k] ELSE q[k + 1]
    <2>1. CASE k < i
      BY <2>1, <1>1, <1>4, <1>5
    <2>2. CASE ~(k < i)
      <3>1. r[k] = b[k - (i - 1)]
        BY <2>2, <1>1, <1>2, <1>4, <1>5
      <3>2. k - (i - 1) \in 1 .. Len(q) - i
        BY <2>2, <1>5
      <3> QED BY <3>1, <3>2, <1>2
    <2> QED BY <2>1, <2>2
  <1> QED BY <1>4, <1>5, <1>6 DEF r

\* Taking an entry out leaves all others, once each.
LEMMA RemoveQueue ==
    ASSUME NEW q \in Seq(Entry), NEW i \in 1 .. Len(q), NoTwice(q)
    PROVE  /\ RemoveAt(q, i) \in Seq(Entry)
           /\ NoTwice(RemoveAt(q, i))
           /\ \A j : Has(RemoveAt(q, i), j) <=> Has(q, j) /\ j # q[i].job
  <1> DEFINE r == RemoveAt(q, i)
  <1>1. /\ r \in Seq(Entry)
        /\ Len(r) = Len(q) - 1
        /\ \A k \in 1 .. Len(r) : r[k] = IF k < i THEN q[k] ELSE q[k + 1]
    BY RemoveEntries
  <1> HIDE DEF r
  <1>2. NoTwice(r)
    BY <1>1 DEF NoTwice
  <1>3. ASSUME NEW j PROVE Has(r, j) <=> Has(q, j) /\ j # q[i].job
    <2>1. ASSUME Has(r, j) PROVE Has(q, j) /\ j # q[i].job
      <3>1. PICK k \in 1 .. Len(r) : r[k].job = j
        BY <2>1 DEF Has
      <3>2. PICK l \in 1 .. Len(q) : l # i /\ q[l].job = j
        <4>1. CASE k < i
          BY <1>1, <3>1, <4>1
        <4>2. CASE ~(k < i)
          <5>1. k + 1 \in 1 .. Len(q) /\ k + 1 # i /\ r[k] = q[k + 1]
            BY <1>1, <4>2
          <5> QED BY <3>1, <5>1
        <4> QED BY <4>1, <4>2
      <3> QED BY <3>2 DEF Has, NoTwice
    <2>2. ASSUME Has(q, j), j # q[i].job PROVE Has(r, j)
      <3>1. PICK k \in 1 .. Len(q) : q[k].job = j
        BY <2>2 DEF Has
      <3>2. k # i
        BY <2>2, <3>1
      <3>3. CASE k < i
        <4>1. k \in 1 .. Len(r) /\ r[k] = q[k]
          BY <1>1, <3>3
        <4> QED BY <4>1, <3>1 DEF Has
      <3>4. CASE k > i
        <4>1. k - 1 \in 1 .. Len(r) /\ r[k - 1] = q[k]
          BY <1>1, <3>4
        <4> QED BY <4>1, <3>1 DEF Has
      <3> QED BY <3>2, <3>3, <3>4
    <2> QED BY <2>1, <2>2
  <1> QED BY <1>1, <1>2, <1>3 DEF r

LEMMA InitInv == Init => IInv
  <1> SUFFICES ASSUME Init PROVE IInv
    OBVIOUS
  <1>1. NoTwice(queue) /\ \A j : ~Queued(j)
    BY DEF Init, NoTwice, Queued, Has
  <1>2. Types
    <2>1. queue \in Seq(Entry)
      BY DEF Init
    <2>2. /\ crew \subseteq Workers /\ useCaller \in BOOLEAN
          /\ stopFlag \in BOOLEAN /\ autoStop \in BOOLEAN
          /\ idleTerm \in [Threads -> BOOLEAN]
      BY DEF Init
    <2>3. /\ state \in [Jobs -> States] /\ armed \subseteq Jobs /\ active \in Int
          /\ cur \in [Threads -> Jobs \cup {NoJob}]
      BY DEF Init, States
    <2> QED BY <2>1, <2>2, <2>3 DEF Init, Types
  <1> QED
    BY <1>1, <1>2, JobsAssumption
    DEF Init, IInv, MainInv, Threads, CurInv, FiberExclusive, ParkInv, HeldInv, PlaceInv,
        Holding, Owned, Owns, Finished

LEMMA NextInv == IInv /\ [Next]_vars => IInv'
  <1> SUFFICES ASSUME IInv, [Next]_vars PROVE IInv'
    OBVIOUS
  <1> USE JobsAssumption, WorkersAssumption
      DEF IInv, Types, States, MainInv, CurInv, FiberExclusive, ParkInv, HeldInv, PlaceInv,
          Holding, Parking, Queued, Owned, Owns, Finished, vars, config, threadVars, stopVars
  <1>1. ASSUME NEW t \in Threads, FindNothing(t) PROVE IInv'
    BY <1>1 DEF FindNothing
  <1>2. ASSUME NEW t \in Threads, Idle(t) PROVE IInv'
    BY <1>2 DEF Idle, Stopping
  <1>3. ASSUME NEW t \in Threads, Resume(t) PROVE IInv'
    BY <1>3 DEF Resume, CanResume
  <1>4. ASSUME NEW t \in Threads, DropFinished(t) PROVE IInv'
    BY <1>4 DEF DropFinished
  <1>5. ASSUME NEW t \in Threads, Deactivate(t) PROVE IInv'
    BY <1>5 DEF Deactivate
  <1>6. ASSUME NEW t \in Threads, SettleFinished(t) PROVE IInv'
    BY <1>6 DEF SettleFinished, EndTurn, CanReset
  <1>7. ASSUME NEW t \in Threads, SettleHold(t) PROVE IInv'
    BY <1>7 DEF SettleHold, EndTurn
  <1>8. ASSUME NEW t \in Threads, NEW j \in Jobs, Leave(t, j) PROVE IInv'
    <2>1. CASE Return(t, j)
      BY <2>1 DEF Return, Running, SwitchOut
    <2>2. CASE Throw(t, j)
      BY <2>2 DEF Throw, Running, SwitchOut
    <2>3. CASE YieldToReady(t, j)
      BY <2>3 DEF YieldToReady, Running, SwitchOut
    <2>4. CASE YieldToHold(t, j)
      BY <2>4 DEF YieldToHold, SwitchOut
    <2> QED BY <1>8, <2>1, <2>2, <2>3, <2>4 DEF Leave
  <1>9. ASSUME NEW t \in Threads, NEW j \in Jobs, Arm(t, j) PROVE IInv'
    BY <1>9 DEF Arm, Running
  <1>10. CASE Start
    <2>1. Types'
      BY <1>10 DEF Start, Threads
    <2>2. (MainInv /\ CurInv)'
      BY <1>10 DEF Start, Threads
    <2> QED BY <1>10, <2>1, <2>2 DEF Start
  <1>11. CASE Stop
    <2>1. CASE StopCall
      <3>1. UNCHANGED <<config, queue, state, armed, threadVars, active>>
        BY <2>1 DEF StopCall
      <3>2. /\ main = "started" /\ main' \in {"check", "flag"}
            /\ stopFlag' \in BOOLEAN /\ autoStop' \in BOOLEAN
        BY <2>1 DEF StopCall
      <3> QED BY <3>1, <3>2
    <2>2. CASE StopCheck
      BY <2>2 DEF StopCheck
    <2>3. CASE StopFlag
      BY <2>3 DEF StopFlag
    <2>4. CASE StopRoot
      BY <2>4 DEF StopRoot, Threads
    <2>5. CASE StopReturn
      BY <2>5 DEF StopReturn
    <2> QED BY <1>11, <2>1, <2>2, <2>3, <2>4, <2>5 DEF Stop
  <1>12. CASE UNCHANGED vars
    BY <1>12
  <1>13. ASSUME NEW j \in Jobs, NEW p \in Threads \cup {AnyThread}, Push(j, p)
         PROVE  /\ queue' \in Seq(Entry)
                /\ \A k : Has(queue', k) <=> Has(queue, k) \/ k = j
                /\ ~Has(queue, j) => NoTwice(queue')
    <2>1. [job |-> j, pin |-> p] \in Entry
      BY DEF Entry
    <2> QED BY <1>13, <2>1, AppendQueue DEF Push
  <1>14. ASSUME NEW j \in Jobs, Submit(j) PROVE IInv'
    <2>1. Home[j] \in Threads \cup {AnyThread}
      BY HomeAssumption
    <2>2. ~Has(queue, j)
      BY <1>14 DEF Submit
    <2> QED BY <1>13, <1>14, <2>1, <2>2 DEF Submit
  <1>15. ASSUME NEW j \in Jobs, SubmitFinished(j) PROVE IInv'
    BY <1>13, <1>15 DEF SubmitFinished
  <1>16. ASSUME NEW j \in Jobs, Wake(j) PROVE IInv'
    BY <1>13, <1>16 DEF Wake
  <1>17. ASSUME NEW t \in Threads, SettleReady(t) PROVE IInv'
    BY <1>13, <1>17 DEF SettleReady, EndTurn
  <1>18. ASSUME NEW j \in Jobs, NEW k \in Jobs, SubmitBatch(j, k) PROVE IInv'
    <2>1. ~Has(queue, j) /\ ~Has(queue, k)
      BY <1>18 DEF SubmitBatch
    <2> DEFINE a == [job |-> j, pin |-> AnyThread]
               b == [job |-> k, pin |-> AnyThread]
    <2>2. a \in Entry /\ b \in Entry /\ a.job = j /\ b.job = k
      BY DEF Entry
    <2>3. queue' = queue \o <<a, b>>
      BY <1>18 DEF SubmitBatch
    <2> HIDE DEF a, b
    <2>4. /\ queue' \in Seq(Entry)
          /\ \A l : Has(queue', l) <=> Has(queue, l) \/ l = j \/ l = k
          /\ NoTwice(queue')
      <3>1. a.job # b.job
        BY <1>18, <2>2 DEF SubmitBatch
      <3>2. queue \in Seq(Entry) /\ NoTwice(queue) /\ ~Has(queue, a.job) /\ ~Has(queue, b.job)
        BY <2>1, <2>2
      <3>3. /\ queue \o <<a, b>> \in Seq(Entry)
            /\ \A l : Has(queue \o <<a, b>>, l) <=> Has(queue, l) \/ l = a.job \/ l = b.job
            /\ NoTwice(queue \o <<a, b>>)
        BY ONLY <2>2, <3>1, <3>2, AppendBoth
      <3> QED BY <2>2, <2>3, <3>3
    <2>5. /\ state' = [state EXCEPT ![j] = "INIT", ![k] = "INIT"]
          /\ state[j] = "NEW" /\ state[k] = "NEW" /\ j # k
          /\ UNCHANGED <<config, armed, threadVars, active, stopVars>>
      BY <1>18 DEF SubmitBatch
    <2>6. (Types /\ MainInv /\ CurInv /\ FiberExclusive)'
      BY <2>4, <2>5
    <2>7. (ParkInv /\ HeldInv)'
      BY <2>4, <2>5
    <2>8. PlaceInv'
      BY <2>4, <2>5
    <2> QED BY <2>4, <2>6, <2>7, <2>8
  <1>19. ASSUME NEW t \in Threads, TakeTask(t) PROVE IInv'
    <2>1. PICK i \in 1 .. Len(queue) :
            /\ FirstEligible(t, i)
            /\ cur' = [cur EXCEPT ![t] = queue[i].job]
            /\ queue' = RemoveAt(queue, i)
      BY <1>19 DEF TakeTask
    <2> DEFINE j == queue[i].job
    <2>2. j \in Jobs /\ Has(queue, j) /\ state[j] # "EXEC"
      <3>1. queue[i] \in Entry
        OBVIOUS
      <3> QED BY <2>1, <3>1 DEF FirstEligible, Eligible, Entry, Has
    <2>3. /\ queue' \in Seq(Entry)
          /\ NoTwice(queue')
          /\ \A k : Has(queue', k) <=> Has(queue, k) /\ k # j
      BY <2>1, RemoveQueue
    <2>4. cur' = [cur EXCEPT ![t] = j]
      BY <2>1
    <2> HIDE DEF j
    <2> QED BY <1>19, <2>2, <2>3, <2>4 DEF TakeTask
  <1> QED
    BY <1>1, <1>2, <1>3, <1>4, <1>5, <1>6, <1>7, <1>8, <1>9, <1>10, <1>11, <1>12, <1>14, <1>15,
       <1>16, <1>17, <1>18, <1>19 DEF Next, RunStep, Client

-----------------------------------------------------------------------------
(* The count of the active threads.                                         *)

Counted == {"dispatch", "run", "dec"}
ActiveThreads == {t \in Threads : pc[t] \in Counted}

LEMMA ThreadsFinite == IsFiniteSet(Threads) /\ \A P \in SUBSET Threads : IsFiniteSet(P)
  BY WorkersAssumption, FS_AddElement, FS_Subset DEF Threads

LEMMA ActiveInit == Init => ActiveExact
  <1> SUFFICES ASSUME Init PROVE ActiveExact
    OBVIOUS
  <1>1. ActiveThreads = {}
    BY DEF Init, ActiveThreads, Counted
  <1> QED BY <1>1, FS_EmptySet DEF ActiveExact, ActiveThreads, Counted, Init

LEMMA ActiveNext == IInv /\ ActiveExact /\ [Next]_vars => ActiveExact'
  <1> SUFFICES ASSUME IInv, ActiveExact, [Next]_vars PROVE ActiveExact'
    OBVIOUS
  <1>1. ASSUME NEW t \in Threads, pc[t] \notin Counted,
               pc' = [pc EXCEPT ![t] = "dispatch"], active' = active + 1
        PROVE  ActiveExact'
    <2>1. ActiveThreads' = ActiveThreads \cup {t} /\ t \notin ActiveThreads
      BY <1>1 DEF ActiveThreads, Counted, IInv, Types
    <2>2. IsFiniteSet(ActiveThreads)
      BY ThreadsFinite DEF ActiveThreads
    <2>3. Cardinality(ActiveThreads') = Cardinality(ActiveThreads) + 1
      BY <2>1, <2>2, FS_AddElement
    <2> QED BY <1>1, <2>3 DEF ActiveExact, ActiveThreads, Counted
  <1>2. ASSUME NEW t \in Threads, NEW p \in {"scan", "settle"}, pc[t] \in Counted,
               pc' = [pc EXCEPT ![t] = p], active' = active - 1
        PROVE  ActiveExact'
    <2>1. ActiveThreads' = ActiveThreads \ {t} /\ t \in ActiveThreads
      BY <1>2 DEF ActiveThreads, Counted, IInv, Types
    <2>2. IsFiniteSet(ActiveThreads)
      BY ThreadsFinite DEF ActiveThreads
    <2>3. Cardinality(ActiveThreads') = Cardinality(ActiveThreads) - 1
      BY <2>1, <2>2, FS_RemoveElement
    <2> QED BY <1>2, <2>3 DEF ActiveExact, ActiveThreads, Counted
  <1>3. ASSUME active' = active,
               \A t \in Threads : pc[t] \in Counted <=> pc'[t] \in Counted
        PROVE  ActiveExact'
    <2>1. ActiveThreads' = ActiveThreads
      BY <1>3 DEF ActiveThreads
    <2> QED BY <1>3, <2>1 DEF ActiveExact, ActiveThreads, Counted
  <1>4. ASSUME NEW t \in Threads, RunStep(t) PROVE ActiveExact'
    <2>1. CASE TakeTask(t)
      BY <1>1, <2>1 DEF TakeTask, Counted
    <2>2. CASE DropFinished(t)
      BY <1>2, <2>2 DEF DropFinished, Counted
    <2>3. CASE Deactivate(t)
      BY <1>2, <2>3 DEF Deactivate, Counted
    <2>4. CASE FindNothing(t) \/ Idle(t)
      BY <1>3, <2>4 DEF FindNothing, Idle, Counted, IInv, Types
    <2>5. CASE Resume(t)
      BY <1>3, <2>5 DEF Resume, CanResume, Counted, IInv, Types, HeldInv
    <2>6. CASE SettleReady(t) \/ SettleFinished(t) \/ SettleHold(t)
      BY <1>3, <2>6 DEF SettleReady, SettleFinished, SettleHold, Counted, IInv, Types
    <2> QED BY <1>4, <2>1, <2>2, <2>3, <2>4, <2>5, <2>6 DEF RunStep
  <1>5. ASSUME NEW t \in Threads, NEW j \in Jobs, Leave(t, j) \/ Arm(t, j)
        PROVE  ActiveExact'
    BY <1>3, <1>5 DEF Leave, Return, Throw, YieldToReady, YieldToHold, Running, SwitchOut,
       Arm, threadVars, Counted, IInv, Types
  <1>6. ASSUME NEW j \in Jobs, Client(j) PROVE ActiveExact'
    BY <1>3, <1>6 DEF Client, Submit, SubmitBatch, SubmitFinished, Wake, threadVars
  <1>7. CASE Start
    BY <1>3, <1>7 DEF Start, Counted, IInv, Types, MainInv
  <1>8. CASE Stop
    BY <1>3, <1>8 DEF Stop, StopCall, StopCheck, StopFlag, StopRoot, StopReturn,
       threadVars,
       Counted, IInv, Types, MainInv
  <1>9. CASE UNCHANGED vars
    BY <1>3, <1>9 DEF vars
  <1> QED BY <1>4, <1>5, <1>6, <1>7, <1>8, <1>9 DEF Next

-----------------------------------------------------------------------------
(* The assertions of run(), resume() and reset().                           *)

\* What a function may not do here is let an exception out: its cb_fiber would be reset.
AbortInv ==
    \A t \in Threads :
        /\ pc[t] # "abort"
        /\ pc[t] \in {"dec", "settle"} /\ branch[t] = "FUNCTION" => state[cur[t]] # "EXCEPT"

LEMMA AbortNext ==
    ASSUME FunctionsThrow = FALSE
    PROVE  IInv /\ AbortInv /\ [Next]_vars => AbortInv'
  <1> SUFFICES ASSUME IInv, AbortInv, [Next]_vars PROVE AbortInv'
    OBVIOUS
  <1> USE JobsAssumption
  <1>1. \A t \in Threads :
            pc[t] \in Holding => cur[t] \in Jobs /\ \A u \in Threads : t # u => cur[t] # cur[u]
    BY DEF IInv, Types, CurInv, FiberExclusive
  <1>2. ASSUME NEW t \in Threads, RunStep(t) PROVE AbortInv'
    <2>1. CASE TakeTask(t) \/ FindNothing(t) \/ Idle(t)
      BY <2>1 DEF TakeTask, FindNothing, Idle, AbortInv, IInv, Types
    <2>2. CASE Resume(t)
      BY <2>2, <1>1 DEF Resume, CanResume, AbortInv, IInv, Types, HeldInv, Holding
    <2>3. CASE DropFinished(t) \/ Deactivate(t)
      BY <2>3 DEF DropFinished, Deactivate, AbortInv, IInv, Types
    <2>4. CASE SettleReady(t) \/ SettleFinished(t)
      BY <2>4 DEF SettleReady, SettleFinished, CanReset, Finished, EndTurn, AbortInv, IInv, Types
    <2>5. CASE SettleHold(t)
      BY <2>5, <1>1 DEF SettleHold, EndTurn, AbortInv, IInv, Types, Holding
    <2> QED BY <1>2, <2>1, <2>2, <2>3, <2>4, <2>5 DEF RunStep
  <1>3. ASSUME NEW t \in Threads, NEW j \in Jobs, Leave(t, j) \/ Arm(t, j)
        PROVE  AbortInv'
    BY <1>1, <1>3 DEF Leave, Return, Throw, YieldToReady, YieldToHold, Running, SwitchOut,
       Arm, Owns, threadVars, AbortInv, IInv, Types, Holding
  <1>4. ASSUME NEW j \in Jobs, Client(j) PROVE AbortInv'
    <2>1. UNCHANGED threadVars
      BY <1>4 DEF Client, Submit, SubmitBatch, SubmitFinished, Wake
    <2>2. ASSUME NEW i \in Jobs, state'[i] = "EXCEPT" PROVE state[i] = "EXCEPT"
      <3>1. CASE UNCHANGED state
        BY <2>2, <3>1
      <3>2. CASE state' = [state EXCEPT ![j] = "INIT"]
        BY <2>2, <3>2 DEF IInv, Types
      <3>3. ASSUME NEW k \in Jobs, state' = [state EXCEPT ![j] = "INIT", ![k] = "INIT"]
            PROVE  state[i] = "EXCEPT"
        BY <2>2, <3>3 DEF IInv, Types
      <3> QED BY <1>4, <3>1, <3>2, <3>3 DEF Client, Submit, SubmitBatch,
         SubmitFinished, Wake
    <2> QED BY <1>1, <2>1, <2>2 DEF threadVars, AbortInv, Holding
  <1>5. CASE Start
    BY <1>5 DEF Start, AbortInv, IInv, Types, MainInv
  <1>6. CASE Stop
    BY <1>6 DEF Stop, StopCall, StopCheck, StopFlag, StopRoot, StopReturn, threadVars,
       AbortInv, IInv, Types, MainInv
  <1>7. CASE UNCHANGED vars
    BY <1>7 DEF vars, AbortInv
  <1> QED BY <1>2, <1>3, <1>4, <1>5, <1>6, <1>7 DEF Next

-----------------------------------------------------------------------------
(* Theorems of the specification.                                           *)

\* The inductive invariant of run(), schedule(), start() and stop() together with the
\* count of the active threads holds in every reachable state.
THEOREM Inductive == Spec => [](IInv /\ ActiveExact)
  <1>1. Init => IInv /\ ActiveExact
    BY InitInv, ActiveInit
  <1>2. (IInv /\ ActiveExact) /\ [Next]_vars => (IInv /\ ActiveExact)'
    BY NextInv, ActiveNext
  <1> QED BY <1>1, <1>2, PTL DEF Spec

\* Type correctness; m_activeThreadCount, a size_t, never wraps below zero.
THEOREM TypeCorrect == Spec => []TypeOK
  <1>1. IInv /\ ActiveExact => TypeOK
    <2> SUFFICES ASSUME IInv, ActiveExact PROVE TypeOK
      OBVIOUS
    <2>1. active \in Nat
      <3>1. IsFiniteSet(ActiveThreads)
        BY ThreadsFinite DEF ActiveThreads
      <3> QED BY <3>1, FS_CardinalityType DEF ActiveExact, ActiveThreads, Counted
    <2> QED BY <2>1 DEF IInv, Types, TypeOK
  <1> QED BY <1>1, Inductive, PTL

\* For any threads and jobs, no fiber is ever in the hands of two threads of run(),
\* although resume() comes after the scan has released m_mutex.
THEOREM Exclusive == Spec => []FiberExclusive
  <1>1. IInv => FiberExclusive
    BY DEF IInv
  <1> QED BY <1>1, Inductive, PTL

\* A job never has two queue entries, nor an entry beside an armed wake-up source, and
\* while a thread holds it, only as a fiber that is parking.
THEOREM SingleWay == Spec => []OneWayOn
  <1>1. IInv => OneWayOn
    <2> SUFFICES ASSUME IInv PROVE OneWayOn
      OBVIOUS
    <2>1. ASSUME NEW j \in Jobs, Parking(j), Owned(j)
          PROVE  /\ state[j] = "EXEC"
                 /\ \E t \in Threads : Owns(t, j) /\ pc[t] \in {"run", "dec", "settle"}
      BY <2>1, JobsAssumption DEF IInv, CurInv, ParkInv, Owned, Owns, Holding
    <2> QED BY <2>1 DEF IInv, PlaceInv, OneWayOn
  <1> QED BY <1>1, Inductive, PTL

\* A job that can run is in the queue or in the hands of a thread, and a parked one has
\* its wake-up ahead: the scheduler drops none.
THEOREM Kept == Spec => []NothingLost
  <1>1. IInv => NothingLost
    BY DEF IInv, PlaceInv, NothingLost
  <1> QED BY <1>1, Inductive, PTL

\* The count stopping() relies on is the number of threads between taking a task and
\* being back from it.
THEOREM CountExact == Spec => []ActiveExact
  BY Inductive, PTL

\* The only step to a failed assertion is the reset of a function's fiber that is EXCEPT.
LEMMA AbortStep ==
    ASSUME IInv, [Next]_vars, NEW t \in Threads, pc[t] # "abort", pc'[t] = "abort"
    PROVE  branch[t] = "FUNCTION" /\ state[cur[t]] = "EXCEPT"
  <1> USE JobsAssumption
  <1>1. ASSUME NEW u \in Threads, RunStep(u)
        PROVE  branch[t] = "FUNCTION" /\ state[cur[t]] = "EXCEPT"
    <2>1. CASE TakeTask(u) \/ FindNothing(u) \/ Idle(u)
      BY <2>1 DEF TakeTask, FindNothing, Idle, IInv, Types
    <2>2. CASE Resume(u)
      BY <2>2 DEF Resume, CanResume, IInv, Types, HeldInv, Holding
    <2>3. CASE DropFinished(u) \/ Deactivate(u)
      BY <2>3 DEF DropFinished, Deactivate, IInv, Types
    <2>4. CASE SettleReady(u) \/ SettleHold(u)
      BY <2>4 DEF SettleReady, SettleHold, IInv, Types
    <2>5. CASE SettleFinished(u)
      BY <2>5 DEF SettleFinished, CanReset, Finished, IInv, Types
    <2> QED BY <1>1, <2>1, <2>2, <2>3, <2>4, <2>5 DEF RunStep
  <1>2. ASSUME NEW u \in Threads, NEW j \in Jobs, Leave(u, j) \/ Arm(u, j) PROVE FALSE
    BY <1>2 DEF Leave, Return, Throw, YieldToReady, YieldToHold, Running, SwitchOut,
       Arm, threadVars, IInv, Types
  <1>3. ASSUME NEW j \in Jobs, Client(j) PROVE FALSE
    BY <1>3 DEF Client, Submit, SubmitBatch, SubmitFinished, Wake, threadVars
  <1>4. CASE Start
    BY <1>4 DEF Start, IInv, Types, MainInv
  <1>5. CASE Stop
    BY <1>5 DEF Stop, StopCall, StopCheck, StopFlag, StopRoot, StopReturn, threadVars,
       IInv, Types, MainInv
  <1>6. CASE UNCHANGED vars
    BY <1>6 DEF vars, threadVars
  <1> QED BY <1>1, <1>2, <1>3, <1>4, <1>5, <1>6 DEF Next

\* No assertion fails but that of a function's fiber being reset after an exception, for any
\* threads and jobs (Scheduler.cc:286-331, Fiber.cc:116, 132).
THEOREM OnlyThrows == Spec => OnlyThrowsAbort
  <1>1. IInv /\ [Next]_vars => [\A t \in Threads : pc[t] # "abort" /\ pc'[t] = "abort" =>
            branch[t] = "FUNCTION" /\ state[cur[t]] = "EXCEPT"]_vars
    BY AbortStep
  <1> QED BY <1>1, Inductive, PTL DEF Spec, OnlyThrowsAbort

\* If no function lets an exception out, no assertion of run(), Fiber::resume() or
\* Fiber::reset() fails.
THEOREM NoAbort ==
    ASSUME FunctionsThrow = FALSE
    PROVE  Spec => []NoAssertionFails
  <1>1. Init => AbortInv
    BY DEF Init, AbortInv
  <1>2. IInv /\ AbortInv /\ [Next]_vars => AbortInv'
    BY AbortNext
  <1>3. AbortInv => NoAssertionFails
    BY DEF AbortInv, NoAssertionFails, Aborted
  <1> QED BY <1>1, <1>2, <1>3, Inductive, PTL DEF Spec

-----------------------------------------------------------------------------
(* The refinement of TaskPool.                                              *)

\* Without workers nothing runs before the root fiber does, and after stop() nothing runs
\* and nobody outside submits.
CloseInv ==
    /\ main = "started" /\ crew = {} => \A t \in Threads : pc[t] = "off"
    /\ main = "check" => \A t \in Threads : pc[t] = "off"
    /\ main = "returned" => \A t \in Threads : pc[t] \in {"off", "exited"}
    /\ main \in {"check", "flag", "root", "join", "returned"} => autoStop

LEMMA CloseInit == Init => CloseInv
BY DEF Init, CloseInv

LEMMA CloseNext == IInv /\ CloseInv /\ [Next]_vars => CloseInv'
<1> SUFFICES ASSUME IInv, CloseInv, [Next]_vars PROVE CloseInv'
  OBVIOUS
<1> USE DEF IInv, Types, CloseInv
<1>1. ASSUME NEW t \in Threads, RunStep(t) PROVE CloseInv'
  <2>1. pc[t] \in {"scan", "idle", "dispatch", "dec", "settle"}
    BY <1>1 DEF RunStep, TakeTask, FindNothing, Idle, Resume, DropFinished, Deactivate,
       SettleReady, SettleFinished, SettleHold
  <2>2. UNCHANGED <<main, autoStop, crew>>
    BY <1>1 DEF RunStep, TakeTask, FindNothing, Idle, Resume, DropFinished, Deactivate,
       SettleReady, SettleFinished, SettleHold, config, stopVars
  <2>3. main # "check" /\ main # "returned" /\ ~(main = "started" /\ crew = {})
    BY <2>1
  <2> QED BY <2>2, <2>3
<1>2. ASSUME NEW t \in Threads, NEW j \in Jobs, Leave(t, j) \/ Arm(t, j) PROVE CloseInv'
  <2>1. pc[t] = "run"
    BY <1>2 DEF Leave, Return, Throw, YieldToReady, YieldToHold, Running, Arm
  <2>2. UNCHANGED <<main, autoStop, crew>>
    BY <1>2 DEF Leave, Return, Throw, YieldToReady, YieldToHold, SwitchOut, Arm, config, stopVars
  <2>3. main # "check" /\ main # "returned" /\ ~(main = "started" /\ crew = {})
    BY <2>1
  <2> QED BY <2>2, <2>3
<1>3. ASSUME NEW j \in Jobs, Client(j) PROVE CloseInv'
  BY <1>3 DEF Client, Submit, SubmitBatch, SubmitFinished, Wake, config, threadVars, stopVars
<1>4. CASE Start
  BY <1>4 DEF Start, MainInv, config
<1>5. CASE Stop
  <2>1. CASE StopCall
    BY <2>1 DEF StopCall, config, threadVars
  <2>2. CASE StopCheck \/ StopFlag \/ StopReturn
    BY <2>2 DEF StopCheck, StopFlag, StopReturn, config, threadVars
  <2>3. CASE StopRoot
    BY <2>3 DEF StopRoot, config
  <2> QED BY <1>5, <2>1, <2>2, <2>3 DEF Stop
<1>6. CASE UNCHANGED vars
  BY <1>6 DEF vars, config, threadVars, stopVars
<1> QED BY <1>1, <1>2, <1>3, <1>4, <1>5, <1>6 DEF Next

Runs(j) == \E t \in Threads : Owns(t, j) /\ pc[t] = "run"
Taken(j) == \E t \in Threads : Owns(t, j) /\ pc[t] = "dispatch"

StatusFacts ==
    \A j \in Jobs :
        /\ Runs(j) => Status(j) = "running"
        /\ ~Runs(j) /\ state[j] = "NEW" => Status(j) = "new"
        /\ ~Runs(j) /\ state[j] \in Finished => Status(j) = "done"
        /\ ~Runs(j) /\ state[j] \in {"INIT", "READY"} => Status(j) = "ready"
        /\ ~Runs(j) /\ state[j] \in {"EXEC", "HOLD"} =>
              Status(j) = IF Queued(j) \/ Taken(j) THEN "ready" ELSE "parked"

\* The status of a job from its state and its place, without the CASE of Status.
LEMMA StatusHolds == StatusFacts
BY DEF StatusFacts, Status, Runs, Taken, Finished

LEMMA StatusAfter == StatusFacts'
BY StatusHolds, PTL

Shown == [j \in Jobs |-> Status(j)]
Doing == [t \in Threads |-> IF pc[t] = "run" THEN cur[t] ELSE NoJob]
PoolStep == [Pool!PoolNext]_<<Shown, Doing, main = "returned">>

\* Same place, same state.
LEMMA Same ==
    ASSUME IInv, NEW j \in Jobs, state'[j] = state[j], Runs(j)' <=> Runs(j),
           state[j] \in {"EXEC", "HOLD"} => (Queued(j)' \/ Taken(j)' <=> Queued(j) \/ Taken(j))
    PROVE  Status(j)' = Status(j)
<1>1. state[j] \in States
  BY DEF IInv, Types
<1> QED BY <1>1, StatusHolds, StatusAfter DEF StatusFacts, States, Finished

\* No status, no executing thread and no end of stop() changed: TaskPool stutters.
LEMMA Stutters ==
    ASSUME \A j \in Jobs : Status(j)' = Status(j),
           \A t \in Threads : (pc'[t] = "run" <=> pc[t] = "run") /\ (pc[t] = "run" => cur'[t] = cur[t]),
           (main = "returned") = (main = "returned")'
    PROVE  PoolStep
<1>1. Shown' = Shown
  BY DEF Shown
<1>2. Doing' = Doing
  BY DEF Doing
<1> QED BY <1>1, <1>2 DEF PoolStep

\* A ready job that a thread now executes was begun.  These lemmas give the steps of
\* TaskPool by what they do to the status of jobs and to the threads.
LEMMA Begins ==
    ASSUME NEW t \in Threads, NEW i \in Jobs, main # "returned",
           Status(i) = "ready", Status(i)' = "running",
           \A j \in Jobs \ {i} : Status(j)' = Status(j),
           pc[t] # "run", pc'[t] = "run", cur'[t] = i,
           \A u \in Threads \ {t} : pc'[u] = pc[u] /\ cur'[u] = cur[u],
           main' = main
    PROVE  PoolStep
<1>1. Pool!Begin(t, i)
  BY DEF Pool!Begin
<1> QED BY <1>1 DEF PoolStep, Pool!PoolNext

\* Any way of leaving a thread is an End.
LEMMA Ends ==
    ASSUME NEW t \in Threads, NEW i \in Jobs, pc[t] = "run", cur[t] = i, pc'[t] # "run",
           Status(i)' \in {"ready", "parked", "done"},
           \A j \in Jobs \ {i} : Status(j)' = Status(j),
           \A u \in Threads \ {t} : pc'[u] = pc[u] /\ cur'[u] = cur[u],
           main' = main
    PROVE  PoolStep
<1>1. Pool!End(t, i)
  BY DEF Pool!End
<1> QED BY <1>1 DEF PoolStep, Pool!PoolNext

\* A parked job whose wake-up has queued it was awakened.
LEMMA Awakes ==
    ASSUME NEW i \in Jobs, main # "returned", Status(i) = "parked", Status(i)' = "ready",
           \A j \in Jobs \ {i} : Status(j)' = Status(j),
           UNCHANGED <<pc, cur, main>>
    PROVE  PoolStep
<1>1. Pool!Awaken(i)
  BY DEF Pool!Awaken
<1> QED BY <1>1 DEF PoolStep, Pool!PoolNext

\* A set of new jobs that became ready was accepted.
LEMMA Accepts ==
    ASSUME NEW S \in SUBSET Jobs, main # "returned",
           \A j \in S : Status(j) = "new" /\ Status(j)' = "ready",
           \A j \in Jobs \ S : Status(j)' = Status(j),
           UNCHANGED <<pc, cur, main>>
    PROVE  PoolStep
<1>1. Pool!Accept
  BY DEF Pool!Accept
<1> QED BY <1>1 DEF PoolStep, Pool!PoolNext

\* stop() returns with every thread gone and, where it drains, nothing able to run.
LEMMA Closes ==
    ASSUME IInv, StopDrains', main # "returned", main' = "returned",
           \A t \in Threads : pc[t] \in {"off", "exited"},
           UNCHANGED <<queue, state, pc, cur>>
    PROVE  PoolStep
<1>1. ASSUME NEW j \in Jobs PROVE Status(j) \notin {"ready", "running"} /\ Status(j)' = Status(j)
  <2>1. state[j] \in {"NEW", "HOLD"} \cup Finished /\ ~Queued(j)
    BY <1>1 DEF StopDrains, Queued, Has
  <2>2. ~Runs(j) /\ ~Taken(j)
    BY DEF Runs, Taken
  <2>3. Runs(j)' = Runs(j) /\ Taken(j)' = Taken(j) /\ Queued(j)' = Queued(j)
    BY DEF Runs, Taken, Owns, Queued, Has
  <2>4. Status(j) \notin {"ready", "running"}
    BY <2>1, <2>2, StatusHolds DEF StatusFacts, Finished
  <2> QED BY <2>3, <2>4, Same
<1>2. Pool!Close
  BY <1>1 DEF Pool!Close
<1> QED BY <1>2 DEF PoolStep, Pool!PoolNext

\* What a thread does to its job before and after its body.
LEMMA RunRefines ==
    ASSUME IInv, CloseInv, NEW t \in Threads, RunStep(t)
    PROVE  PoolStep
<1> USE JobsAssumption DEF IInv, Types
<1>1. UNCHANGED main /\ main # "returned"
  BY DEF RunStep, TakeTask, FindNothing, Idle, Resume, DropFinished, Deactivate, SettleReady,
     SettleFinished, SettleHold, CloseInv, stopVars
<1>2. \A u \in Threads :
          pc[u] \in Holding => cur[u] \in Jobs /\ \A v \in Threads : u # v => cur[u] # cur[v]
  BY DEF CurInv, FiberExclusive
<1>3. CASE TakeTask(t)
  <2>1. PICK i \in 1 .. Len(queue) :
            /\ FirstEligible(t, i)
            /\ cur' = [cur EXCEPT ![t] = queue[i].job]
            /\ queue' = RemoveAt(queue, i)
    BY <1>3 DEF TakeTask
  <2> DEFINE j == queue[i].job
  <2>2. j \in Jobs /\ Queued(j) /\ state[j] # "EXEC"
    <3>1. queue[i] \in Entry
      OBVIOUS
    <3>2. j \in Jobs
      BY <3>1 DEF Entry
    <3>3. Queued(j)
      BY DEF Has, Queued
    <3>4. state[j] # "EXEC"
      BY <2>1 DEF FirstEligible, Eligible
    <3> QED BY <3>2, <3>3, <3>4
  <2>3. \A k : Queued(k)' <=> Queued(k) /\ k # j
    BY <2>1, RemoveQueue DEF Queued
  <2>4. /\ cur' = [cur EXCEPT ![t] = j] /\ pc' = [pc EXCEPT ![t] = "dispatch"]
        /\ pc[t] = "scan" /\ cur[t] = NoJob /\ state' = state
    BY <1>3, <2>1 DEF TakeTask, CurInv, Holding
  <2> HIDE DEF j
  <2>5. ASSUME NEW k \in Jobs
        PROVE  /\ Runs(k)' <=> Runs(k)
               /\ Queued(k)' \/ Taken(k)' <=> Queued(k) \/ Taken(k)
    <3>1. Runs(k)' <=> Runs(k)
      BY <2>4 DEF Runs, Owns
    <3>2. Taken(k)' <=> Taken(k) \/ k = j
      BY <2>4 DEF Taken, Owns
    <3> QED BY <2>2, <2>3, <3>1, <3>2
  <2>6. \A k \in Jobs : Status(k)' = Status(k)
    BY <2>4, <2>5, Same
  <2> QED BY <1>1, <2>4, <2>6, Stutters
<1>4. CASE FindNothing(t) \/ Idle(t) \/ Deactivate(t)
  <2>1. PICK l \in {"exited", "idle", "scan", "settle"} :
            pc' = [pc EXCEPT ![t] = l] /\ UNCHANGED <<queue, state, cur>>
    BY <1>4 DEF FindNothing, Idle, Deactivate
  <2>2. pc[t] \in {"scan", "idle", "dec"}
    BY <1>4 DEF FindNothing, Idle, Deactivate
  <2>3. ASSUME NEW k \in Jobs PROVE Status(k)' = Status(k)
    <3>1. (Runs(k)' <=> Runs(k)) /\ (Taken(k)' <=> Taken(k)) /\ (Queued(k)' <=> Queued(k))
      BY <2>1, <2>2 DEF Runs, Taken, Owns, Queued, Has
    <3> QED BY <2>1, <3>1, Same
  <2> QED BY <1>1, <2>1, <2>2, <2>3, Stutters
<1>5. CASE Resume(t)
  <2>0. PICK j \in Jobs : j = cur[t]
    BY <1>2, <1>5 DEF Resume, Holding
  <2>1. /\ pc[t] = "dispatch" /\ state[j] \in {"INIT", "READY", "HOLD"} /\ j \in Jobs
        /\ pc' = [pc EXCEPT ![t] = "run"] /\ state' = [state EXCEPT ![j] = "EXEC"]
        /\ UNCHANGED <<queue, cur>>
    BY <1>2, <1>5, <2>0 DEF Resume, CanResume, HeldInv, States, Finished, Holding
  <2>2. Status(j) = "ready" /\ Status(j)' = "running"
    <3>1. ~Runs(j) /\ Taken(j) /\ Runs(j)'
      BY <1>2, <2>0, <2>1 DEF Runs, Taken, Owns, Holding
    <3> QED BY <2>1, <3>1, StatusHolds, StatusAfter DEF StatusFacts, Finished
  <2>3. ASSUME NEW k \in Jobs \ {j} PROVE Status(k)' = Status(k)
    <3>1. (Runs(k)' <=> Runs(k)) /\ (Taken(k)' <=> Taken(k)) /\ (Queued(k)' <=> Queued(k))
      BY <2>0, <2>1 DEF Runs, Taken, Owns, Queued, Has
    <3> QED BY <2>1, <3>1, Same
  <2>4. cur'[t] = j
    BY <2>0, <2>1
  <2> QED BY <1>1, <2>1, <2>2, <2>3, <2>4, Begins
<1>6. CASE DropFinished(t) \/ SettleFinished(t)
  <2> DEFINE j == cur[t]
  <2>1. PICK l \in {"scan", "abort"} :
            pc' = [pc EXCEPT ![t] = l] /\ cur' = [cur EXCEPT ![t] = NoJob]
            /\ UNCHANGED <<queue, state>>
    BY <1>6 DEF DropFinished, SettleFinished, EndTurn
  <2>2. pc[t] \in {"dispatch", "settle"} /\ state[j] \in Finished /\ j \in Jobs
    BY <1>2, <1>6 DEF DropFinished, SettleFinished, Holding
  <2> HIDE DEF j
  <2>3. ASSUME NEW k \in Jobs PROVE Status(k)' = Status(k)
    <3>1. (Runs(k)' <=> Runs(k)) /\ (Queued(k)' <=> Queued(k)) /\ (k # j => (Taken(k)' <=> Taken(k)))
      BY <2>1, <2>2 DEF Runs, Taken, Owns, Queued, Has, j
    <3>2. k = j => state[k] \notin {"EXEC", "HOLD"}
      BY <2>2 DEF Finished
    <3> QED BY <2>1, <3>1, <3>2, Same
  <2> QED BY <1>1, <2>1, <2>2, <2>3, Stutters
<1>7. CASE SettleReady(t)
  <2> DEFINE j == cur[t]
  <2>1. /\ pc[t] = "settle" /\ state[j] = "READY" /\ j \in Jobs
        /\ pc' = [pc EXCEPT ![t] = "scan"] /\ cur' = [cur EXCEPT ![t] = NoJob] /\ state' = state
        /\ Push(j, AnyThread)
    BY <1>2, <1>7 DEF SettleReady, EndTurn, Holding
  <2> HIDE DEF j
  <2>2. \A k : Queued(k)' <=> Queued(k) \/ k = j
    <3>1. [job |-> j, pin |-> AnyThread] \in Entry
      BY <2>1 DEF Entry
    <3> QED BY <2>1, <3>1, AppendQueue DEF Push, Queued
  <2>3. ASSUME NEW k \in Jobs PROVE Status(k)' = Status(k)
    <3>1. (Runs(k)' <=> Runs(k)) /\ (Taken(k)' <=> Taken(k))
      BY <2>1 DEF Runs, Taken, Owns
    <3> QED BY <2>1, <2>2, <3>1, Same
  <2> QED BY <1>1, <2>1, <2>3, Stutters
<1>8. CASE SettleHold(t)
  <2> DEFINE j == cur[t]
  <2>1. /\ pc[t] = "settle" /\ state[j] = "EXEC" /\ j \in Jobs
        /\ pc' = [pc EXCEPT ![t] = "scan"] /\ cur' = [cur EXCEPT ![t] = NoJob]
        /\ state' = [state EXCEPT ![j] = "HOLD"] /\ queue' = queue
    BY <1>2, <1>8 DEF SettleHold, EndTurn, Holding, HeldInv, Finished
  <2> HIDE DEF j
  <2>2. ASSUME NEW k \in Jobs
        PROVE  (Runs(k)' <=> Runs(k)) /\ (Taken(k)' <=> Taken(k)) /\ (Queued(k)' <=> Queued(k))
    BY <2>1 DEF Runs, Taken, Owns, Queued, Has
  <2>3. ASSUME NEW k \in Jobs PROVE Status(k)' = Status(k)
    <3>1. CASE k = j
      <4>1. ~Runs(j)
        BY <1>2, <2>1 DEF Runs, Owns, Holding, j
      <4>2. state[j] = "EXEC" /\ state'[j] = "HOLD"
        BY <2>1
      <4> QED BY <2>1, <2>2, <3>1, <4>1, <4>2, StatusHolds, StatusAfter DEF StatusFacts
    <3>2. CASE k # j
      BY <2>1, <2>2, <3>2, Same
    <3> QED BY <3>1, <3>2
  <2> QED BY <1>1, <2>1, <2>3, Stutters
<1> QED BY <1>3, <1>4, <1>5, <1>6, <1>7, <1>8 DEF RunStep

\* What the body of a job does.
LEMMA BodyRefines ==
    ASSUME IInv, CloseInv, NEW t \in Threads, NEW j \in Jobs, Leave(t, j) \/ Arm(t, j)
    PROVE  PoolStep
<1> USE JobsAssumption DEF IInv, Types
<1>1. UNCHANGED <<main, queue, cur>>
  BY DEF Leave, Return, Throw, YieldToReady, YieldToHold, SwitchOut, Arm, stopVars, threadVars
<1>2. pc[t] = "run" /\ cur[t] = j /\ \A u \in Threads \ {t} : cur[u] # j
  BY DEF Leave, Return, Throw, YieldToReady, YieldToHold, Running, Arm, Owns, FiberExclusive
<1>3. CASE Arm(t, j)
  <2>1. UNCHANGED <<pc, cur, queue, state, main>>
    BY <1>3 DEF Arm, threadVars, stopVars
  <2>2. ASSUME NEW k \in Jobs PROVE Status(k)' = Status(k)
    <3>1. (Runs(k)' <=> Runs(k)) /\ (Taken(k)' <=> Taken(k)) /\ (Queued(k)' <=> Queued(k))
      BY <2>1 DEF Runs, Taken, Owns, Queued, Has
    <3> QED BY <2>1, <3>1, Same
  <2> QED BY <2>1, <2>2, Stutters
<1>4. CASE Leave(t, j)
  <2>1. PICK s \in {"TERM", "EXCEPT", "READY", "EXEC"} :
            state' = [state EXCEPT ![j] = s] /\ pc' = [pc EXCEPT ![t] = "dec"]
    BY <1>4 DEF Leave, Return, Throw, YieldToReady, YieldToHold, SwitchOut
  <2>2. ASSUME NEW k \in Jobs \ {j} PROVE Status(k)' = Status(k)
    <3>1. (Runs(k)' <=> Runs(k)) /\ (Taken(k)' <=> Taken(k)) /\ (Queued(k)' <=> Queued(k))
      BY <1>1, <1>2, <2>1 DEF Runs, Taken, Owns, Queued, Has
    <3> QED BY <2>1, <3>1, Same
  <2>3. Status(j)' \in {"ready", "parked", "done"}
    <3>1. ~Runs(j)' /\ state'[j] = s
      BY <1>1, <1>2, <2>1 DEF Runs, Owns
    <3> QED BY <3>1, StatusAfter DEF StatusFacts, Finished
  <2> QED BY <1>1, <1>2, <2>1, <2>2, <2>3, Ends
<1> QED BY <1>3, <1>4

\* What clients do.
LEMMA ClientRefines ==
    ASSUME IInv, CloseInv, NEW j \in Jobs, Client(j)
    PROVE  PoolStep
<1> USE JobsAssumption DEF IInv, Types
<1>1. UNCHANGED <<main, pc, cur>>
  BY DEF Client, Submit, SubmitBatch, SubmitFinished, Wake, threadVars, stopVars
<1>2. FromOutside \/ FromJob => main # "returned"
  BY DEF CloseInv, FromOutside, FromJob, Running
<1>3. ASSUME NEW k \in Jobs PROVE (Runs(k)' <=> Runs(k)) /\ (Taken(k)' <=> Taken(k))
  BY <1>1 DEF Runs, Taken, Owns
<1>4. ASSUME NEW p \in Threads \cup {AnyThread}, Push(j, p)
      PROVE  \A k : Queued(k)' <=> Queued(k) \/ k = j
  <2>1. [job |-> j, pin |-> p] \in Entry
    BY DEF Entry
  <2> QED BY <1>4, <2>1, AppendQueue DEF Push, Queued
<1>5. ASSUME NEW k \in Jobs, state[k] = "NEW", state'[k] = "INIT"
      PROVE  Status(k) = "new" /\ Status(k)' = "ready"
  <2>1. ~Runs(k)
    BY <1>5 DEF PlaceInv, Owned, Runs, Owns
  <2> QED BY <1>3, <1>5, <2>1, StatusHolds, StatusAfter DEF StatusFacts
<1>6. CASE Submit(j)
  <2>1. main # "returned" /\ state[j] = "NEW" /\ state' = [state EXCEPT ![j] = "INIT"]
    BY <1>2, <1>6 DEF Submit, Submitter
  <2>2. \A k : Queued(k)' <=> Queued(k) \/ k = j
    BY <1>4, <1>6, HomeAssumption DEF Submit
  <2>3. \A k \in Jobs \ {j} : Status(k)' = Status(k)
    BY <1>3, <2>1, <2>2, Same
  <2>4. Status(j) = "new" /\ Status(j)' = "ready"
    BY <1>5, <2>1
  <2>5. PICK S \in SUBSET Jobs : S = {j}
    OBVIOUS
  <2>6. \A l \in S : Status(l) = "new" /\ Status(l)' = "ready"
    BY <2>4, <2>5
  <2> QED BY <1>1, <2>1, <2>3, <2>5, <2>6, Accepts
<1>7. ASSUME NEW k \in Jobs, SubmitBatch(j, k) PROVE PoolStep
  <2> DEFINE a == [job |-> j, pin |-> AnyThread]
             b == [job |-> k, pin |-> AnyThread]
  <2>1. /\ main # "returned" /\ state[j] = "NEW" /\ state[k] = "NEW" /\ j # k
        /\ state' = [state EXCEPT ![j] = "INIT", ![k] = "INIT"] /\ queue' = queue \o <<a, b>>
    BY <1>2, <1>7 DEF SubmitBatch, Submitter
  <2>2. \A l : Queued(l)' <=> Queued(l) \/ l = j \/ l = k
    <3>1. a \in Entry /\ b \in Entry /\ a.job = j /\ b.job = k
      BY DEF Entry
    <3>2. ~Has(queue, j) /\ ~Has(queue, k)
      BY <2>1 DEF PlaceInv, Queued
    <3> HIDE DEF a, b
    <3>3. \A l : Has(queue \o <<a, b>>, l) <=> Has(queue, l) \/ l = a.job \/ l = b.job
      <4>1. queue \in Seq(Entry) /\ NoTwice(queue)
        OBVIOUS
      <4> QED BY ONLY <2>1, <3>1, <3>2, <4>1, AppendBoth
    <3> QED BY <2>1, <3>1, <3>3 DEF Queued
  <2>3. \A l \in Jobs \ {j, k} : Status(l)' = Status(l)
    BY <1>3, <2>1, <2>2, Same
  <2>4. \A l \in {j, k} : Status(l) = "new" /\ Status(l)' = "ready"
    BY <1>5, <2>1
  <2>5. PICK S \in SUBSET Jobs : S = {j, k}
    OBVIOUS
  <2> QED BY <1>1, <2>1, <2>3, <2>4, <2>5, Accepts
<1>8. CASE SubmitFinished(j)
  <2>1. state[j] \in Finished /\ state' = state
    BY <1>8 DEF SubmitFinished
  <2>2. \A k : Queued(k)' <=> Queued(k) \/ k = j
    BY <1>4, <1>8 DEF SubmitFinished
  <2>3. \A k \in Jobs : Status(k)' = Status(k)
    BY <1>3, <2>1, <2>2, Same DEF Finished
  <2> QED BY <1>1, <2>3, Stutters
<1>9. CASE Wake(j)
  <2>1. main # "returned" /\ j \in armed /\ state' = state
    BY <1>2, <1>9 DEF Wake
  <2>2. \A k : Queued(k)' <=> Queued(k) \/ k = j
    BY <1>4, <1>9 DEF Wake
  <2>3. \A k \in Jobs \ {j} : Status(k)' = Status(k)
    BY <1>3, <2>1, <2>2, Same
  <2>4. state[j] \in {"EXEC", "HOLD"} /\ ~Queued(j) /\ ~Taken(j)
    BY <2>1 DEF PlaceInv, ParkInv, Parking, Taken, Owns
  <2>5. CASE Runs(j)
    <3>1. Status(j)' = Status(j)
      BY <1>3, <2>5, StatusHolds, StatusAfter DEF StatusFacts
    <3> QED BY <1>1, <2>3, <3>1, Stutters
  <2>6. CASE ~Runs(j)
    <3>1. Status(j) = "parked" /\ Status(j)' = "ready"
      BY <1>3, <2>1, <2>2, <2>4, <2>6, StatusHolds, StatusAfter DEF StatusFacts
    <3> QED BY <1>1, <2>1, <2>3, <3>1, Awakes
  <2> QED BY <2>5, <2>6
<1> QED BY <1>6, <1>7, <1>8, <1>9 DEF Client

\* Every step of the scheduler is one of TaskPool.
LEMMA StepRefines ==
    ASSUME IInv, CloseInv, StopDrains', [Next]_vars
    PROVE  PoolStep
<1>1. ASSUME UNCHANGED <<queue, state, cur>>,
             \A t \in Threads : pc'[t] = pc[t] \/ (pc[t] = "off" /\ pc'[t] = "scan"),
             main # "returned", main' # "returned"
      PROVE  PoolStep
  <2>1. ASSUME NEW k \in Jobs PROVE Status(k)' = Status(k)
    <3>1. (Runs(k)' <=> Runs(k)) /\ (Taken(k)' <=> Taken(k)) /\ (Queued(k)' <=> Queued(k))
      BY <1>1 DEF Runs, Taken, Owns, Queued, Has
    <3> QED BY <1>1, <3>1, Same
  <2> QED BY <1>1, <2>1, Stutters
<1>2. CASE Start
  BY <1>1, <1>2 DEF Start, IInv, Types, MainInv
<1>3. CASE StopCall \/ StopFlag
  BY <1>1, <1>3 DEF StopCall, StopFlag, threadVars
<1>4. CASE StopRoot
  BY <1>1, <1>4 DEF StopRoot, IInv, Types, MainInv
<1>5. CASE StopCheck
  <2>1. CASE main' = "returned"
    BY <1>5, <2>1, Closes DEF StopCheck, CloseInv, threadVars
  <2>2. CASE main' # "returned"
    BY <1>1, <1>5, <2>2 DEF StopCheck, threadVars
  <2> QED BY <2>1, <2>2
<1>6. CASE StopReturn
  BY <1>6, Closes DEF StopReturn, threadVars
<1>7. CASE UNCHANGED vars
  <2>1. UNCHANGED <<queue, state, pc, cur, main>>
    BY <1>7 DEF vars, threadVars, stopVars
  <2>2. ASSUME NEW k \in Jobs PROVE Status(k)' = Status(k)
    <3>1. (Runs(k)' <=> Runs(k)) /\ (Taken(k)' <=> Taken(k)) /\ (Queued(k)' <=> Queued(k))
      BY <2>1 DEF Runs, Taken, Owns, Queued, Has
    <3> QED BY <2>1, <3>1, Same
  <2> QED BY <2>1, <2>2, Stutters
<1> QED BY <1>2, <1>3, <1>4, <1>5, <1>6, <1>7, RunRefines, BodyRefines, ClientRefines
    DEF Next, Stop

\* Where stop() drains the queue, which it does unless a running job submits a task for a
\* worker that has gone, every behaviour of run(), schedule() and stop() is one of TaskPool,
\* for any threads and jobs, whether functions throw or not.
THEOREM Implements == Spec /\ []StopDrains => ImplementsTaskPool
<1>1. Init => Pool!PoolInit
  <2> SUFFICES ASSUME Init PROVE Pool!PoolInit
    OBVIOUS
  <2>1. \A j \in Jobs : ~Runs(j) /\ state[j] = "NEW"
    BY DEF Init, Runs
  <2>2. \A j \in Jobs : Status(j) = "new"
    BY <2>1, StatusHolds DEF StatusFacts
  <2> QED BY <2>2 DEF Init, Pool!PoolInit
<1>2. IInv /\ CloseInv /\ [Next]_vars => CloseInv'
  BY CloseNext
<1>3. IInv /\ CloseInv /\ StopDrains' /\ [Next]_vars => [Pool!PoolNext]_Pool!poolVars
  BY StepRefines DEF PoolStep, Shown, Doing, Pool!poolVars
<1> QED BY <1>1, <1>2, <1>3, CloseInit, Inductive, PTL DEF Spec, ImplementsTaskPool, Pool!PoolSpec

-----------------------------------------------------------------------------
(* What stop() leaves behind.                                               *)

\* Jobs that run submit tasks for any thread; tasks for one thread come from outside.
SpawnedFree == \A j \in Jobs \ Outside : Home[j] = AnyThread

Gone == {"off", "exited"}

\* When an idle fiber has returned, every entry of the queue is for any thread.
FreeInv ==
    (\E t \in Threads : idleTerm[t]) => \A i \in 1 .. Len(queue) : queue[i].pin = AnyThread

\* Who goes has seen stopping(); there is a thread that runs, from start() on.
StaffInv ==
    /\ useCaller \/ crew # {}
    /\ main # "created" => \A t \in crew : pc[t] # "off"
    /\ \A t \in Threads : idleTerm[t] => autoStop
    /\ \A t \in Threads : pc[t] = "exited" => idleTerm[t]

\* The threads that have to be there before the queue is served to its end.
Manned == main \in {"join", "returned"} \/ (~useCaller /\ main # "created")

\* While there are tasks, not every thread has gone.
ServedInv == queue # <<>> /\ Manned => \E t \in Threads : pc[t] \notin Gone

DrainInv == FreeInv /\ StaffInv /\ ServedInv

LEMMA DrainInit == Init => DrainInv
<1> SUFFICES ASSUME Init PROVE DrainInv
  OBVIOUS
<1>1. queue = <<>> /\ \A t \in Threads : pc[t] = "off" /\ ~idleTerm[t]
  BY DEF Init
<1>2. (useCaller \/ crew # {}) /\ main = "created"
  BY DEF Init
<1> QED BY <1>1, <1>2 DEF DrainInv, FreeInv, StaffInv, ServedInv

\* A push of a task for any thread keeps FreeInv; one for a thread is made before stop().
LEMMA FreePush ==
    ASSUME IInv, FreeInv, StaffInv, NEW j \in Jobs, NEW p \in Threads \cup {AnyThread},
           queue' = Append(queue, [job |-> j, pin |-> p]), idleTerm' = idleTerm,
           p = AnyThread \/ ~autoStop
    PROVE  FreeInv'
<1>1. queue \in Seq(Entry)
  BY DEF IInv, Types
<1> DEFINE e == [job |-> j, pin |-> p]
<1>2. /\ Len(queue') = Len(queue) + 1
      /\ \A i \in 1 .. Len(queue') : queue'[i] = IF i <= Len(queue) THEN queue[i] ELSE e
  BY <1>1
<1>3. e.pin = p
  OBVIOUS
<1> HIDE DEF e
<1>4. SUFFICES ASSUME NEW t \in Threads, idleTerm'[t], NEW i \in 1 .. Len(queue')
               PROVE  queue'[i].pin = AnyThread
  BY DEF FreeInv
<1>5. p = AnyThread /\ \A k \in 1 .. Len(queue) : queue[k].pin = AnyThread
  BY <1>4 DEF FreeInv, StaffInv
<1>6. CASE i <= Len(queue)
  BY <1>1, <1>2, <1>5, <1>6
<1>7. CASE ~(i <= Len(queue))
  BY <1>2, <1>3, <1>5, <1>7
<1> QED BY <1>6, <1>7

\* Whoever may submit finds a thread that has not gone.
LEMMA SubmittersStay ==
    ASSUME IInv, CloseInv, StaffInv, FromOutside \/ FromJob, Manned
    PROVE  \E t \in Threads : pc[t] \notin Gone
<1>1. CASE FromJob
  BY <1>1 DEF FromJob, Running, Gone
<1>2. CASE FromOutside
  <2>1. ~useCaller /\ main # "created"
    BY <1>2 DEF FromOutside, CloseInv, Manned
  <2>2. PICK t \in crew : TRUE
    BY <2>1 DEF StaffInv
  <2>3. t \in Threads /\ pc[t] # "off"
    BY <2>1 DEF StaffInv, IInv, Types, Threads
  <2>4. pc[t] # "exited"
    BY <1>2, <2>3 DEF StaffInv, FromOutside
  <2> QED BY <2>3, <2>4 DEF Gone
<1> QED BY <1>1, <1>2

LEMMA DrainClient ==
    ASSUME SpawnedFree, IInv, CloseInv, DrainInv, NEW j \in Jobs, Client(j)
    PROVE  DrainInv'
<1>1. UNCHANGED <<crew, useCaller, pc, idleTerm, autoStop, main>>
  BY DEF Client, Submit, SubmitBatch, SubmitFinished, Wake, config, threadVars, stopVars
<1>2. FromOutside \/ FromJob
  BY DEF Client, Submit, SubmitBatch, SubmitFinished, Wake, Submitter
<1>3. StaffInv'
  BY <1>1 DEF DrainInv, StaffInv
<1>4. ServedInv'
  BY <1>1, <1>2, SubmittersStay DEF DrainInv, ServedInv, Manned
<1>5. FreeInv'
  <2>1. CASE Submit(j)
    <3>1. Home[j] \in Threads \cup {AnyThread} /\ (Home[j] = AnyThread \/ ~autoStop)
      BY <2>1, HomeAssumption DEF Submit, Submitter, SpawnedFree, FromOutside
    <3> QED BY <1>1, <2>1, <3>1, FreePush DEF Submit, Push, DrainInv
  <2>2. CASE SubmitFinished(j) \/ Wake(j)
    BY <1>1, <2>2, FreePush DEF SubmitFinished, Wake, Push, DrainInv
  <2>3. ASSUME NEW k \in Jobs, SubmitBatch(j, k) PROVE FreeInv'
    <3> DEFINE a == [job |-> j, pin |-> AnyThread]
               b == [job |-> k, pin |-> AnyThread]
    <3>1. queue' = queue \o <<a, b>> /\ queue \in Seq(Entry)
      BY <2>3 DEF SubmitBatch, IInv, Types
    <3>2. a.pin = AnyThread /\ b.pin = AnyThread
      OBVIOUS
    <3> HIDE DEF a, b
    <3>3. /\ Len(queue') = Len(queue) + 2
          /\ \A i \in 1 .. Len(queue') :
                queue'[i] = IF i <= Len(queue) THEN queue[i]
                            ELSE IF i = Len(queue) + 1 THEN a ELSE b
      BY <3>1
    <3>4. SUFFICES ASSUME NEW t \in Threads, idleTerm'[t], NEW i \in 1 .. Len(queue')
                   PROVE  queue'[i].pin = AnyThread
      BY DEF FreeInv
    <3>5. \A l \in 1 .. Len(queue) : queue[l].pin = AnyThread
      BY <1>1, <3>4 DEF FreeInv, DrainInv
    <3>6. CASE i <= Len(queue)
      BY <3>1, <3>3, <3>5, <3>6
    <3>7. CASE ~(i <= Len(queue))
      BY <3>2, <3>3, <3>7
    <3> QED BY <3>6, <3>7
  <2> QED BY <2>1, <2>2, <2>3 DEF Client
<1> QED BY <1>3, <1>4, <1>5 DEF DrainInv

\* A thread that finds nothing leaves tasks behind only if others execute their fibers.
LEMMA DrainFindNothing ==
    ASSUME IInv, DrainInv, NEW t \in Threads, FindNothing(t)
    PROVE  DrainInv'
<1> USE DEF IInv, Types
<1>1. /\ pc[t] = "scan" /\ UNCHANGED <<config, queue, state, cur, idleTerm, stopVars>>
      /\ pc' = [pc EXCEPT ![t] = IF idleTerm[t] THEN "exited" ELSE "idle"]
  BY DEF FindNothing
<1>2. FreeInv' /\ StaffInv'
  BY <1>1 DEF DrainInv, FreeInv, StaffInv, config, stopVars
<1>3. ServedInv'
  <2>1. CASE ~idleTerm[t]
    BY <1>1, <2>1 DEF ServedInv, Gone
  <2>2. CASE idleTerm[t] /\ queue # <<>>
    <3>1. 1 \in 1 .. Len(queue) /\ queue[1] \in Entry
      BY <2>2
    <3>2. queue[1].pin = AnyThread
      BY <2>2, <3>1 DEF DrainInv, FreeInv
    <3>3. queue[1].job \in Jobs /\ state[queue[1].job] = "EXEC"
      BY <3>1, <3>2 DEF FindNothing, Eligible, Entry
    <3>4. PICK u \in Threads : cur[u] = queue[1].job
      BY <3>3 DEF PlaceInv, Owned, Owns
    <3>5. pc[u] \in Holding
      BY <3>3, <3>4, JobsAssumption DEF CurInv
    <3>6. pc'[u] \notin Gone
      BY <1>1, <3>5 DEF Holding, Gone
    <3> QED BY <3>6 DEF ServedInv
  <2>3. CASE queue = <<>>
    BY <1>1, <2>3 DEF ServedInv
  <2> QED BY <2>1, <2>2, <2>3
<1> QED BY <1>2, <1>3 DEF DrainInv

LEMMA DrainRun ==
    ASSUME IInv, DrainInv, NEW t \in Threads, RunStep(t)
    PROVE  DrainInv'
<1> USE DEF IInv, Types
<1>1. UNCHANGED <<crew, useCaller, stopFlag, autoStop, main>>
  BY DEF RunStep, TakeTask, FindNothing, Idle, Resume, DropFinished, Deactivate,
     SettleReady, SettleFinished, SettleHold, config, stopVars
<1>2. ASSUME NEW p \in {"scan", "idle", "dispatch", "run", "dec", "settle", "abort"},
             pc' = [pc EXCEPT ![t] = p], idleTerm' = idleTerm
      PROVE  StaffInv' /\ ServedInv'
  <2>1. StaffInv'
    BY <1>1, <1>2 DEF DrainInv, StaffInv, Threads
  <2>2. pc'[t] \notin Gone
    BY <1>2 DEF Gone
  <2> QED BY <2>1, <2>2 DEF ServedInv
<1>3. CASE TakeTask(t)
  <2>1. PICK i \in 1 .. Len(queue) : queue' = RemoveAt(queue, i)
    BY <1>3 DEF TakeTask
  <2>2. idleTerm' = idleTerm /\ pc' = [pc EXCEPT ![t] = "dispatch"]
    BY <1>3 DEF TakeTask
  <2>3. /\ Len(queue') = Len(queue) - 1
        /\ \A k \in 1 .. Len(queue') : queue'[k] = IF k < i THEN queue[k] ELSE queue[k + 1]
    BY <2>1, RemoveEntries
  <2>4. FreeInv'
    BY <2>2, <2>3 DEF DrainInv, FreeInv
  <2> QED BY <1>2, <2>2, <2>4 DEF DrainInv
<1>4. CASE FindNothing(t)
  BY <1>4, DrainFindNothing
<1>5. CASE Idle(t)
  <2>1. /\ pc' = [pc EXCEPT ![t] = "scan"] /\ queue' = queue
        /\ idleTerm' = [idleTerm EXCEPT ![t] = Stopping] /\ pc[t] = "idle"
    BY <1>5 DEF Idle
  <2>2. Stopping => autoStop /\ queue = <<>>
    BY DEF Stopping
  <2>3. PICK s \in BOOLEAN : s = Stopping
    BY DEF Stopping
  <2>4. StaffInv'
    BY <1>1, <2>1, <2>2, <2>3 DEF DrainInv, StaffInv, Threads
  <2>5. FreeInv'
    BY <2>1, <2>2, <2>3 DEF DrainInv, FreeInv
  <2>6. ServedInv'
    BY <2>1 DEF ServedInv, Gone
  <2> QED BY <2>4, <2>5, <2>6 DEF DrainInv
<1>6. CASE Resume(t)
  BY <1>2, <1>6 DEF Resume, DrainInv, FreeInv
<1>7. CASE DropFinished(t) \/ Deactivate(t)
  BY <1>2, <1>7 DEF DropFinished, Deactivate, DrainInv, FreeInv
<1>8. CASE SettleReady(t)
  <2>1. cur[t] \in Jobs
    BY <1>8, JobsAssumption DEF SettleReady, CurInv, Holding
  <2>2. FreeInv'
    BY <1>8, <2>1, FreePush DEF SettleReady, Push, DrainInv
  <2> QED BY <1>2, <1>8, <2>2 DEF SettleReady, DrainInv
<1>9. CASE SettleFinished(t)
  BY <1>2, <1>9 DEF SettleFinished, DrainInv, FreeInv
<1>10. CASE SettleHold(t)
  BY <1>2, <1>10 DEF SettleHold, DrainInv, FreeInv
<1> QED BY <1>3, <1>4, <1>5, <1>6, <1>7, <1>8, <1>9, <1>10 DEF RunStep

LEMMA DrainStop ==
    ASSUME IInv, CloseInv, DrainInv, Start \/ Stop
    PROVE  DrainInv'
<1> USE DEF IInv, Types
<1>1. UNCHANGED <<crew, useCaller, queue, idleTerm>>
  BY DEF Start, Stop, StopCall, StopCheck, StopFlag, StopRoot, StopReturn, config, threadVars
<1>2. FreeInv'
  BY <1>1 DEF DrainInv, FreeInv
<1>3. CASE Start
  <2>1. /\ main = "created" /\ main' = "started" /\ autoStop' = autoStop
        /\ pc' = [t \in Threads |-> IF t \in crew THEN "scan" ELSE pc[t]]
    BY <1>3 DEF Start
  <2>2. StaffInv'
    BY <1>1, <2>1 DEF DrainInv, StaffInv, MainInv, Threads
  <2>3. ServedInv'
    <3>1. SUFFICES ASSUME Manned' PROVE \E t \in Threads : pc'[t] \notin Gone
      BY DEF ServedInv
    <3>2. ~useCaller
      BY <1>1, <2>1, <3>1 DEF Manned
    <3>3. PICK t \in crew : TRUE
      BY <3>2 DEF DrainInv, StaffInv
    <3>4. t \in Threads /\ pc'[t] = "scan"
      BY <2>1, <3>3 DEF Threads
    <3> QED BY <3>4 DEF Gone
  <2> QED BY <1>2, <2>2, <2>3 DEF DrainInv
<1>4. CASE StopCall \/ StopFlag \/ StopReturn
  <2>1. UNCHANGED pc /\ main # "created" /\ (autoStop => autoStop')
    BY <1>4 DEF StopCall, StopFlag, StopReturn, threadVars
  <2>2. StaffInv'
    BY <1>1, <2>1 DEF DrainInv, StaffInv
  <2>3. Manned' => Manned
    BY <1>1, <1>4 DEF StopCall, StopFlag, StopReturn, Manned
  <2>4. ServedInv'
    BY <1>1, <2>1, <2>3 DEF DrainInv, ServedInv
  <2> QED BY <1>2, <2>2, <2>4 DEF DrainInv
<1>5. CASE StopCheck
  <2>1. UNCHANGED pc /\ main # "created" /\ autoStop' = autoStop
    BY <1>5 DEF StopCheck, threadVars
  <2>2. StaffInv'
    BY <1>1, <2>1 DEF DrainInv, StaffInv
  <2>3. queue # <<>> /\ Manned' => Manned
    BY <1>1, <1>5 DEF StopCheck, Manned, Stopping
  <2>4. ServedInv'
    BY <1>1, <2>1, <2>3 DEF DrainInv, ServedInv
  <2> QED BY <1>2, <2>2, <2>4 DEF DrainInv
<1>6. CASE StopRoot
  <2>1. /\ main = "root" /\ main' = "join" /\ autoStop' = autoStop
        /\ pc' = [pc EXCEPT ![Caller] = IF Stopping THEN pc[Caller] ELSE "scan"]
    BY <1>6 DEF StopRoot
  <2>2. Caller \in Threads /\ Caller \notin crew /\ pc[Caller] = "off"
    BY <2>1, WorkersAssumption DEF MainInv, Threads
  <2>3. StaffInv'
    BY <1>1, <2>1, <2>2 DEF DrainInv, StaffInv
  <2>4. ServedInv'
    <3>1. CASE Stopping
      BY <1>1, <3>1 DEF ServedInv, Stopping
    <3>2. CASE ~Stopping
      BY <2>1, <2>2, <3>2 DEF ServedInv, Gone
    <3> QED BY <3>1, <3>2
  <2> QED BY <1>2, <2>3, <2>4 DEF DrainInv
<1> QED BY <1>3, <1>4, <1>5, <1>6 DEF Stop

LEMMA DrainNext ==
    ASSUME SpawnedFree
    PROVE  IInv /\ CloseInv /\ DrainInv /\ [Next]_vars => DrainInv'
<1> SUFFICES ASSUME IInv, CloseInv, DrainInv, [Next]_vars PROVE DrainInv'
  OBVIOUS
<1>1. ASSUME NEW t \in Threads, NEW j \in Jobs, Leave(t, j) \/ Arm(t, j) PROVE DrainInv'
  <2>1. UNCHANGED <<crew, useCaller, queue, idleTerm, autoStop, main>>
    BY <1>1 DEF Leave, Return, Throw, YieldToReady, YieldToHold, SwitchOut, Arm, config,
       threadVars, stopVars
  <2>2. PICK p \in {"run", "dec"} : pc' = [pc EXCEPT ![t] = p]
    BY <1>1 DEF Leave, Return, Throw, YieldToReady, YieldToHold, SwitchOut, Arm, Running,
       threadVars, IInv, Types
  <2>3. pc'[t] \notin Gone
    BY <2>2 DEF Gone, IInv, Types
  <2> QED BY <2>1, <2>2, <2>3
      DEF DrainInv, FreeInv, StaffInv, ServedInv, Manned, IInv, Types, Threads
<1>2. CASE UNCHANGED vars
  BY <1>2 DEF vars, config, threadVars, stopVars, DrainInv, FreeInv, StaffInv, ServedInv, Manned
<1> QED BY <1>1, <1>2, DrainRun, DrainClient, DrainStop DEF Next

\* Where running jobs submit tasks for any thread only, stop() returns with no task left
\* that could still run: the worker that goes last has found the queue empty.
THEOREM Drains ==
    ASSUME SpawnedFree
    PROVE  Spec => []StopDrains
<1>1. IInv /\ CloseInv /\ [Next]_vars => CloseInv'
  BY CloseNext
<1>2. IInv /\ CloseInv /\ DrainInv /\ [Next]_vars => DrainInv'
  BY DrainNext
<1>3. IInv /\ CloseInv /\ DrainInv => StopDrains
  <2> SUFFICES ASSUME IInv, CloseInv, DrainInv, main = "returned", NEW j \in Jobs
               PROVE  state[j] \in {"NEW", "HOLD"} \cup Finished /\ ~Queued(j)
    BY DEF StopDrains
  <2>1. queue = <<>>
    BY DEF CloseInv, DrainInv, ServedInv, Manned, Gone
  <2>2. ~Queued(j)
    BY <2>1 DEF Queued, Has
  <2>3. ~Owned(j)
    BY JobsAssumption DEF Owned, Owns, IInv, CurInv, CloseInv, Holding
  <2> QED BY <2>2, <2>3 DEF IInv, Types, PlaceInv, States, Finished
<1> QED BY <1>1, <1>2, <1>3, CloseInit, DrainInit, Inductive, PTL DEF Spec

\* So the scheduler implements TaskPool for every such workload, on any threads.
THEOREM ImplementsFree ==
    ASSUME SpawnedFree
    PROVE  Spec => ImplementsTaskPool
BY Drains, Implements, PTL
=============================================================================
