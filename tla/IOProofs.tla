------------------------------ MODULE IOProofs -------------------------------
(***************************************************************************)
(* Safety of IOManager for any threads, jobs and descriptors: the contexts *)
(* agree with epoll and with m_pendingEventCount.  IOInv is the conjunction*)
(* of these with the types, to which it adds that only events in use are   *)
(* awaited and that a thread that executes a job has one.  PlaceInv says   *)
(* that every job is in one place; with HandsInv it makes every step one of*)
(* EventPool.  ReportInv and AnswersInv say what one thread alone may rely *)
(* on between two steps of idle().                                         *)
(***************************************************************************)
EXTENDS IOManager, FiniteSetTheorems, SequenceTheorems, TLAPS

UsedInv == \A f \in Fds : \A e \in events[f] : <<f, e>> \in Uses

RunInv == \A h \in Threads : pc[h] = "run" => cur[h] \in Jobs

\* TypeOK without the sign of the count, which follows from PendingExact.
Types ==
    /\ queue \in Seq(Jobs)
    /\ pc \in [Threads -> IdleSteps \cup {"scan", "run", "enter", "exited", "abort"}]
    /\ cur \in [Threads -> Jobs \cup {NoJob}]
    /\ ended \in [Threads -> BOOLEAN] /\ stop \in BOOLEAN
    /\ events \in [Fds -> SUBSET Events]
    /\ waiter \in [Fds -> [Events -> Jobs \cup {NoJob}]]
    /\ pending \in Int
    /\ due \subseteq timers /\ timers \subseteq Jobs
    /\ batch \in [Threads -> SUBSET Jobs]
    /\ report \in [Threads -> SUBSET [fd : Fds, signals : SUBSET {READ, WRITE, ERR}]]
    /\ gotPipe \in [Threads -> BOOLEAN]
    /\ pipe \in {"empty", "new", "seen"}
    /\ interest \in [Fds -> SUBSET Events] /\ edge \in [Fds -> BOOLEAN]
    /\ ready \in [Fds -> SUBSET Events] /\ broken \in [Fds -> BOOLEAN]

IOInv == Types /\ UsedInv /\ RunInv /\ ContextInSync

-----------------------------------------------------------------------------
(* What the shared operations do.                                           *)

\* schedule() and tickle() keep the types.
LEMMA ScheduleType ==
    ASSUME queue \in Seq(Jobs), pipe \in {"empty", "new", "seen"},
           NEW s \in Seq(Jobs), Schedule(s)
    PROVE  queue' \in Seq(Jobs) /\ pipe' \in {"empty", "new", "seen"}
BY DEF Schedule, Tickle

\* The events of S are taken from the context of f, and so are those that waited for them.
Dropped(f, S) ==
    /\ events' = [events EXCEPT ![f] = @ \ S]
    /\ \A g \in Fds, e \in Events :
          waiter'[g][e] = IF g = f /\ e \in S THEN NoJob ELSE waiter[g][e]

LEMMA EventsFinite == IsFiniteSet(Events)
<1>1. IsFiniteSet({READ})
  BY FS_Singleton
<1>2. IsFiniteSet({READ} \cup {WRITE})
  BY <1>1, FS_AddElement
<1>3. {READ} \cup {WRITE} = Events
  BY DEF Events
<1> QED BY <1>2, <1>3

\* triggerEvent() takes the events away together with their waiters.
LEMMA TriggerContext ==
    ASSUME IOInv, NEW f \in Fds, NEW S \in SUBSET events[f], Trigger(f, S)
    PROVE  /\ Dropped(f, S)
           /\ waiter' \in [Fds -> [Events -> Jobs \cup {NoJob}]]
           /\ queue' \in Seq(Jobs) /\ pipe' \in {"empty", "new", "seen"}
           /\ pending' \in Int
<1> USE DEF IOInv, Types
<1>1. \A e \in S : e \in Events /\ waiter[f][e] \in Jobs
  BY DEF ContextInSync
<1>2. Cardinality(S) \in Nat
  <2>1. IsFiniteSet(S)
    BY EventsFinite, FS_Subset
  <2> QED BY <2>1, FS_CardinalityType
<1> DEFINE s == (IF READ \in S THEN <<waiter[f][READ]>> ELSE <<>>)
                \o (IF WRITE \in S THEN <<waiter[f][WRITE]>> ELSE <<>>)
<1>3. s \in Seq(Jobs)
  <2>1. (IF READ \in S THEN <<waiter[f][READ]>> ELSE <<>>) \in Seq(Jobs)
    BY <1>1
  <2>2. (IF WRITE \in S THEN <<waiter[f][WRITE]>> ELSE <<>>) \in Seq(Jobs)
    BY <1>1
  <2> QED BY <2>1, <2>2
<1>4. Schedule(s)
  BY DEF Trigger
<1>5. queue' \in Seq(Jobs) /\ pipe' \in {"empty", "new", "seen"}
  <2> HIDE DEF s
  <2> QED BY <1>3, <1>4, ScheduleType
<1>6. pending' \in Int
  BY <1>2 DEF Trigger
<1>7. waiter' = [waiter EXCEPT ![f] = [e \in Events |-> IF e \in S THEN NoJob ELSE waiter[f][e]]]
  BY DEF Trigger
<1>8. waiter' \in [Fds -> [Events -> Jobs \cup {NoJob}]]
  BY <1>7
<1>9. \A g \in Fds, e \in Events :
        waiter'[g][e] = IF g = f /\ e \in S THEN NoJob ELSE waiter[g][e]
  BY <1>7
<1> QED BY <1>5, <1>6, <1>8, <1>9 DEF Trigger, Dropped

\* What a context is after addEvent().
LEMMA RegisterContext ==
    ASSUME IOInv, NEW f \in Fds, NEW e \in Events, NEW j \in Jobs, Register(f, e, j)
    PROVE  /\ events' \in [Fds -> SUBSET Events] /\ interest' \in [Fds -> SUBSET Events]
           /\ waiter' \in [Fds -> [Events -> Jobs \cup {NoJob}]]
           /\ edge' \in [Fds -> BOOLEAN] /\ pending' \in Int
           /\ UsedInv' /\ ContextInSync'
<1> USE DEF IOInv, Types, Register, EpollCtl
<1>1. /\ events' = [events EXCEPT ![f] = @ \cup {e}]
      /\ interest' = [interest EXCEPT ![f] = events[f] \cup {e}]
      /\ waiter' = [waiter EXCEPT ![f] = [waiter[f] EXCEPT ![e] = j]]
  OBVIOUS
<1>2. events' \in [Fds -> SUBSET Events] /\ interest' \in [Fds -> SUBSET Events]
  BY <1>1
<1>3. waiter' \in [Fds -> [Events -> Jobs \cup {NoJob}]]
  BY <1>1
<1>4. edge' \in [Fds -> BOOLEAN]
  OBVIOUS
<1>5. UsedInv'
  <2>1. ASSUME NEW g \in Fds, NEW d \in events'[g] PROVE <<g, d>> \in Uses
    <3>1. d \in events[g] \/ (g = f /\ d = e)
      BY <1>1
    <3> QED BY <3>1 DEF UsedInv
  <2> QED BY <2>1 DEF UsedInv
<1>6. ASSUME NEW g \in Fds
      PROVE  interest'[g] = events'[g] /\ \A d \in Events : d \in events'[g] <=> waiter'[g][d] # NoJob
  <2>1. CASE g = f
    BY <2>1, <1>1, JobsAssumption DEF ContextInSync
  <2>2. CASE g # f
    BY <2>2, <1>1 DEF ContextInSync
  <2> QED BY <2>1, <2>2
<1> QED BY <1>2, <1>3, <1>4, <1>5, <1>6 DEF ContextInSync

\* What a context is after events of it were removed, cancelled or triggered, if epoll_ctl()
\* is told what is left.
LEMMA DropContext ==
    ASSUME IOInv, NEW f \in Fds, NEW S \in SUBSET Events, EpollCtl(f, events[f] \ S),
           Dropped(f, S)
    PROVE  /\ events' \in [Fds -> SUBSET Events] /\ interest' \in [Fds -> SUBSET Events]
           /\ edge' \in [Fds -> BOOLEAN]
           /\ UsedInv' /\ ContextInSync'
<1> USE DEF IOInv, Types, EpollCtl, Dropped
<1>1. interest' = [interest EXCEPT ![f] = events[f] \ S]
  OBVIOUS
<1>2. events' \in [Fds -> SUBSET Events] /\ interest' \in [Fds -> SUBSET Events]
  BY <1>1
<1>3. edge' \in [Fds -> BOOLEAN]
  OBVIOUS
<1>4. UsedInv'
  BY DEF UsedInv
<1>5. ASSUME NEW g \in Fds
      PROVE  interest'[g] = events'[g] /\ \A d \in Events : d \in events'[g] <=> waiter'[g][d] # NoJob
  <2>1. CASE g = f
    BY <2>1, <1>1 DEF ContextInSync
  <2>2. CASE g # f
    BY <2>2, <1>1 DEF ContextInSync
  <2> QED BY <2>1, <2>2
<1> QED BY <1>2, <1>3, <1>4, <1>5 DEF ContextInSync

-----------------------------------------------------------------------------
(* IOInv is inductive.                                                      *)

LEMMA InitIOInv == Init => IOInv
<1> SUFFICES ASSUME Init PROVE IOInv
  OBVIOUS
<1>1. ready \in [Fds -> SUBSET Events]
  BY DEF Init, Events
<1>2. queue \in Seq(Jobs)
  BY DEF Init
<1>3. waiter \in [Fds -> [Events -> Jobs \cup {NoJob}]]
  BY DEF Init
<1>4. /\ pc \in [Threads -> IdleSteps \cup {"scan", "run", "enter", "exited", "abort"}]
      /\ cur \in [Threads -> Jobs \cup {NoJob}] /\ ended \in [Threads -> BOOLEAN]
      /\ batch \in [Threads -> SUBSET Jobs]
      /\ report \in [Threads -> SUBSET [fd : Fds, signals : SUBSET {READ, WRITE, ERR}]]
      /\ gotPipe \in [Threads -> BOOLEAN]
  BY DEF Init
<1>5. /\ events \in [Fds -> SUBSET Events] /\ interest \in [Fds -> SUBSET Events]
      /\ edge \in [Fds -> BOOLEAN] /\ broken \in [Fds -> BOOLEAN]
  BY DEF Init
<1>6. /\ stop \in BOOLEAN /\ pending \in Int /\ due \subseteq timers /\ timers \subseteq Jobs
      /\ pipe \in {"empty", "new", "seen"}
  <2>1. stop \in BOOLEAN
    BY DEF Init
  <2>2. pending \in Int /\ due \subseteq timers /\ timers \subseteq Jobs
    BY DEF Init
  <2>3. pipe \in {"empty", "new", "seen"}
    BY DEF Init
  <2> QED BY <2>1, <2>2, <2>3
<1>7. UsedInv /\ RunInv /\ ContextInSync
  BY DEF Init, UsedInv, RunInv, ContextInSync
<1> QED BY <1>1, <1>2, <1>3, <1>4, <1>5, <1>6, <1>7 DEF IOInv, Types

\* One step of a job.
LEMMA JobNext ==
    ASSUME IOInv, NEW h \in Threads, JobEnds(h) \/ JobStep(h)
    PROVE  IOInv'
<1> USE UsesAssumption DEF IOInv, Types, RunInv, Goto
<1>1. ASSUME NEW u \in Uses PROVE u[1] \in Fds /\ u[2] \in Events /\ u = <<u[1], u[2]>>
  OBVIOUS
<1>2. ASSUME NEW f \in Fds, NEW e \in Events, AddEvent(h, f, e) PROVE IOInv'
  <2>1. cur[h] \in Jobs /\ Register(f, e, cur[h])
    BY <1>2 DEF AddEvent
  <2> QED BY <1>2, <2>1, RegisterContext
      DEF AddEvent, Leave, timerVars, reportVars, worldVars
<1>3. ASSUME NEW f \in Fds, NEW e \in Events, NEW j \in Jobs, AddCallback(h, f, e, j) PROVE IOInv'
  <2>1. Register(f, e, j)
    BY <1>3 DEF AddCallback
  <2> QED BY <1>3, <2>1, RegisterContext
      DEF AddCallback, threadVars, timerVars, reportVars, worldVars
<1>4. ASSUME NEW f \in Fds, NEW e \in Events, RemoveEvent(h, f, e) PROVE IOInv'
  <2>1. /\ EpollCtl(f, events[f] \ {e}) /\ events' = [events EXCEPT ![f] = @ \ {e}]
        /\ waiter' = [waiter EXCEPT ![f] = [waiter[f] EXCEPT ![e] = NoJob]]
    BY <1>4 DEF RemoveEvent
  <2>2. Dropped(f, {e})
    BY <2>1 DEF Dropped
  <2>3. waiter' \in [Fds -> [Events -> Jobs \cup {NoJob}]]
    BY <2>1
  <2>4. /\ events' \in [Fds -> SUBSET Events] /\ interest' \in [Fds -> SUBSET Events]
        /\ edge' \in [Fds -> BOOLEAN] /\ UsedInv' /\ ContextInSync'
    <3> HIDE DEF IOInv, Types, RunInv
    <3> QED BY <2>1, <2>2, DropContext
  <2>5. /\ pending' = pending - 1
        /\ UNCHANGED <<queue, threadVars, stop, timerVars, reportVars, pipe, worldVars>>
    BY <1>4 DEF RemoveEvent
  <2>6. Types'
    BY <2>3, <2>4, <2>5 DEF threadVars, timerVars, reportVars, worldVars
  <2>7. RunInv'
    BY <2>5 DEF threadVars
  <2> QED BY <2>4, <2>6, <2>7
<1>5. ASSUME NEW f \in Fds, NEW S \in SUBSET events[f], pc[h] = "run",
             EpollCtl(f, events[f] \ S), Trigger(f, S),
             UNCHANGED <<threadVars, stop, timerVars, reportVars, worldVars>>
      PROVE  IOInv'
  <2>1. /\ Dropped(f, S)
        /\ waiter' \in [Fds -> [Events -> Jobs \cup {NoJob}]]
        /\ queue' \in Seq(Jobs) /\ pipe' \in {"empty", "new", "seen"}
        /\ pending' \in Int
    BY <1>5, TriggerContext
  <2>2. S \in SUBSET Events
    OBVIOUS
  <2>3. /\ events' \in [Fds -> SUBSET Events] /\ interest' \in [Fds -> SUBSET Events]
        /\ edge' \in [Fds -> BOOLEAN] /\ UsedInv' /\ ContextInSync'
    <3> HIDE DEF IOInv, Types, RunInv
    <3> QED BY <1>5, <2>1, <2>2, DropContext
  <2>4. Types'
    BY <1>5, <2>1, <2>3 DEF threadVars, timerVars, reportVars, worldVars
  <2>5. RunInv'
    BY <1>5 DEF threadVars
  <2> QED BY <2>3, <2>4, <2>5
<1>6. ASSUME NEW f \in Fds, NEW e \in Events, CancelEvent(h, f, e) PROVE IOInv'
  <2>1. {e} \in SUBSET events[f]
    BY <1>6 DEF CancelEvent
  <2> QED BY <1>5, <1>6, <2>1 DEF CancelEvent
<1>7. ASSUME NEW f \in Fds, CancelAll(h, f) PROVE IOInv'
  <2>1. EpollCtl(f, events[f] \ events[f])
    BY <1>7 DEF CancelAll, EpollCtl
  <2> QED BY <1>5, <1>7, <2>1 DEF CancelAll
<1>8. ASSUME Sleep(h) PROVE IOInv'
  BY <1>8 DEF Sleep, Leave, Tickle, UsedInv, ContextInSync, ctxVars, reportVars, epollVars,
      worldVars
<1>9. ASSUME NEW f \in Fds, NEW e \in Events, Consume(h, f, e) PROVE IOInv'
  BY <1>9 DEF Consume, UsedInv, ContextInSync, threadVars, ctxVars, timerVars, reportVars,
      epollVars
<1>10. ASSUME Finish(h) PROVE IOInv'
  BY <1>10 DEF Finish, Leave, UsedInv, ContextInSync, ctxVars, timerVars, reportVars, epollVars,
      worldVars
<1> QED BY <1>1, <1>2, <1>3, <1>4, <1>6, <1>7, <1>8, <1>9, <1>10 DEF JobEnds, JobStep

\* One step of run() or idle().
LEMMA ThreadNext ==
    ASSUME IOInv, NEW h \in Threads, ThreadStep(h)
    PROVE  IOInv'
<1> USE DEF IOInv, Types, UsedInv, RunInv, Goto
<1>1. ASSUME TakeTask(h) PROVE IOInv'
  <2>1. Head(queue) \in Jobs /\ Tail(queue) \in Seq(Jobs)
    BY <1>1 DEF TakeTask
  <2> QED BY <1>1, <2>1 DEF TakeTask, Tickle, ContextInSync, ctxVars, timerVars, reportVars,
            epollVars, worldVars
<1>2. ASSUME FindNothing(h) PROVE IOInv'
  BY <1>2 DEF FindNothing, ContextInSync, ctxVars, timerVars, reportVars, epollVars, worldVars
<1>3. ASSUME EnterIdle(h) \/ AskTimers(h) \/ AskEvents(h) \/ AskTasks(h) \/ YieldIdle(h)
      PROVE  IOInv'
  <2>1. PICK l \in IdleSteps \cup {"scan"} :
            /\ pc' = [pc EXCEPT ![h] = l] /\ ended' \in [Threads -> BOOLEAN]
            /\ UNCHANGED <<queue, cur, stop, ctxVars, timerVars, reportVars, pipe, epollVars,
                            worldVars>>
    <3>1. CASE EnterIdle(h) \/ AskTimers(h) \/ AskEvents(h) \/ YieldIdle(h)
      BY <3>1 DEF EnterIdle, AskTimers, AskEvents, YieldIdle, Move, IdleSteps
    <3>2. CASE AskTasks(h)
      <4> DEFINE stopping == stop /\ queue = <<>> /\ ActiveThreads = {}
      <4>1. Move(h, "askTasks", IF stopping THEN "scan" ELSE "sleep")
            /\ ended' = [ended EXCEPT ![h] = stopping]
        BY <3>2 DEF AskTasks
      <4> HIDE DEF stopping
      <4>2. CASE stopping
        BY <4>1, <4>2 DEF Move
      <4>3. CASE ~stopping
        <5>1. Move(h, "askTasks", "sleep") /\ ended' = [ended EXCEPT ![h] = FALSE]
          BY <3>2, <4>3 DEF AskTasks, stopping
        <5> QED BY <5>1 DEF Move, IdleSteps
      <4> QED BY <4>2, <4>3
    <3> QED BY <1>3, <3>1, <3>2
  <2>2. Types'
    BY <2>1 DEF ctxVars, timerVars, reportVars, epollVars, worldVars
  <2>3. RunInv'
    BY <2>1 DEF IdleSteps
  <2>4. UsedInv' /\ ContextInSync'
    BY <2>1 DEF ContextInSync, ctxVars, epollVars
  <2> QED BY <2>2, <2>3, <2>4
<1>4. ASSUME EpollWait(h) PROVE IOInv'
  <2>1. \A f \in Fds : Signals(f) \in SUBSET {READ, WRITE, ERR}
    BY DEF Signals, Events
  <2>2. {[fd |-> f, signals |-> Signals(f)] : f \in Deliverable}
            \in SUBSET [fd : Fds, signals : SUBSET {READ, WRITE, ERR}]
    BY <2>1 DEF Deliverable
  <2>3. report' \in [Threads -> SUBSET [fd : Fds, signals : SUBSET {READ, WRITE, ERR}]]
    BY <1>4, <2>2 DEF EpollWait
  <2> QED BY <1>4, <2>3 DEF EpollWait, IdleSteps, ContextInSync, ctxVars, timerVars, worldVars
<1>5. ASSUME Expire(h) PROVE IOInv'
  BY <1>5 DEF Expire, IdleSteps, ContextInSync, ctxVars, reportVars, epollVars, worldVars
<1>6. ASSUME ScheduleBatch(h) PROVE IOInv'
  <2>1. PICK s \in SetToSeqs(batch[h]) : Schedule(s)
    BY <1>6 DEF ScheduleBatch
  <2>2. s \in Seq(Jobs)
    <3>1. IsFiniteSet(batch[h])
      BY JobsAssumption, FS_Subset
    <3>2. Cardinality(batch[h]) \in Nat
      BY <3>1, FS_CardinalityType
    <3> QED BY <3>2 DEF SetToSeqs
  <2>3. queue' \in Seq(Jobs) /\ pipe' \in {"empty", "new", "seen"}
    BY <2>1, <2>2, ScheduleType
  <2> QED BY <1>6, <2>3 DEF ScheduleBatch, IdleSteps, ContextInSync, ctxVars, reportVars,
            epollVars, worldVars
<1>7. ASSUME NEW r \in report[h], ProcessEvent(h, r) PROVE IOInv'
  <2> DEFINE f == r.fd
             real == IF ERR \in r.signals THEN Events ELSE r.signals
  <2>1. f \in Fds
    OBVIOUS
  <2>2. report' \in [Threads -> SUBSET [fd : Fds, signals : SUBSET {READ, WRITE, ERR}]]
    BY <1>7 DEF ProcessEvent
  <2>3. CASE UNCHANGED <<queue, ctxVars, pipe, epollVars>>
    BY <1>7, <2>2, <2>3 DEF ProcessEvent, ContextInSync, ctxVars, timerVars, epollVars, worldVars
  <2>4. CASE real \in SUBSET events[f] /\ EpollCtl(f, Left(f, real)) /\ Trigger(f, real)
             /\ UNCHANGED pc
    <3> HIDE DEF f, real
    <3>1. /\ Dropped(f, real)
          /\ waiter' \in [Fds -> [Events -> Jobs \cup {NoJob}]]
          /\ queue' \in Seq(Jobs) /\ pipe' \in {"empty", "new", "seen"}
          /\ pending' \in Int
      BY <2>1, <2>4, TriggerContext
    <3>2. UNCHANGED <<cur, ended, stop, timerVars, gotPipe, worldVars>>
      BY <1>7 DEF ProcessEvent
    <3>3. /\ events' \in [Fds -> SUBSET Events] /\ interest' \in [Fds -> SUBSET Events]
          /\ edge' \in [Fds -> BOOLEAN]
          /\ UsedInv' /\ ContextInSync'
      <4>1. real \in SUBSET Events /\ EpollCtl(f, events[f] \ real)
        BY <2>1, <2>4 DEF Left
      <4> HIDE DEF IOInv, Types, UsedInv, RunInv
      <4> QED BY <2>1, <3>1, <4>1, DropContext
    <3>4. Types'
      BY <2>2, <2>4, <3>1, <3>2, <3>3 DEF timerVars, worldVars
    <3>5. RunInv'
      BY <2>4, <3>2
    <3> QED BY <3>3, <3>4, <3>5
  <2> QED BY <1>7, <2>3, <2>4 DEF ProcessEvent
<1>8. ASSUME DrainPipe(h) PROVE IOInv'
  BY <1>8 DEF DrainPipe, ContextInSync, threadVars, ctxVars, timerVars, epollVars, worldVars
<1> QED BY <1>1, <1>2, <1>3, <1>4, <1>5, <1>6, <1>7, <1>8 DEF ThreadStep

LEMMA NextIOInv == IOInv /\ [Next]_vars => IOInv'
<1> SUFFICES ASSUME IOInv, [Next]_vars PROVE IOInv'
  OBVIOUS
<1> USE DEF IOInv, Types, UsedInv, RunInv
<1>1. ASSUME NEW j \in Jobs, Submit(j) PROVE IOInv'
  <2>1. queue' \in Seq(Jobs) /\ pipe' \in {"empty", "new", "seen"}
    <3>1. <<j>> \in Seq(Jobs) /\ Schedule(<<j>>)
      BY <1>1 DEF Submit
    <3> QED BY <3>1, ScheduleType
  <2> QED BY <1>1, <2>1 DEF Submit, ContextInSync, threadVars, ctxVars, timerVars, reportVars,
            epollVars, worldVars
<1>2. ASSUME NEW j \in Jobs, ComeDue(j) PROVE IOInv'
  BY <1>2 DEF ComeDue, ContextInSync, threadVars, ctxVars, reportVars, epollVars, worldVars
<1>3. ASSUME NEW u \in Uses, BecomeReady(u[1], u[2]) PROVE IOInv'
  BY <1>3, UsesAssumption DEF BecomeReady, ContextInSync, threadVars, ctxVars, timerVars, reportVars
<1>4. ASSUME NEW f \in Fds, Break(f) PROVE IOInv'
  BY <1>4 DEF Break, ContextInSync, threadVars, ctxVars, timerVars, reportVars
<1>5. ASSUME StopCall PROVE IOInv'
  BY <1>5 DEF StopCall, Tickle, ContextInSync, threadVars, ctxVars, timerVars, reportVars,
      epollVars, worldVars
<1>6. CASE UNCHANGED vars
  BY <1>6 DEF vars, ContextInSync, threadVars, ctxVars, timerVars, reportVars, epollVars, worldVars
<1> QED BY <1>1, <1>2, <1>3, <1>4, <1>5, <1>6, ThreadNext, JobNext DEF Next

THEOREM IOInductive == Spec => []IOInv
BY InitIOInv, NextIOInv, PTL DEF Spec

\* For any threads, jobs and descriptors, a context, its waiters and the kernel's interest
\* agree: no awaited event is unwatched, and the assertion of addEvent() never fails.
THEOREM InSync == Spec => []ContextInSync
BY IOInductive, PTL DEF IOInv
-----------------------------------------------------------------------------
(* m_pendingEventCount.                                                     *)

LEMMA RegisteredFinite == IsFiniteSet(Registered)
BY UsesAssumption, FS_Subset DEF Registered

LEMMA CountSame ==
    ASSUME PendingExact, UNCHANGED <<events, pending>>
    PROVE  PendingExact'
BY DEF PendingExact, Registered

\* addEvent() adds one wait that was not there.
LEMMA CountRegister ==
    ASSUME IOInv, PendingExact, NEW f \in Fds, NEW e \in Events, NEW j \in Jobs, Register(f, e, j)
    PROVE  PendingExact'
<1>1. events \in [Fds -> SUBSET Events]
  BY DEF IOInv, Types
<1>2. /\ <<f, e>> \in Uses /\ e \notin events[f] /\ pending' = pending + 1
      /\ events' = [events EXCEPT ![f] = @ \cup {e}]
  BY DEF Register
<1>3. Registered' = Registered \cup {<<f, e>>}
  <2>1. ASSUME NEW u \in Uses
        PROVE  u[2] \in events'[u[1]] <=> (u[2] \in events[u[1]] \/ u = <<f, e>>)
    <3>1. u \in Fds \X Events
      BY UsesAssumption
    <3>2. PICK g \in Fds, d \in Events : u = <<g, d>>
      BY <3>1
    <3>3. u[1] = g /\ u[2] = d /\ (u = <<f, e>> <=> (g = f /\ d = e))
      BY <3>2
    <3> QED BY <1>1, <1>2, <3>3
  <2> QED BY <1>2, <2>1 DEF Registered
<1>4. <<f, e>> \notin Registered
  BY <1>2 DEF Registered
<1>5. Cardinality(Registered') = Cardinality(Registered) + 1
  BY <1>3, <1>4, RegisteredFinite, FS_AddElement
<1> QED BY <1>2, <1>5 DEF PendingExact

\* The count goes down by the number of waits that end.
LEMMA CountDrop ==
    ASSUME IOInv, PendingExact, NEW f \in Fds, NEW S \in SUBSET events[f],
           Dropped(f, S), pending' = pending - Cardinality(S)
    PROVE  PendingExact'
<1>1. events \in [Fds -> SUBSET Events]
  BY DEF IOInv, Types
<1>2. events' = [events EXCEPT ![f] = @ \ S]
  BY DEF Dropped
<1> DEFINE T == {f} \X S
<1>3. Registered' = Registered \ T
  <2>1. ASSUME NEW u \in Uses
        PROVE  u[2] \in events'[u[1]] <=> (u[2] \in events[u[1]] /\ u \notin T)
    <3>1. u \in Fds \X Events
      BY UsesAssumption
    <3>2. PICK g \in Fds, d \in Events : u = <<g, d>>
      BY <3>1
    <3>3. u[1] = g /\ u[2] = d /\ (u \in T <=> (g = f /\ d \in S))
      BY <3>2
    <3> QED BY <1>1, <1>2, <3>3
  <2> QED BY <2>1 DEF Registered
<1>4. Registered \cap T = T
  <2>1. ASSUME NEW e \in S PROVE <<f, e>> \in Registered
    BY DEF IOInv, UsedInv, Registered
  <2> QED BY <2>1
<1>5. IsFiniteSet(S)
  BY <1>1, EventsFinite, FS_Subset
<1>6. Cardinality(T) = Cardinality(S)
  <2>1. Cardinality(S) \in Nat
    BY <1>5, FS_CardinalityType
  <2>2. IsFiniteSet({f}) /\ Cardinality({f}) = 1
    BY FS_Singleton
  <2>3. Cardinality(T) = Cardinality({f}) * Cardinality(S)
    BY <1>5, <2>2, FS_Product
  <2> QED BY <2>1, <2>2, <2>3
<1>7. Cardinality(Registered') = Cardinality(Registered) - Cardinality(S)
  <2>1. Cardinality(Registered \ T) = Cardinality(Registered) - Cardinality(Registered \cap T)
    BY RegisteredFinite, FS_Difference
  <2> QED BY <1>3, <1>4, <1>6, <2>1
<1> QED BY <1>7 DEF PendingExact

LEMMA CountNext == IOInv /\ PendingExact /\ [Next]_vars => PendingExact'
<1> SUFFICES ASSUME IOInv, PendingExact, [Next]_vars PROVE PendingExact'
  OBVIOUS
<1>1. ASSUME NEW f \in Fds, NEW S \in SUBSET events[f], Trigger(f, S) PROVE PendingExact'
  <2>1. Dropped(f, S)
    BY <1>1, TriggerContext
  <2>2. pending' = pending - Cardinality(S)
    BY <1>1 DEF Trigger
  <2> QED BY <2>1, <2>2, CountDrop
<1>2. ASSUME NEW h \in Threads, ThreadStep(h) PROVE PendingExact'
  <2>1. CASE TakeTask(h) \/ FindNothing(h) \/ EnterIdle(h) \/ AskTimers(h) \/ AskEvents(h)
             \/ AskTasks(h) \/ EpollWait(h) \/ Expire(h) \/ ScheduleBatch(h)
             \/ DrainPipe(h) \/ YieldIdle(h)
    <3>1. UNCHANGED ctxVars
      BY <2>1 DEF TakeTask, FindNothing, EnterIdle, AskTimers, AskEvents, AskTasks, EpollWait,
          Expire, ScheduleBatch, DrainPipe, YieldIdle, Move
    <3> QED BY <3>1, CountSame DEF ctxVars
  <2>2. ASSUME NEW r \in report[h], ProcessEvent(h, r) PROVE PendingExact'
    <3> DEFINE f == r.fd
               real == IF ERR \in r.signals THEN Events ELSE r.signals
    <3>1. f \in Fds
      BY DEF IOInv, Types
    <3>2. CASE UNCHANGED ctxVars
      BY <3>2, CountSame DEF ctxVars
    <3>3. CASE real \subseteq events[f] /\ Trigger(f, real)
      BY <1>1, <3>1, <3>3
    <3> QED BY <2>2, <3>2, <3>3 DEF ProcessEvent
  <2> QED BY <1>2, <2>1, <2>2 DEF ThreadStep
<1>3. ASSUME NEW h \in Threads, JobEnds(h) \/ JobStep(h) PROVE PendingExact'
  <2>1. ASSUME NEW u \in Uses PROVE u[1] \in Fds /\ u[2] \in Events
    BY UsesAssumption
  <2>2. CASE Finish(h) \/ Sleep(h)
    <3>1. UNCHANGED ctxVars
      BY <2>2 DEF Finish, Sleep
    <3> QED BY <3>1, CountSame DEF ctxVars
  <2>3. ASSUME NEW f \in Fds, NEW e \in Events, Consume(h, f, e) PROVE PendingExact'
    BY <2>3, CountSame DEF Consume, ctxVars
  <2>4. ASSUME NEW f \in Fds, NEW e \in Events, AddEvent(h, f, e) PROVE PendingExact'
    <3>1. cur[h] \in Jobs /\ Register(f, e, cur[h])
      BY <2>4 DEF AddEvent, IOInv, RunInv
    <3> QED BY <3>1, CountRegister
  <2>5. ASSUME NEW f \in Fds, NEW e \in Events, NEW j \in Jobs, AddCallback(h, f, e, j)
        PROVE  PendingExact'
    BY <2>5, CountRegister DEF AddCallback
  <2>6. ASSUME NEW f \in Fds, NEW e \in Events, RemoveEvent(h, f, e) PROVE PendingExact'
    <3>1. /\ {e} \in SUBSET events[f] /\ pending' = pending - 1
          /\ events' = [events EXCEPT ![f] = @ \ {e}]
          /\ waiter' = [waiter EXCEPT ![f] = [waiter[f] EXCEPT ![e] = NoJob]]
      BY <2>6 DEF RemoveEvent
    <3>2. waiter \in [Fds -> [Events -> Jobs \cup {NoJob}]]
      BY DEF IOInv, Types
    <3>3. Dropped(f, {e})
      BY <3>1, <3>2 DEF Dropped
    <3>4. Cardinality({e}) = 1
      BY FS_Singleton
    <3> QED BY <3>1, <3>3, <3>4, CountDrop
  <2>7. ASSUME NEW f \in Fds, NEW e \in Events, CancelEvent(h, f, e) PROVE PendingExact'
    <3>1. {e} \in SUBSET events[f] /\ Trigger(f, {e})
      BY <2>7 DEF CancelEvent
    <3> QED BY <1>1, <3>1
  <2>8. ASSUME NEW f \in Fds, CancelAll(h, f) PROVE PendingExact'
    BY <1>1, <2>8 DEF CancelAll
  <2> QED BY <1>3, <2>1, <2>2, <2>3, <2>4, <2>5, <2>6, <2>7, <2>8 DEF JobEnds, JobStep
<1>4. ASSUME NEW j \in Jobs, Submit(j) \/ ComeDue(j) PROVE PendingExact'
  <2>1. UNCHANGED ctxVars
    BY <1>4 DEF Submit, ComeDue
  <2> QED BY <2>1, CountSame DEF ctxVars
<1>5. ASSUME NEW u \in Uses, BecomeReady(u[1], u[2]) PROVE PendingExact'
  BY <1>5, CountSame DEF BecomeReady, ctxVars
<1>6. ASSUME NEW f \in Fds, Break(f) PROVE PendingExact'
  BY <1>6, CountSame DEF Break, ctxVars
<1>7. CASE StopCall \/ UNCHANGED vars
  <2>1. UNCHANGED ctxVars
    BY <1>7 DEF StopCall, vars
  <2> QED BY <2>1, CountSame DEF ctxVars
<1> QED BY <1>2, <1>3, <1>4, <1>5, <1>6, <1>7 DEF Next

\* For any threads, jobs and descriptors m_pendingEventCount is the number of events that
\* are awaited, however the waits began and ended.
THEOREM CountOfWaits == Spec => []PendingExact
<1>1. Init => PendingExact
  <2>1. ASSUME Init PROVE PendingExact
    <3>1. Registered = {} /\ pending = 0
      BY <2>1, UsesAssumption DEF Init, Registered
    <3> QED BY <3>1, FS_EmptySet DEF PendingExact
  <2> QED BY <2>1
<1>2. IOInv /\ PendingExact /\ [Next]_vars => PendingExact'
  BY CountNext
<1> QED BY <1>1, <1>2, IOInductive, PTL DEF Spec

\* In particular the unsigned m_pendingEventCount never passes below zero, and the state
\* keeps its types.
THEOREM IOTypeCorrect == Spec => []TypeOK
<1>1. IOInv /\ PendingExact => TypeOK
  <2> SUFFICES ASSUME IOInv, PendingExact PROVE TypeOK
    OBVIOUS
  <2>1. pending \in Nat
    BY RegisteredFinite, FS_CardinalityType DEF PendingExact
  <2>2. \A h \in Threads : report[h] \subseteq [fd : Fds, signals : SUBSET {READ, WRITE, ERR}]
    BY DEF IOInv, Types
  <2> QED BY <2>1, <2>2 DEF IOInv, Types, TypeOK
<1> QED BY <1>1, IOInductive, CountOfWaits, PTL
-----------------------------------------------------------------------------
(* How a wait ends.                                                         *)

\* triggerEvent() puts the waiter of every event it takes away into the queue.
LEMMA TriggerSchedules ==
    ASSUME IOInv, NEW f \in Fds, NEW S \in SUBSET events[f], Trigger(f, S), NEW e \in S
    PROVE  \E i \in 1 .. Len(queue') : queue'[i] = waiter[f][e]
<1>1. /\ queue \in Seq(Jobs)
      /\ \A d \in S : d \in Events /\ waiter[f][d] \in Jobs
  BY DEF IOInv, Types, ContextInSync
<1> DEFINE a == IF READ \in S THEN <<waiter[f][READ]>> ELSE <<>>
           b == IF WRITE \in S THEN <<waiter[f][WRITE]>> ELSE <<>>
<1>2. queue' = queue \o (a \o b)
  BY DEF Trigger, Schedule
<1>3. a \in Seq(Jobs) /\ b \in Seq(Jobs)
  BY <1>1
<1> HIDE DEF a, b
<1>4. /\ Len(queue) \in Nat /\ Len(a) \in Nat /\ Len(b) \in Nat
      /\ Len(queue') = Len(queue) + Len(a) + Len(b)
      /\ \A i \in 1 .. Len(a) : queue'[Len(queue) + i] = a[i]
      /\ \A i \in 1 .. Len(b) : queue'[Len(queue) + Len(a) + i] = b[i]
  <2>1. /\ a \o b \in Seq(Jobs) /\ Len(a \o b) = Len(a) + Len(b)
        /\ \A i \in 1 .. Len(a) + Len(b) : (a \o b)[i] = IF i <= Len(a) THEN a[i] ELSE b[i - Len(a)]
    BY <1>3, ConcatProperties
  <2> DEFINE ab == a \o b
  <2> HIDE DEF ab
  <2>2. /\ Len(queue') = Len(queue) + Len(ab)
        /\ \A i \in 1 .. Len(ab) : queue'[Len(queue) + i] = ab[i]
    <3>1. ab \in Seq(Jobs)
      BY <2>1 DEF ab
    <3> QED BY <1>1, <1>2, <3>1, ConcatProperties DEF ab
  <2>3. Len(queue) \in Nat /\ Len(a) \in Nat /\ Len(b) \in Nat
    BY <1>1, <1>3
  <2>4. ASSUME NEW i \in 1 .. Len(a) PROVE queue'[Len(queue) + i] = a[i]
    <3>1. i \in 1 .. Len(a) + Len(b) /\ i <= Len(a)
      BY <2>3
    <3> QED BY <2>1, <2>2, <3>1 DEF ab
  <2>5. ASSUME NEW i \in 1 .. Len(b) PROVE queue'[Len(queue) + Len(a) + i] = b[i]
    <3>1. /\ Len(a) + i \in 1 .. Len(a) + Len(b) /\ ~(Len(a) + i <= Len(a))
          /\ (Len(a) + i) - Len(a) = i /\ Len(queue) + (Len(a) + i) = Len(queue) + Len(a) + i
      BY <2>3
    <3>2. ab[Len(a) + i] = b[i]
      BY <2>1, <3>1 DEF ab
    <3>3. queue'[Len(queue) + (Len(a) + i)] = ab[Len(a) + i]
      BY <2>1, <2>2, <3>1 DEF ab
    <3> QED BY <3>1, <3>2, <3>3
  <2>6. Len(queue') = Len(queue) + Len(a) + Len(b)
    BY <2>1, <2>2, <2>3 DEF ab
  <2> QED BY <2>3, <2>4, <2>5, <2>6
<1>5. CASE e = READ
  <2>1. Len(a) = 1 /\ a[1] = waiter[f][e]
    BY <1>5 DEF a
  <2>2. Len(queue) + 1 \in 1 .. Len(queue') /\ queue'[Len(queue) + 1] = waiter[f][e]
    BY <1>4, <2>1
  <2> QED BY <2>2
<1>6. CASE e = WRITE
  <2>1. Len(b) = 1 /\ b[1] = waiter[f][e]
    BY <1>6 DEF b
  <2>2. /\ Len(queue) + Len(a) + 1 \in 1 .. Len(queue')
        /\ queue'[Len(queue) + Len(a) + 1] = waiter[f][e]
    BY <1>4, <2>1
  <2> QED BY <2>2
<1> QED BY <1>1, <1>5, <1>6 DEF Events

\* The waiter of one event is scheduled, or removeEvent() took the event away.
EndsScheduled(f, e) ==
    e \notin events'[f] =>
        \/ \E i \in 1 .. Len(queue') : queue'[i] = waiter[f][e]
        \/ \E h \in Threads : RemoveEvent(h, f, e)

LEMMA WaitEnd ==
    ASSUME IOInv, [Next]_vars, NEW f \in Fds, NEW e \in Events, e \in events[f]
    PROVE  EndsScheduled(f, e)
<1>1. events \in [Fds -> SUBSET Events]
  BY DEF IOInv, Types
<1>2. ASSUME NEW g \in Fds, NEW S \in SUBSET events[g], Trigger(g, S) PROVE EndsScheduled(f, e)
  <2>1. events' = [events EXCEPT ![g] = @ \ S]
    BY <1>2 DEF Trigger
  <2>2. CASE f = g /\ e \in S
    BY <1>2, <2>2, TriggerSchedules DEF EndsScheduled
  <2>3. CASE ~(f = g /\ e \in S)
    BY <1>1, <2>1, <2>3 DEF EndsScheduled
  <2> QED BY <2>2, <2>3
<1>3. CASE UNCHANGED events
  BY <1>3 DEF EndsScheduled
<1>4. ASSUME NEW g \in Fds, NEW d \in Events, NEW j, Register(g, d, j) PROVE EndsScheduled(f, e)
  BY <1>1, <1>4 DEF Register, EndsScheduled
<1>5. ASSUME NEW h \in Threads, ThreadStep(h) PROVE EndsScheduled(f, e)
  <2>1. CASE TakeTask(h) \/ FindNothing(h) \/ EnterIdle(h) \/ AskTimers(h) \/ AskEvents(h)
             \/ AskTasks(h) \/ EpollWait(h) \/ Expire(h) \/ ScheduleBatch(h)
             \/ DrainPipe(h) \/ YieldIdle(h)
    <3>1. UNCHANGED ctxVars
      BY <2>1 DEF TakeTask, FindNothing, EnterIdle, AskTimers, AskEvents, AskTasks, EpollWait,
          Expire, ScheduleBatch, DrainPipe, YieldIdle, Move
    <3> QED BY <1>3, <3>1 DEF ctxVars
  <2>2. ASSUME NEW r \in report[h], ProcessEvent(h, r) PROVE EndsScheduled(f, e)
    <3> DEFINE g == r.fd
               real == IF ERR \in r.signals THEN Events ELSE r.signals
    <3>1. g \in Fds
      BY DEF IOInv, Types
    <3>2. CASE UNCHANGED ctxVars
      BY <1>3, <3>2 DEF ctxVars
    <3>3. CASE real \subseteq events[g] /\ Trigger(g, real)
      BY <1>2, <3>1, <3>3
    <3> QED BY <2>2, <3>2, <3>3 DEF ProcessEvent
  <2> QED BY <1>5, <2>1, <2>2 DEF ThreadStep
<1>6. ASSUME NEW h \in Threads, JobEnds(h) \/ JobStep(h) PROVE EndsScheduled(f, e)
  <2>1. ASSUME NEW u \in Uses PROVE u[1] \in Fds /\ u[2] \in Events
    BY UsesAssumption
  <2>2. CASE Finish(h) \/ Sleep(h)
    <3>1. UNCHANGED ctxVars
      BY <2>2 DEF Finish, Sleep
    <3> QED BY <1>3, <3>1 DEF ctxVars
  <2>3. ASSUME NEW g \in Fds, NEW d \in Events, Consume(h, g, d) PROVE EndsScheduled(f, e)
    BY <1>3, <2>3 DEF Consume, ctxVars
  <2>4. ASSUME NEW g \in Fds, NEW d \in Events, AddEvent(h, g, d) PROVE EndsScheduled(f, e)
    BY <1>4, <2>4 DEF AddEvent
  <2>5. ASSUME NEW g \in Fds, NEW d \in Events, NEW j \in Jobs, AddCallback(h, g, d, j)
        PROVE  EndsScheduled(f, e)
    BY <1>4, <2>5 DEF AddCallback
  <2>6. ASSUME NEW g \in Fds, NEW d \in Events, RemoveEvent(h, g, d) PROVE EndsScheduled(f, e)
    <3>1. CASE f = g /\ e = d
      BY <2>6, <3>1 DEF EndsScheduled
    <3>2. CASE ~(f = g /\ e = d)
      <4>1. events' = [events EXCEPT ![g] = @ \ {d}]
        BY <2>6 DEF RemoveEvent
      <4> QED BY <1>1, <3>2, <4>1 DEF EndsScheduled
    <3> QED BY <3>1, <3>2
  <2>7. ASSUME NEW g \in Fds, NEW d \in Events, CancelEvent(h, g, d) PROVE EndsScheduled(f, e)
    <3>1. {d} \in SUBSET events[g] /\ Trigger(g, {d})
      BY <2>7 DEF CancelEvent
    <3> QED BY <1>2, <3>1
  <2>8. ASSUME NEW g \in Fds, CancelAll(h, g) PROVE EndsScheduled(f, e)
    BY <1>2, <2>8 DEF CancelAll
  <2> QED BY <1>6, <2>1, <2>2, <2>3, <2>4, <2>5, <2>6, <2>7, <2>8 DEF JobEnds, JobStep
<1>7. ASSUME NEW j \in Jobs, Submit(j) \/ ComeDue(j) PROVE EndsScheduled(f, e)
  <2>1. UNCHANGED ctxVars
    BY <1>7 DEF Submit, ComeDue
  <2> QED BY <1>3, <2>1 DEF ctxVars
<1>8. ASSUME NEW u \in Uses, BecomeReady(u[1], u[2]) PROVE EndsScheduled(f, e)
  BY <1>3, <1>8 DEF BecomeReady, ctxVars
<1>9. ASSUME NEW g \in Fds, Break(g) PROVE EndsScheduled(f, e)
  BY <1>3, <1>9 DEF Break, ctxVars
<1>10. CASE StopCall \/ UNCHANGED vars
  <2>1. UNCHANGED ctxVars
    BY <1>10 DEF StopCall, vars
  <2> QED BY <1>3, <2>1 DEF ctxVars
<1> QED BY <1>5, <1>6, <1>7, <1>8, <1>9, <1>10 DEF Next

\* For any threads, jobs and descriptors, whoever waits for an event is in the queue when
\* the wait is over, unless removeEvent() ended it.
THEOREM Woken == Spec => WaitEndsScheduled
<1>1. ASSUME IOInv, [Next]_vars, NEW u \in Uses, u[2] \in events[u[1]]
      PROVE  EndsScheduled(u[1], u[2])
  <2>1. u[1] \in Fds /\ u[2] \in Events
    BY UsesAssumption
  <2> QED BY <1>1, <2>1, WaitEnd
<1>2. IOInv /\ [Next]_vars =>
        [\A u \in Uses :
            u[2] \in events[u[1]] \ events'[u[1]] =>
                \/ \E i \in 1 .. Len(queue') : queue'[i] = waiter[u[1]][u[2]]
                \/ \E h \in Threads : RemoveEvent(h, u[1], u[2])]_vars
  BY <1>1 DEF EndsScheduled
<1> QED BY <1>2, IOInductive, PTL DEF Spec, WaitEndsScheduled

-----------------------------------------------------------------------------
(* The places of a job.                                                     *)

In(s, j) == \E i \in 1 .. Len(s) : s[i] = j
NoTwice(s) == \A i, k \in 1 .. Len(s) : s[i] = s[k] => i = k
On(j) == \E h \in Threads : cur[h] = j
Batched(j) == \E h \in Threads : j \in batch[h]
Awaits(j) == \E f \in Fds, e \in Events : waiter[f][e] = j

\* Nothing holds a job twice ...
Apart ==
    /\ NoTwice(queue)
    /\ \A g, h \in Threads : cur[g] # NoJob /\ cur[g] = cur[h] => g = h
    /\ \A g, h \in Threads, j \in Jobs : j \in batch[g] /\ j \in batch[h] => g = h
    /\ \A f, g \in Fds, d, e \in Events :
          waiter[f][d] # NoJob /\ waiter[f][d] = waiter[g][e] => f = g /\ d = e

\* ... and no two places hold the same.
Alone(j) ==
    /\ In(queue, j) => ~On(j) /\ ~Batched(j) /\ ~Awaits(j) /\ j \notin timers
    /\ On(j) => ~Batched(j) /\ ~Awaits(j) /\ j \notin timers
    /\ Batched(j) => ~Awaits(j) /\ j \notin timers
    /\ Awaits(j) => j \notin timers

PlaceInv == Apart /\ \A j \in Jobs : Alone(j)

\* What is appended is in the queue once if it was not there and does not repeat.
LEMMA Appended ==
    ASSUME NEW q \in Seq(Jobs), NEW s \in Seq(Jobs), NoTwice(q), NoTwice(s),
           \A j \in Jobs : ~(In(q, j) /\ In(s, j))
    PROVE  NoTwice(q \o s) /\ \A j \in Jobs : In(q \o s, j) <=> In(q, j) \/ In(s, j)
<1> DEFINE r == q \o s
<1>1. /\ Len(q) \in Nat /\ Len(s) \in Nat /\ Len(r) = Len(q) + Len(s)
      /\ \A i \in 1 .. Len(q) + Len(s) : r[i] = IF i <= Len(q) THEN q[i] ELSE s[i - Len(q)]
  BY ConcatProperties
<1>2. (\A i \in 1 .. Len(q) : q[i] \in Jobs) /\ (\A i \in 1 .. Len(s) : s[i] \in Jobs)
  BY ElementOfSeq
<1> HIDE DEF r
<1>3. ASSUME NEW i \in 1 .. Len(r)
      PROVE  \/ i \in 1 .. Len(q) /\ r[i] = q[i]
             \/ i - Len(q) \in 1 .. Len(s) /\ r[i] = s[i - Len(q)] /\ i > Len(q)
  BY <1>1
<1>4. (\A i \in 1 .. Len(q) : i \in 1 .. Len(r) /\ r[i] = q[i])
      /\ (\A i \in 1 .. Len(s) : Len(q) + i \in 1 .. Len(r) /\ r[Len(q) + i] = s[i])
  <2>1. ASSUME NEW i \in 1 .. Len(q) PROVE i \in 1 .. Len(r) /\ r[i] = q[i]
    BY <1>1
  <2>2. ASSUME NEW i \in 1 .. Len(s) PROVE Len(q) + i \in 1 .. Len(r) /\ r[Len(q) + i] = s[i]
    <3>1. Len(q) + i \in 1 .. Len(q) + Len(s) /\ ~(Len(q) + i <= Len(q)) /\ (Len(q) + i) - Len(q) = i
      BY <1>1
    <3> QED BY <1>1, <3>1
  <2> QED BY <2>1, <2>2
<1>5. ASSUME NEW j \in Jobs PROVE In(r, j) <=> In(q, j) \/ In(s, j)
  <2>1. In(r, j) => In(q, j) \/ In(s, j)
    BY <1>3 DEF In
  <2>2. In(q, j) => In(r, j)
    BY <1>4 DEF In
  <2>3. ASSUME In(s, j) PROVE In(r, j)
    <3>1. PICK i \in 1 .. Len(s) : s[i] = j
      BY <2>3 DEF In
    <3>2. Len(q) + i \in 1 .. Len(r) /\ r[Len(q) + i] = j
      BY <1>4, <3>1
    <3> QED BY <3>2 DEF In
  <2> QED BY <2>1, <2>2, <2>3
<1>6. ASSUME NEW i \in 1 .. Len(r), NEW k \in 1 .. Len(r), r[i] = r[k] PROVE i = k
  <2>1. CASE i \in 1 .. Len(q) /\ k \in 1 .. Len(q) /\ r[i] = q[i] /\ r[k] = q[k]
    BY <1>6, <2>1 DEF NoTwice
  <2>2. CASE /\ i - Len(q) \in 1 .. Len(s) /\ r[i] = s[i - Len(q)]
             /\ k - Len(q) \in 1 .. Len(s) /\ r[k] = s[k - Len(q)]
    <3>1. i - Len(q) = k - Len(q)
      BY <1>6, <2>2 DEF NoTwice
    <3> QED BY <1>1, <3>1
  <2>3. ASSUME NEW a \in 1 .. Len(q), NEW b \in 1 .. Len(s), q[a] = s[b] PROVE FALSE
    <3>1. In(q, q[a]) /\ In(s, q[a]) /\ q[a] \in Jobs
      BY <1>2, <2>3 DEF In
    <3> QED BY <3>1
  <2>4. CASE i \in 1 .. Len(q) /\ r[i] = q[i] /\ k - Len(q) \in 1 .. Len(s) /\ r[k] = s[k - Len(q)]
    BY <1>6, <2>3, <2>4
  <2>5. CASE k \in 1 .. Len(q) /\ r[k] = q[k] /\ i - Len(q) \in 1 .. Len(s) /\ r[i] = s[i - Len(q)]
    <3>1. q[k] = s[i - Len(q)]
      BY <1>6, <2>5
    <3> QED BY <2>3, <2>5, <3>1
  <2> QED BY <1>3, <2>1, <2>2, <2>4, <2>5
<1> QED BY <1>5, <1>6 DEF NoTwice, r

\* The task a thread takes is no longer in the queue.
LEMMA Taken ==
    ASSUME NEW q \in Seq(Jobs), q # <<>>, NoTwice(q)
    PROVE  /\ NoTwice(Tail(q)) /\ Head(q) \in Jobs /\ In(q, Head(q))
           /\ \A j \in Jobs : In(Tail(q), j) => In(q, j) /\ j # Head(q)
<1>1. /\ Len(q) \in Nat \ {0} /\ Tail(q) \in Seq(Jobs) /\ Len(Tail(q)) = Len(q) - 1
      /\ \A i \in 1 .. Len(Tail(q)) : Tail(q)[i] = q[i + 1]
  BY HeadTailProperties, EmptySeq
<1>2. Head(q) = q[1] /\ 1 \in 1 .. Len(q) /\ q[1] \in Jobs
  BY <1>1, ElementOfSeq
<1>3. ASSUME NEW i \in 1 .. Len(Tail(q)) PROVE i + 1 \in 1 .. Len(q) /\ i + 1 # 1 /\ i \in Nat
  BY <1>1
<1>4. NoTwice(Tail(q))
  <2>1. ASSUME NEW i \in 1 .. Len(Tail(q)), NEW k \in 1 .. Len(Tail(q)), Tail(q)[i] = Tail(q)[k]
        PROVE  i = k
    <3>1. i + 1 = k + 1
      BY <1>1, <1>3, <2>1 DEF NoTwice
    <3> QED BY <1>3, <3>1
  <2> QED BY <2>1 DEF NoTwice
<1>5. ASSUME NEW j \in Jobs, In(Tail(q), j) PROVE In(q, j) /\ j # Head(q)
  <2>1. PICK i \in 1 .. Len(Tail(q)) : Tail(q)[i] = j
    BY <1>5 DEF In
  <2>2. q[i + 1] = j
    BY <1>1, <2>1
  <2> QED BY <1>2, <1>3, <2>2 DEF In, NoTwice
<1> QED BY <1>2, <1>4, <1>5 DEF In

\* Whoever waits in a context waits for an event in use.
LEMMA WaitingUses ==
    ASSUME IOInv, NEW j \in Jobs
    PROVE  /\ Awaits(j) <=> Waiting(j) # {}
           /\ \A f \in Fds, e \in Events : waiter[f][e] = j => <<f, e>> \in Waiting(j)
<1>1. ASSUME NEW f \in Fds, NEW e \in Events, waiter[f][e] = j PROVE <<f, e>> \in Waiting(j)
  <2>1. e \in events[f]
    BY <1>1, JobsAssumption DEF IOInv, ContextInSync
  <2> QED BY <1>1, <2>1 DEF IOInv, UsedInv, Waiting
<1>2. ASSUME NEW u \in Waiting(j) PROVE Awaits(j)
  <2>1. u[1] \in Fds /\ u[2] \in Events /\ waiter[u[1]][u[2]] = j
    BY UsesAssumption DEF Waiting
  <2> QED BY <2>1 DEF Awaits
<1> QED BY <1>1, <1>2 DEF Awaits

\* A job that is in no place.
LEMMA FreshAlone ==
    ASSUME IOInv, NEW j \in Jobs, Fresh(j)
    PROVE  ~In(queue, j) /\ ~On(j) /\ ~Batched(j) /\ ~Awaits(j) /\ j \notin timers
BY WaitingUses DEF Fresh, In, Queued, On, Batched

\* Jobs are put into the queue that were in another place or in none.
LEMMA Scheduled ==
    ASSUME IOInv, PlaceInv, NEW s \in Seq(Jobs), Schedule(s), NoTwice(s),
           \A j \in Jobs : In(s, j) => ~In(queue, j)
    PROVE  NoTwice(queue') /\ \A j \in Jobs : In(queue, j)' <=> In(queue, j) \/ In(s, j)
<1>1. queue \in Seq(Jobs) /\ queue' = queue \o s /\ NoTwice(queue)
  BY DEF IOInv, Types, Schedule, PlaceInv, Apart
<1>2. NoTwice(queue \o s) /\ \A j \in Jobs : In(queue \o s, j) <=> In(queue, j) \/ In(s, j)
  BY <1>1, Appended
<1> QED BY <1>1, <1>2 DEF In

\* No place gets a job.
LEMMA PlacesKept ==
    ASSUME PlaceInv, UNCHANGED <<queue, cur, batch, waiter, timers>>
    PROVE  PlaceInv'
BY DEF PlaceInv, Apart, Alone, In, NoTwice, On, Batched, Awaits

\* The waiters of the events of S.
WaitersOf(f, S) == {waiter[f][e] : e \in S}

\* triggerEvent() schedules the waiters of S, each once.
LEMMA TriggerList ==
    ASSUME IOInv, PlaceInv, NEW f \in Fds, NEW S \in SUBSET events[f], Trigger(f, S)
    PROVE  \E s \in Seq(Jobs) :
              Schedule(s) /\ NoTwice(s) /\ \A j \in Jobs : In(s, j) <=> j \in WaitersOf(f, S)
<1> USE DEF IOInv, Types
<1>1. \A e \in S : e \in Events /\ waiter[f][e] \in Jobs /\ waiter[f][e] # NoJob
  BY JobsAssumption DEF ContextInSync
<1> DEFINE a == IF READ \in S THEN <<waiter[f][READ]>> ELSE <<>>
           b == IF WRITE \in S THEN <<waiter[f][WRITE]>> ELSE <<>>
<1>2. a \in Seq(Jobs) /\ b \in Seq(Jobs)
  BY <1>1
<1>3. NoTwice(a) /\ NoTwice(b)
  BY DEF NoTwice
<1>4. \A j \in Jobs :
          /\ In(a, j) <=> READ \in S /\ waiter[f][READ] = j
          /\ In(b, j) <=> WRITE \in S /\ waiter[f][WRITE] = j
  BY DEF In
<1>5. Schedule(a \o b) /\ a \o b \in Seq(Jobs)
  BY <1>2 DEF Trigger
<1> HIDE DEF a, b
<1>6. \A j \in Jobs : ~(In(a, j) /\ In(b, j))
  <2>1. READ \in Events /\ WRITE \in Events /\ READ # WRITE
    BY DEF Events, READ, WRITE
  <2> QED BY <1>1, <1>4, <2>1 DEF PlaceInv, Apart
<1>7. NoTwice(a \o b) /\ \A j \in Jobs : In(a \o b, j) <=> In(a, j) \/ In(b, j)
  BY <1>2, <1>3, <1>6, Appended
<1>8. \A j \in Jobs : In(a \o b, j) <=> j \in WaitersOf(f, S)
  <2>1. \A e \in S : e = READ \/ e = WRITE
    BY <1>1 DEF Events
  <2> HIDE DEF IOInv, Types
  <2>2. ASSUME NEW j \in Jobs, In(a \o b, j) PROVE j \in WaitersOf(f, S)
    <3>1. PICK e \in S : waiter[f][e] = j
      BY <1>4, <1>7, <2>2
    <3> QED BY <3>1 DEF WaitersOf
  <2>3. ASSUME NEW j \in Jobs, j \in WaitersOf(f, S) PROVE In(a \o b, j)
    <3>1. PICK e \in S : waiter[f][e] = j
      BY <2>3 DEF WaitersOf
    <3> QED BY <1>4, <1>7, <2>1, <3>1
  <2> QED BY <2>2, <2>3
<1> QED BY <1>5, <1>7, <1>8

\* What waited for events of S waits for nothing else and is nowhere else.
LEMMA WaitersAlone ==
    ASSUME IOInv, PlaceInv, NEW f \in Fds, NEW S \in SUBSET events[f]
    PROVE  /\ \A j \in WaitersOf(f, S) :
                  /\ j \in Jobs /\ Awaits(j)
                  /\ ~In(queue, j) /\ ~On(j) /\ ~Batched(j) /\ j \notin timers
           /\ \A g \in Fds, e \in Events :
                  waiter[g][e] \in WaitersOf(f, S) <=> g = f /\ e \in S
<1>1. \A e \in S : e \in Events /\ waiter[f][e] \in Jobs /\ waiter[f][e] # NoJob
  BY JobsAssumption DEF IOInv, Types, ContextInSync
<1>2. ASSUME NEW e \in S
      PROVE  LET j == waiter[f][e] IN
                /\ j \in Jobs /\ Awaits(j)
                /\ ~In(queue, j) /\ ~On(j) /\ ~Batched(j) /\ j \notin timers
  <2>1. PICK j \in Jobs : j = waiter[f][e]
    BY <1>1
  <2>2. Awaits(j)
    BY <1>1, <2>1 DEF Awaits
  <2> QED BY <2>1, <2>2 DEF PlaceInv, Alone
<1>3. ASSUME NEW g \in Fds, NEW e \in Events, NEW d \in S, waiter[g][e] = waiter[f][d]
      PROVE  g = f /\ e \in S
  BY <1>1, <1>3 DEF PlaceInv, Apart
<1> QED BY <1>2, <1>3 DEF WaitersOf

\* triggerEvent() moves the waiters of S to the queue.
LEMMA PlacesTriggered ==
    ASSUME IOInv, PlaceInv, NEW f \in Fds, NEW S \in SUBSET events[f], Trigger(f, S),
           UNCHANGED <<cur, batch, timers>>
    PROVE  PlaceInv'
<1>1. PICK s \in Seq(Jobs) :
          Schedule(s) /\ NoTwice(s) /\ \A j \in Jobs : In(s, j) <=> j \in WaitersOf(f, S)
  BY TriggerList
<1>2. /\ \A j \in WaitersOf(f, S) :
              /\ j \in Jobs /\ Awaits(j)
              /\ ~In(queue, j) /\ ~On(j) /\ ~Batched(j) /\ j \notin timers
      /\ \A g \in Fds, e \in Events : waiter[g][e] \in WaitersOf(f, S) <=> g = f /\ e \in S
  BY WaitersAlone
<1>3. NoTwice(queue') /\ \A j \in Jobs : In(queue, j)' <=> In(queue, j) \/ In(s, j)
  BY <1>1, <1>2, Scheduled
<1>4. \A g \in Fds, e \in Events :
          waiter'[g][e] = IF g = f /\ e \in S THEN NoJob ELSE waiter[g][e]
  BY TriggerContext DEF Dropped
<1>5. Apart'
  BY <1>3, <1>4 DEF PlaceInv, Apart
<1>6. ASSUME NEW j \in Jobs PROVE Alone(j)'
  <2>1. (On(j)' <=> On(j)) /\ (Batched(j)' <=> Batched(j))
    BY DEF On, Batched
  <2>2. Awaits(j)' => Awaits(j) /\ j \notin WaitersOf(f, S)
    BY <1>2, <1>4, JobsAssumption DEF Awaits
  <2> QED BY <1>1, <1>2, <1>3, <2>1, <2>2 DEF PlaceInv, Alone
<1> QED BY <1>5, <1>6 DEF PlaceInv

\* A job is registered that was on the thread or nowhere.
LEMMA PlacesRegistered ==
    ASSUME IOInv, PlaceInv, NEW f \in Fds, NEW e \in Events, NEW j \in Jobs, Register(f, e, j),
           ~In(queue, j), ~Batched(j), ~Awaits(j), j \notin timers,
           UNCHANGED <<queue, batch, timers>>,
           \A g, h \in Threads : cur'[g] # NoJob /\ cur'[g] = cur'[h] => g = h,
           \A k \in Jobs : On(k)' => On(k) /\ k # j
    PROVE  PlaceInv'
<1>1. waiter \in [Fds -> [Events -> Jobs \cup {NoJob}]]
  BY DEF IOInv, Types
<1>2. \A g \in Fds, d \in Events : waiter'[g][d] = IF g = f /\ d = e THEN j ELSE waiter[g][d]
  BY <1>1 DEF Register
<1>3. Apart'
  <2>1. \A g \in Fds, d \in Events : waiter[g][d] # j
    BY DEF Awaits
  <2>2. \A g, i \in Fds, c, d \in Events :
          waiter'[g][c] # NoJob /\ waiter'[g][c] = waiter'[i][d] => g = i /\ c = d
    BY <1>2, <2>1 DEF PlaceInv, Apart
  <2> QED BY <2>2 DEF PlaceInv, Apart, NoTwice
<1>4. ASSUME NEW k \in Jobs PROVE Alone(k)'
  <2>1. (In(queue, k)' <=> In(queue, k)) /\ (Batched(k)' <=> Batched(k))
    BY DEF In, Batched
  <2>2. Awaits(k)' => Awaits(k) \/ k = j
    BY <1>2 DEF Awaits
  <2> QED BY <2>1, <2>2 DEF PlaceInv, Alone
<1> QED BY <1>3, <1>4 DEF PlaceInv

\* The running job is on its thread only, and on none once it left.
LEMMA LeftThread ==
    ASSUME IOInv, PlaceInv, NEW h \in Threads, pc[h] = "run", Leave(h)
    PROVE  /\ cur[h] \in Jobs /\ On(cur[h])
           /\ \A g, i \in Threads : cur'[g] # NoJob /\ cur'[g] = cur'[i] => g = i
           /\ \A k \in Jobs : On(k)' => On(k) /\ k # cur[h]
<1>1. cur[h] \in Jobs /\ cur' = [cur EXCEPT ![h] = NoJob] /\ cur \in [Threads -> Jobs \cup {NoJob}]
  BY DEF IOInv, RunInv, Types, Leave
<1>2. \A g \in Threads : cur'[g] = IF g = h THEN NoJob ELSE cur[g]
  BY <1>1
<1>3. \A g, i \in Threads : cur'[g] # NoJob /\ cur'[g] = cur'[i] => g = i
  BY <1>2 DEF PlaceInv, Apart
<1>4. \A k \in Jobs : On(k)' => On(k) /\ k # cur[h]
  BY <1>1, <1>2, JobsAssumption DEF On, PlaceInv, Apart
<1> QED BY <1>1, <1>3, <1>4 DEF On

\* What a job does.
LEMMA JobPlaces ==
    ASSUME IOInv, PlaceInv, NEW h \in Threads, JobEnds(h) \/ JobStep(h)
    PROVE  PlaceInv'
<1>1. ASSUME NEW u \in Uses PROVE u[1] \in Fds /\ u[2] \in Events
  BY UsesAssumption
<1>2. CASE Finish(h) \/ Sleep(h)
  <2>1. /\ pc[h] = "run" /\ Leave(h) /\ UNCHANGED <<queue, batch, waiter>>
        /\ timers' \in {timers, timers \cup {cur[h]}}
    BY <1>2 DEF Finish, Sleep, ctxVars, timerVars
  <2>2. /\ cur[h] \in Jobs /\ On(cur[h])
        /\ \A g, i \in Threads : cur'[g] # NoJob /\ cur'[g] = cur'[i] => g = i
        /\ \A k \in Jobs : On(k)' => On(k) /\ k # cur[h]
    BY <2>1, LeftThread
  <2>3. Apart'
    BY <2>1, <2>2 DEF PlaceInv, Apart, NoTwice
  <2>4. ASSUME NEW k \in Jobs PROVE Alone(k)'
    <3>1. /\ In(queue, k)' <=> In(queue, k)
          /\ Batched(k)' <=> Batched(k)
          /\ Awaits(k)' <=> Awaits(k)
      BY <2>1 DEF In, Batched, Awaits
    <3>2. k \in timers' => k \in timers \/ k = cur[h]
      BY <2>1
    <3> QED BY <2>2, <3>1, <3>2 DEF PlaceInv, Alone
  <2> QED BY <2>3, <2>4 DEF PlaceInv
<1>3. ASSUME NEW f \in Fds, NEW e \in Events, AddEvent(h, f, e) PROVE PlaceInv'
  <2>1. /\ pc[h] = "run" /\ Leave(h) /\ Register(f, e, cur[h])
        /\ UNCHANGED <<queue, batch, timers>>
    BY <1>3 DEF AddEvent, timerVars
  <2>2. /\ cur[h] \in Jobs /\ On(cur[h])
        /\ \A g, i \in Threads : cur'[g] # NoJob /\ cur'[g] = cur'[i] => g = i
        /\ \A k \in Jobs : On(k)' => On(k) /\ k # cur[h]
    BY <2>1, LeftThread
  <2>3. ~In(queue, cur[h]) /\ ~Batched(cur[h]) /\ ~Awaits(cur[h]) /\ cur[h] \notin timers
    BY <2>2 DEF PlaceInv, Alone
  <2>4. PICK j \in Jobs : j = cur[h]
    BY <2>2
  <2> QED BY <2>1, <2>2, <2>3, <2>4, PlacesRegistered
<1>4. ASSUME NEW f \in Fds, NEW e \in Events, NEW j \in Jobs, AddCallback(h, f, e, j)
      PROVE  PlaceInv'
  <2>1. Fresh(j) /\ Register(f, e, j) /\ UNCHANGED <<queue, batch, timers, cur>>
    BY <1>4 DEF AddCallback, timerVars, threadVars
  <2>2. ~In(queue, j) /\ ~On(j) /\ ~Batched(j) /\ ~Awaits(j) /\ j \notin timers
    BY <2>1, FreshAlone
  <2>3. \A g, i \in Threads : cur'[g] # NoJob /\ cur'[g] = cur'[i] => g = i
    BY <2>1 DEF PlaceInv, Apart
  <2>4. \A k \in Jobs : On(k)' => On(k) /\ k # j
    BY <2>1, <2>2 DEF On
  <2> QED BY <2>1, <2>2, <2>3, <2>4, PlacesRegistered
<1>5. ASSUME NEW f \in Fds, NEW e \in Events, RemoveEvent(h, f, e) PROVE PlaceInv'
  <2>1. /\ waiter' = [waiter EXCEPT ![f] = [waiter[f] EXCEPT ![e] = NoJob]]
        /\ UNCHANGED <<queue, cur, batch, timers>>
    BY <1>5 DEF RemoveEvent, threadVars, timerVars
  <2>2. waiter \in [Fds -> [Events -> Jobs \cup {NoJob}]]
    BY DEF IOInv, Types
  <2>3. \A g \in Fds, d \in Events : waiter'[g][d] \in {waiter[g][d], NoJob}
    BY <2>1, <2>2
  <2>4. Apart'
    <3>1. \A g, i \in Fds, c, d \in Events :
          waiter'[g][c] # NoJob /\ waiter'[g][c] = waiter'[i][d] => g = i /\ c = d
      BY <2>3 DEF PlaceInv, Apart
    <3> QED BY <2>1, <3>1 DEF PlaceInv, Apart, NoTwice
  <2>5. ASSUME NEW k \in Jobs PROVE Alone(k)'
    <3>1. /\ In(queue, k)' <=> In(queue, k)
          /\ Batched(k)' <=> Batched(k)
          /\ On(k)' <=> On(k)
      BY <2>1 DEF In, Batched, On
    <3>2. Awaits(k)' => Awaits(k)
      BY <2>3, JobsAssumption DEF Awaits
    <3> QED BY <2>1, <3>1, <3>2 DEF PlaceInv, Alone
  <2> QED BY <2>4, <2>5 DEF PlaceInv
<1>6. ASSUME NEW f \in Fds, NEW e \in Events, CancelEvent(h, f, e) PROVE PlaceInv'
  <2>1. {e} \in SUBSET events[f] /\ Trigger(f, {e}) /\ UNCHANGED <<cur, batch, timers>>
    BY <1>6 DEF CancelEvent, threadVars, timerVars
  <2> QED BY <2>1, PlacesTriggered
<1>7. ASSUME NEW f \in Fds, CancelAll(h, f) PROVE PlaceInv'
  <2>1. Trigger(f, events[f]) /\ UNCHANGED <<cur, batch, timers>>
    BY <1>7 DEF CancelAll, threadVars, timerVars
  <2> QED BY <2>1, PlacesTriggered
<1>8. ASSUME NEW f \in Fds, NEW e \in Events, Consume(h, f, e) PROVE PlaceInv'
  BY <1>8, PlacesKept DEF Consume, threadVars, ctxVars, timerVars
<1> QED BY <1>1, <1>2, <1>3, <1>4, <1>5, <1>6, <1>7, <1>8 DEF JobEnds, JobStep

\* What a thread does in run() and idle().
LEMMA ThreadPlaces ==
    ASSUME IOInv, PlaceInv, NEW h \in Threads, ThreadStep(h)
    PROVE  PlaceInv'
<1>1. CASE TakeTask(h)
  <2>1. /\ queue \in Seq(Jobs) /\ queue # <<>> /\ NoTwice(queue)
        /\ cur \in [Threads -> Jobs \cup {NoJob}]
        /\ queue' = Tail(queue) /\ cur' = [cur EXCEPT ![h] = Head(queue)]
        /\ UNCHANGED <<batch, waiter, timers>>
    BY <1>1 DEF TakeTask, IOInv, Types, PlaceInv, Apart, ctxVars, timerVars
  <2>2. /\ NoTwice(queue') /\ Head(queue) \in Jobs /\ In(queue, Head(queue))
        /\ \A j \in Jobs : In(queue', j) => In(queue, j) /\ j # Head(queue)
    BY <2>1, Taken
  <2>3. ~On(Head(queue)) /\ \A g \in Threads : cur'[g] = IF g = h THEN Head(queue) ELSE cur[g]
    BY <2>1, <2>2 DEF PlaceInv, Alone
  <2>4. Apart'
    <3>1. \A g, i \in Threads : cur'[g] # NoJob /\ cur'[g] = cur'[i] => g = i
      BY <2>3 DEF PlaceInv, Apart, On
    <3> QED BY <2>1, <2>2, <3>1 DEF PlaceInv, Apart
  <2>5. ASSUME NEW k \in Jobs PROVE Alone(k)'
    <3>1. (Batched(k)' <=> Batched(k)) /\ (Awaits(k)' <=> Awaits(k))
      BY <2>1 DEF Batched, Awaits
    <3>2. On(k)' => On(k) \/ k = Head(queue)
      BY <2>3 DEF On
    <3>3. In(queue, k)' => In(queue, k) /\ k # Head(queue)
      BY <2>2 DEF In
    <3> QED BY <2>1, <2>2, <3>1, <3>2, <3>3 DEF PlaceInv, Alone
  <2> QED BY <2>4, <2>5 DEF PlaceInv
<1>2. CASE FindNothing(h) \/ EnterIdle(h) \/ AskTimers(h) \/ AskEvents(h) \/ AskTasks(h)
           \/ EpollWait(h) \/ DrainPipe(h) \/ YieldIdle(h)
  <2>1. UNCHANGED <<queue, cur, batch, waiter, timers>>
    BY <1>2 DEF FindNothing, EnterIdle, AskTimers, AskEvents, AskTasks, EpollWait, DrainPipe,
       YieldIdle, Move, threadVars, ctxVars, timerVars
  <2> QED BY <2>1, PlacesKept
<1>3. CASE Expire(h)
  <2>1. /\ timers' = timers \ due /\ due \subseteq timers /\ timers \subseteq Jobs
        /\ batch' = [batch EXCEPT ![h] = due] /\ batch \in [Threads -> SUBSET Jobs]
        /\ UNCHANGED <<queue, cur, waiter>>
    BY <1>3 DEF Expire, IOInv, Types, ctxVars
  <2>2. \A g \in Threads : batch'[g] = IF g = h THEN due ELSE batch[g]
    BY <2>1
  <2>3. \A j \in due : ~In(queue, j) /\ ~On(j) /\ ~Batched(j) /\ ~Awaits(j)
    BY <2>1 DEF PlaceInv, Alone
  <2>4. Apart'
    <3>1. \A g, i \in Threads, j \in Jobs : j \in batch'[g] /\ j \in batch'[i] => g = i
      BY <2>2, <2>3 DEF PlaceInv, Apart, Batched
    <3> QED BY <2>1, <3>1 DEF PlaceInv, Apart, NoTwice
  <2>5. ASSUME NEW k \in Jobs PROVE Alone(k)'
    <3>1. (In(queue, k)' <=> In(queue, k)) /\ (On(k)' <=> On(k)) /\ (Awaits(k)' <=> Awaits(k))
      BY <2>1 DEF In, On, Awaits
    <3>2. Batched(k)' => Batched(k) \/ k \in due
      BY <2>2 DEF Batched
    <3> QED BY <2>1, <2>3, <3>1, <3>2 DEF PlaceInv, Alone
  <2> QED BY <2>4, <2>5 DEF PlaceInv
<1>4. CASE ScheduleBatch(h)
  <2>1. PICK s \in SetToSeqs(batch[h]) : Schedule(s)
    BY <1>4 DEF ScheduleBatch
  <2>2. /\ batch' = [batch EXCEPT ![h] = {}] /\ batch \in [Threads -> SUBSET Jobs]
        /\ UNCHANGED <<cur, waiter, timers>>
    BY <1>4 DEF ScheduleBatch, IOInv, Types, ctxVars
  <2>3. s \in Seq(Jobs) /\ NoTwice(s) /\ \A j \in Jobs : In(s, j) => j \in batch[h]
    <3>1. Cardinality(batch[h]) \in Nat
      BY <2>2, JobsAssumption, FS_Subset, FS_CardinalityType
    <3>2. /\ s \in [1 .. Cardinality(batch[h]) -> batch[h]]
          /\ \A i, k \in 1 .. Cardinality(batch[h]) : i # k => s[i] # s[k]
      BY DEF SetToSeqs
    <3>3. s \in Seq(Jobs) /\ Len(s) = Cardinality(batch[h])
      BY <2>2, <3>1, <3>2
    <3> QED BY <3>2, <3>3 DEF NoTwice, In
  <2>4. \A j \in batch[h] : Batched(j) /\ j \in Jobs
    BY <2>2 DEF Batched
  <2>5. NoTwice(queue') /\ \A j \in Jobs : In(queue, j)' <=> In(queue, j) \/ In(s, j)
    <3>1. \A j \in Jobs : In(s, j) => ~In(queue, j)
      BY <2>3, <2>4 DEF PlaceInv, Alone
    <3> QED BY <2>1, <2>3, <3>1, Scheduled
  <2>6. \A g \in Threads : batch'[g] = IF g = h THEN {} ELSE batch[g]
    BY <2>2
  <2>7. Apart'
    BY <2>2, <2>5, <2>6 DEF PlaceInv, Apart
  <2>8. ASSUME NEW k \in Jobs PROVE Alone(k)'
    <3>1. (On(k)' <=> On(k)) /\ (Awaits(k)' <=> Awaits(k))
      BY <2>2 DEF On, Awaits
    <3>2. Batched(k)' => Batched(k) /\ ~In(s, k)
      BY <2>3, <2>6 DEF Batched, PlaceInv, Apart
    <3>3. In(s, k) => Batched(k)
      BY <2>3, <2>4
    <3> QED BY <2>2, <2>5, <3>1, <3>2, <3>3 DEF PlaceInv, Alone
  <2> QED BY <2>7, <2>8 DEF PlaceInv
<1>5. ASSUME NEW r \in report[h], ProcessEvent(h, r) PROVE PlaceInv'
  <2> DEFINE f == r.fd
             real == IF ERR \in r.signals THEN Events ELSE r.signals
  <2>1. f \in Fds
    BY DEF IOInv, Types
  <2>2. UNCHANGED <<cur, batch, timers>>
    BY <1>5 DEF ProcessEvent, timerVars
  <2>3. CASE UNCHANGED <<queue, ctxVars>>
    BY <2>2, <2>3, PlacesKept DEF ctxVars
  <2>4. CASE real \subseteq events[f] /\ Trigger(f, real)
    BY <2>1, <2>2, <2>4, PlacesTriggered
  <2> QED BY <1>5, <2>3, <2>4 DEF ProcessEvent
<1> QED BY <1>1, <1>2, <1>3, <1>4, <1>5 DEF ThreadStep

\* PlaceInv is inductive relative to IOInv.
LEMMA PlaceNext == IOInv /\ PlaceInv /\ [Next]_vars => PlaceInv'
<1> SUFFICES ASSUME IOInv, PlaceInv, [Next]_vars PROVE PlaceInv'
  OBVIOUS
<1>1. ASSUME NEW j \in Jobs, Submit(j) PROVE PlaceInv'
  <2>1. Fresh(j) /\ Schedule(<<j>>) /\ UNCHANGED <<cur, batch, waiter, timers>>
    BY <1>1 DEF Submit, threadVars, ctxVars, timerVars
  <2>2. ~In(queue, j) /\ ~On(j) /\ ~Batched(j) /\ ~Awaits(j) /\ j \notin timers
    BY <2>1, FreshAlone
  <2>3. <<j>> \in Seq(Jobs) /\ NoTwice(<<j>>) /\ \A k \in Jobs : In(<<j>>, k) <=> k = j
    BY DEF NoTwice, In
  <2>4. PICK s \in Seq(Jobs) : s = <<j>>
    BY <2>3
  <2>5. NoTwice(queue') /\ \A k \in Jobs : In(queue, k)' <=> In(queue, k) \/ In(s, k)
    BY <2>1, <2>2, <2>3, <2>4, Scheduled
  <2>6. Apart'
    BY <2>1, <2>5 DEF PlaceInv, Apart
  <2>7. ASSUME NEW k \in Jobs PROVE Alone(k)'
    <3>1. (On(k)' <=> On(k)) /\ (Awaits(k)' <=> Awaits(k)) /\ (Batched(k)' <=> Batched(k))
      BY <2>1 DEF On, Awaits, Batched
    <3> QED BY <2>1, <2>2, <2>3, <2>4, <2>5, <3>1 DEF PlaceInv, Alone
  <2> QED BY <2>6, <2>7 DEF PlaceInv
<1>2. ASSUME NEW j \in Jobs, ComeDue(j) PROVE PlaceInv'
  BY <1>2, PlacesKept DEF ComeDue, threadVars, ctxVars
<1>3. ASSUME NEW u \in Uses, BecomeReady(u[1], u[2]) PROVE PlaceInv'
  BY <1>3, PlacesKept DEF BecomeReady, threadVars, ctxVars, timerVars
<1>4. ASSUME NEW f \in Fds, Break(f) PROVE PlaceInv'
  BY <1>4, PlacesKept DEF Break, threadVars, ctxVars, timerVars
<1>5. CASE StopCall \/ UNCHANGED vars
  BY <1>5, PlacesKept DEF StopCall, vars, threadVars, ctxVars, timerVars
<1> QED BY <1>1, <1>2, <1>3, <1>4, <1>5, JobPlaces, ThreadPlaces DEF Next

LEMMA PlaceInit == Init => PlaceInv
<1> SUFFICES ASSUME Init PROVE PlaceInv
  OBVIOUS
<1>1. \A j \in Jobs : ~In(queue, j) /\ ~On(j) /\ ~Batched(j) /\ ~Awaits(j)
  BY JobsAssumption DEF Init, In, On, Batched, Awaits
<1> QED BY <1>1 DEF Init, PlaceInv, Apart, Alone, NoTwice

\* A set whose elements are equal has at most one.
LEMMA AtMostOne ==
    ASSUME NEW S, \A x, y \in S : x = y
    PROVE  Cardinality(S) \in {0, 1} /\ (S = {} => Cardinality(S) = 0)
<1>1. CASE S = {}
  BY <1>1, FS_EmptySet
<1>2. CASE S # {}
  <2>1. PICK x \in S : S = {x}
    BY <1>2
  <2> QED BY <2>1, FS_Singleton
<1> QED BY <1>1, <1>2

\* For any threads, jobs and descriptors a job is in at most one place: the queue, a thread,
\* the callbacks of a thread, a context or the timers.
THEOREM Placed == Spec => []OnePlace
<1>1. IOInv /\ PlaceInv => OnePlace
  <2> SUFFICES ASSUME IOInv, PlaceInv, NEW j \in Jobs
               PROVE  Cardinality({i \in 1 .. Len(queue) : queue[i] = j})
                    + Cardinality({h \in Threads : cur[h] = j})
                    + Cardinality({h \in Threads : j \in batch[h]})
                    + Cardinality(Waiting(j))
                    + Cardinality({j} \cap timers) <= 1
    BY DEF OnePlace
  <2> DEFINE Q == {i \in 1 .. Len(queue) : queue[i] = j}
             C == {h \in Threads : cur[h] = j}
             B == {h \in Threads : j \in batch[h]}
             W == Waiting(j)
             T == {j} \cap timers
  <2>1. Cardinality(Q) \in {0, 1} /\ (Q = {} => Cardinality(Q) = 0)
    <3>1. \A x, y \in Q : x = y
      BY DEF PlaceInv, Apart, NoTwice
    <3> HIDE DEF Q
    <3> QED BY <3>1, AtMostOne
  <2>2. Cardinality(C) \in {0, 1} /\ (C = {} => Cardinality(C) = 0)
    <3>1. \A x, y \in C : x = y
      BY JobsAssumption DEF PlaceInv, Apart
    <3> HIDE DEF C
    <3> QED BY <3>1, AtMostOne
  <2>3. Cardinality(B) \in {0, 1} /\ (B = {} => Cardinality(B) = 0)
    <3>1. \A x, y \in B : x = y
      BY DEF PlaceInv, Apart
    <3> HIDE DEF B
    <3> QED BY <3>1, AtMostOne
  <2>4. Cardinality(W) \in {0, 1} /\ (W = {} => Cardinality(W) = 0)
    <3>1. ASSUME NEW x \in W, NEW y \in W PROVE x = y
      <4>1. PICK f \in Fds, d \in Events : x = <<f, d>> /\ waiter[f][d] = j
        BY UsesAssumption DEF Waiting
      <4>2. PICK g \in Fds, e \in Events : y = <<g, e>> /\ waiter[g][e] = j
        BY UsesAssumption DEF Waiting
      <4> QED BY <4>1, <4>2, JobsAssumption DEF PlaceInv, Apart
    <3> HIDE DEF W
    <3> QED BY <3>1, AtMostOne
  <2>5. Cardinality(T) \in {0, 1} /\ (T = {} => Cardinality(T) = 0)
    <3>1. \A x, y \in T : x = y
      OBVIOUS
    <3> HIDE DEF T
    <3> QED BY <3>1, AtMostOne
  <2>6. /\ In(queue, j) <=> Q # {}
        /\ On(j) <=> C # {}
        /\ Batched(j) <=> B # {}
        /\ Awaits(j) <=> W # {}
        /\ j \in timers <=> T # {}
    BY WaitingUses DEF In, On, Batched
  <2>7. Alone(j)
    BY DEF PlaceInv
  <2> HIDE DEF Q, C, B, W, T
  <2>8. Cardinality(Q) + Cardinality(C) + Cardinality(B) + Cardinality(W) + Cardinality(T) <= 1
    BY <2>1, <2>2, <2>3, <2>4, <2>5, <2>6, <2>7 DEF Alone
  <2> QED BY <2>8 DEF Q, C, B, W, T
<1>2. IOInv /\ PlaceInv /\ [Next]_vars => PlaceInv'
  BY PlaceNext
<1> QED BY <1>1, <1>2, PlaceInit, IOInductive, PTL DEF Spec

-----------------------------------------------------------------------------
(* With one thread.  The assertion of triggerEvent() may fail, and threads  *)
(* may exit with jobs left, because another thread acts between two steps   *)
(* of idle().                                                               *)

\* What epoll_wait told is still awaited when it is processed.
ReportInv ==
    /\ \A h \in Threads : \A r \in report[h] :
          pc[h] \in {"woken", "batch", "events"} /\ r.signals \subseteq events[r.fd]
    /\ \A h \in Threads : \A q, r \in report[h] : q.fd = r.fd => q = r
    /\ \A f \in Fds : ~broken[f]
    /\ \A h \in Threads : pc[h] # "abort"

\* Of the questions of stopping() the ones already answered still have that answer.
AnswersInv ==
    \A h \in Threads :
        /\ batch[h] # {} => pc[h] = "batch"
        /\ pc[h] \in {"askEvents", "askTasks"} => timers = {}
        /\ pc[h] = "askTasks" => pending = 0
        /\ ended[h] => /\ pc[h] \in {"scan", "exited"}
                       /\ stop /\ queue = <<>> /\ timers = {} /\ pending = 0
        /\ pc[h] = "exited" => ended[h]

\* What a step of a job leaves alone.
LEMMA JobLeaves ==
    ASSUME IOInv, NEW h \in Threads, JobEnds(h) \/ JobStep(h)
    PROVE  /\ pc[h] = "run" /\ \E l \in {"run", "scan"} : pc' = [pc EXCEPT ![h] = l]
           /\ UNCHANGED <<report, broken, ended, stop, batch>>
<1> USE DEF IOInv, Types
<1>1. ASSUME pc[h] = "run", UNCHANGED pc PROVE pc' = [pc EXCEPT ![h] = "run"]
  BY <1>1
<1>2. CASE JobEnds(h)
  <2>1. pc[h] = "run" /\ Leave(h) /\ UNCHANGED <<report, broken, ended, stop, batch>>
    BY <1>2 DEF JobEnds, Finish, Sleep, AddEvent, reportVars, worldVars, timerVars
  <2> QED BY <2>1 DEF Leave, Goto
<1>3. CASE JobStep(h)
  <2>1. pc[h] = "run" /\ UNCHANGED <<pc, report, broken, ended, stop, batch>>
    BY <1>3 DEF JobStep, RemoveEvent, CancelEvent, Consume, AddCallback, CancelAll, threadVars,
       reportVars, worldVars, timerVars
  <2> QED BY <1>1, <2>1
<1> QED BY <1>2, <1>3

LEMMA ReportNext ==
    ASSUME NEW only, Threads = {only}, FdErrors = FALSE, IOInv, ReportInv, [Next]_vars
    PROVE  ReportInv'
<1> DEFINE h == only
<1>0. /\ pc \in [Threads -> IdleSteps \cup {"scan", "run", "enter", "exited", "abort"}]
      /\ report \in [Threads -> SUBSET [fd : Fds, signals : SUBSET {READ, WRITE, ERR}]]
      /\ h \in Threads /\ \A g \in Threads : g = h
  BY DEF IOInv, Types
<1>1. ASSUME UNCHANGED <<report, broken>>, report[h] = {}, pc'[h] # "abort" PROVE ReportInv'
  BY <1>0, <1>1 DEF ReportInv
<1>2. CASE UNCHANGED <<pc, report, events, broken>>
  BY <1>2 DEF ReportInv
<1>3. CASE JobEnds(h) \/ JobStep(h)
  <2>1. /\ pc[h] = "run" /\ \E l \in {"run", "scan"} : pc' = [pc EXCEPT ![h] = l]
        /\ UNCHANGED <<report, broken>>
    BY <1>0, <1>3, JobLeaves
  <2>2. report[h] = {}
    BY <1>0, <2>1 DEF ReportInv
  <2>3. pc'[h] # "abort"
    BY <1>0, <2>1
  <2> QED BY <1>1, <2>1, <2>2, <2>3
<1>4. CASE TakeTask(h) \/ FindNothing(h) \/ EnterIdle(h) \/ AskTimers(h) \/ AskEvents(h)
           \/ AskTasks(h)
  <2>1. /\ pc[h] \in {"scan", "enter", "ask", "askEvents", "askTasks"}
        /\ UNCHANGED <<report, broken>>
        /\ \E l \in {"run", "exited", "enter", "ask", "askEvents", "askTasks", "sleep", "scan"} :
              pc' = [pc EXCEPT ![h] = l]
    <3>1. CASE TakeTask(h)
      BY <3>1 DEF TakeTask, Goto, reportVars, worldVars
    <3>2. CASE FindNothing(h)
      BY <3>2 DEF FindNothing, Goto, reportVars, worldVars
    <3>3. CASE EnterIdle(h) \/ AskTimers(h) \/ AskEvents(h)
      BY <3>3 DEF EnterIdle, AskTimers, AskEvents, Move, Goto, reportVars, worldVars
    <3>4. CASE AskTasks(h)
      <4> DEFINE stopping == stop /\ queue = <<>> /\ ActiveThreads = {}
      <4>1. Move(h, "askTasks", IF stopping THEN "scan" ELSE "sleep")
        BY <3>4 DEF AskTasks
      <4> HIDE DEF stopping
      <4> QED BY <4>1 DEF Move, Goto, reportVars, worldVars
    <3> QED BY <1>4, <3>1, <3>2, <3>3, <3>4
  <2>2. report[h] = {}
    BY <1>0, <2>1 DEF ReportInv
  <2>3. pc'[h] # "abort"
    BY <1>0, <2>1
  <2> QED BY <1>1, <2>1, <2>2, <2>3
<1>5. CASE EpollWait(h)
  <2>1. /\ pc' = [pc EXCEPT ![h] = "woken"] /\ UNCHANGED <<events, broken>>
        /\ report' = [report EXCEPT ![h] = {[fd |-> f, signals |-> Signals(f)] : f \in Deliverable}]
    BY <1>5 DEF EpollWait, Goto, ctxVars, worldVars
  <2>2. pc'[h] = "woken"
    BY <1>0, <2>1
  <2>3. report'[h] = {[fd |-> f, signals |-> Signals(f)] : f \in Deliverable}
    BY <1>0, <2>1
  <2>4. \A f \in Fds : Signals(f) \subseteq events[f]
    BY DEF IOInv, ContextInSync, ReportInv, Signals
  <2>5. \A r \in report'[h] : r.signals \subseteq events[r.fd] /\ r = [fd |-> r.fd, signals |-> Signals(r.fd)]
    BY <2>3, <2>4 DEF Deliverable
  <2> QED BY <1>0, <2>1, <2>2, <2>5 DEF ReportInv
<1>6. CASE Expire(h) \/ ScheduleBatch(h) \/ DrainPipe(h)
  <2>1. /\ \E l \in {"batch", "events"} : pc' = [pc EXCEPT ![h] = l]
        /\ UNCHANGED <<report, events, broken>>
    <3>1. CASE Expire(h) \/ ScheduleBatch(h)
      BY <3>1 DEF Expire, ScheduleBatch, Goto, reportVars, ctxVars, worldVars
    <3>2. CASE DrainPipe(h)
      <4>1. pc' = [pc EXCEPT ![h] = "events"]
        BY <1>0, <3>2 DEF DrainPipe, threadVars
      <4> QED BY <3>2, <4>1 DEF DrainPipe, ctxVars, worldVars
    <3> QED BY <1>6, <3>1, <3>2
  <2>2. pc'[h] \in {"batch", "events"}
    BY <1>0, <2>1
  <2> QED BY <1>0, <2>1, <2>2 DEF ReportInv
<1>7. ASSUME NEW r \in report[h], ProcessEvent(h, r) PROVE ReportInv'
  <2> DEFINE real == IF ERR \in r.signals THEN Events ELSE r.signals
  <2>1. /\ r.fd \in Fds /\ r.signals \subseteq events[r.fd] /\ events[r.fd] \subseteq Events
        /\ pc[h] = "events"
    BY <1>0, <1>7 DEF ReportInv, ProcessEvent, IOInv, Types
  <2>2. real = r.signals
    BY <2>1 DEF Events, READ, WRITE, ERR
  <2>3. /\ UNCHANGED <<pc, broken>>
        /\ report' = [report EXCEPT ![h] = @ \ {r}]
        /\ \A g \in Fds : g # r.fd => events'[g] = events[g]
    <3>1. UNCHANGED broken /\ report' = [report EXCEPT ![h] = @ \ {r}]
      BY <1>7 DEF ProcessEvent, worldVars
    <3>2. \/ UNCHANGED <<pc, events>>
          \/ UNCHANGED pc /\ Trigger(r.fd, real)
      BY <1>7, <2>1, <2>2 DEF ProcessEvent, ctxVars
    <3>3. Trigger(r.fd, real) => \A g \in Fds : g # r.fd => events'[g] = events[g]
      BY DEF Trigger, IOInv, Types
    <3> QED BY <3>1, <3>2, <3>3
  <2>4. report'[h] = report[h] \ {r}
    BY <1>0, <2>3
  <2>5. \A q \in report'[h] : q \in report[h] /\ q.fd # r.fd /\ q.fd \in Fds
    BY <1>0, <2>4 DEF ReportInv
  <2>6. \A q \in report'[h] : q.signals \subseteq events'[q.fd]
    BY <1>0, <2>3, <2>5 DEF ReportInv
  <2> QED BY <1>0, <2>1, <2>3, <2>5, <2>6 DEF ReportInv
<1>8. CASE YieldIdle(h)
  <2>1. report[h] = {} /\ pc' = [pc EXCEPT ![h] = "scan"] /\ UNCHANGED <<report, broken>>
    BY <1>8 DEF YieldIdle, Move, Goto, reportVars, worldVars
  <2>2. pc'[h] # "abort"
    BY <1>0, <2>1
  <2> QED BY <1>1, <2>1, <2>2
<1>9. ASSUME NEW j \in Jobs, Submit(j) \/ ComeDue(j) PROVE ReportInv'
  BY <1>2, <1>9 DEF Submit, ComeDue, threadVars, reportVars, ctxVars, worldVars
<1>10. ASSUME NEW u \in Uses, BecomeReady(u[1], u[2]) PROVE ReportInv'
  BY <1>2, <1>10 DEF BecomeReady, threadVars, reportVars, ctxVars
<1>11. ASSUME NEW f \in Fds, Break(f) PROVE ReportInv'
  BY <1>11 DEF Break
<1>12. CASE StopCall \/ UNCHANGED vars
  BY <1>2, <1>12 DEF StopCall, vars, threadVars, reportVars, ctxVars, worldVars
<1>13. ASSUME NEW g \in Threads, ThreadStep(g) PROVE ReportInv'
  <2>1. ThreadStep(h)
    BY <1>0, <1>13
  <2> QED BY <1>4, <1>5, <1>6, <1>7, <1>8, <2>1 DEF ThreadStep
<1>14. ASSUME NEW g \in Threads, JobEnds(g) \/ JobStep(g) PROVE ReportInv'
  <2>1. JobEnds(h) \/ JobStep(h)
    BY <1>0, <1>14
  <2> QED BY <1>3, <2>1
<1> QED BY <1>9, <1>10, <1>11, <1>12, <1>13, <1>14 DEF Next

\* With one thread, and as long as epoll reports no errors, no job runs between epoll_wait and
\* the processing of what it told, so triggerEvent() is called for awaited events only
\* (IOManager.cc:63, 529-623).
THEOREM OneThreadTriggers ==
    ASSUME NEW only, Threads = {only}, FdErrors = FALSE
    PROVE  Spec => []TriggersAwaited
<1>1. Init => ReportInv
  BY DEF Init, ReportInv
<1>2. IOInv /\ ReportInv /\ [Next]_vars => ReportInv'
  BY ReportNext
<1>3. ReportInv => TriggersAwaited
  BY DEF ReportInv, TriggersAwaited, Aborted
<1> QED BY <1>1, <1>2, <1>3, IOInductive, PTL DEF Spec

\* What is left when stopping() is asked for the last time has been there all along.
LEMMA AnswersNext ==
    ASSUME NEW only, Threads = {only}, IOInv, PendingExact, AnswersInv, [Next]_vars
    PROVE  AnswersInv'
<1> DEFINE h == only
<1>0. /\ pc \in [Threads -> IdleSteps \cup {"scan", "run", "enter", "exited", "abort"}]
      /\ batch \in [Threads -> SUBSET Jobs] /\ ended \in [Threads -> BOOLEAN]
      /\ stop \in BOOLEAN
      /\ h \in Threads /\ \A g \in Threads : g = h
  BY DEF IOInv, Types
<1>1. /\ batch[h] # {} => pc[h] = "batch"
      /\ pc[h] \in {"askEvents", "askTasks"} => timers = {}
      /\ pc[h] = "askTasks" => pending = 0
      /\ ended[h] => pc[h] \in {"scan", "exited"} /\ stop /\ queue = <<>> /\ timers = {} /\ pending = 0
      /\ pc[h] = "exited" => ended[h]
  BY <1>0 DEF AnswersInv
<1>2. ASSUME
      /\ batch'[h] # {} => pc'[h] = "batch"
      /\ pc'[h] \in {"askEvents", "askTasks"} => timers' = {}
      /\ pc'[h] = "askTasks" => pending' = 0
      /\ ended'[h] => /\ pc'[h] \in {"scan", "exited"}
                      /\ stop' /\ queue' = <<>> /\ timers' = {} /\ pending' = 0
      /\ pc'[h] = "exited" => ended'[h]
      PROVE  AnswersInv'
  BY <1>0, <1>2 DEF AnswersInv
<1>3. CASE JobEnds(h) \/ JobStep(h)
  <2>1. /\ pc[h] = "run" /\ \E l \in {"run", "scan"} : pc' = [pc EXCEPT ![h] = l]
        /\ UNCHANGED <<ended, batch>>
    BY <1>0, <1>3, JobLeaves
  <2>2. pc'[h] \in {"run", "scan"}
    BY <1>0, <2>1
  <2> QED BY <1>1, <1>2, <2>1, <2>2
<1>4. CASE TakeTask(h)
  <2>1. pc[h] = "scan" /\ queue # <<>> /\ pc' = [pc EXCEPT ![h] = "run"] /\ UNCHANGED <<ended, batch>>
    BY <1>4 DEF TakeTask, Goto, timerVars
  <2>2. pc'[h] = "run"
    BY <1>0, <2>1
  <2> QED BY <1>1, <1>2, <2>1, <2>2
<1>5. CASE FindNothing(h)
  <2>1. /\ pc[h] = "scan" /\ pc' = [pc EXCEPT ![h] = IF ended[h] THEN "exited" ELSE "enter"]
        /\ UNCHANGED <<ended, batch, timers, pending, queue, stop>>
    BY <1>5 DEF FindNothing, Goto, timerVars, ctxVars
  <2>2. pc'[h] = IF ended[h] THEN "exited" ELSE "enter"
    BY <1>0, <2>1
  <2> QED BY <1>1, <1>2, <2>1, <2>2
<1>6. CASE EnterIdle(h) \/ AskTimers(h) \/ AskEvents(h)
  <2>1. UNCHANGED <<ended, batch, timers, pending, queue, stop>>
    BY <1>6 DEF EnterIdle, AskTimers, AskEvents, Move, timerVars, ctxVars
  <2>2. \/ pc[h] = "enter" /\ pc'[h] = "ask"
        \/ pc[h] = "ask" /\ timers = {} /\ pc'[h] = "askEvents"
        \/ pc[h] = "askEvents" /\ pending = 0 /\ pc'[h] = "askTasks"
        \/ pc[h] \in {"ask", "askEvents"} /\ pc'[h] = "sleep"
    BY <1>0, <1>6 DEF EnterIdle, AskTimers, AskEvents, Move, Goto
  <2> QED BY <1>1, <1>2, <2>1, <2>2
<1>7. CASE AskTasks(h)
  <2> DEFINE stopping == stop /\ queue = <<>> /\ ActiveThreads = {}
  <2>1. /\ Move(h, "askTasks", IF stopping THEN "scan" ELSE "sleep")
        /\ ended' = [ended EXCEPT ![h] = stopping]
    BY <1>7 DEF AskTasks
  <2> HIDE DEF stopping
  <2>2. /\ pc[h] = "askTasks" /\ pc'[h] = IF stopping THEN "scan" ELSE "sleep"
        /\ ended'[h] = stopping
        /\ UNCHANGED <<batch, timers, pending, queue, stop>>
    BY <1>0, <2>1 DEF Move, Goto, timerVars, ctxVars
  <2>3. stopping => stop /\ queue = <<>>
    BY DEF stopping
  <2> QED BY <1>1, <1>2, <2>2, <2>3
<1>8. CASE EpollWait(h) \/ DrainPipe(h)
  <2>1. UNCHANGED <<ended, batch>> /\ pc[h] \in {"sleep", "events"} /\ pc'[h] \in {"woken", "events"}
    BY <1>0, <1>8 DEF EpollWait, DrainPipe, Goto, timerVars, threadVars
  <2> QED BY <1>1, <1>2, <2>1
<1>9. CASE Expire(h)
  <2>1. pc[h] = "woken" /\ pc'[h] = "batch" /\ UNCHANGED ended
    BY <1>0, <1>9 DEF Expire, Goto
  <2> QED BY <1>1, <1>2, <2>1
<1>10. CASE ScheduleBatch(h)
  <2>1. pc[h] = "batch" /\ pc'[h] = "events" /\ UNCHANGED ended /\ batch'[h] = {}
    BY <1>0, <1>10 DEF ScheduleBatch, Goto
  <2> QED BY <1>1, <1>2, <2>1
<1>11. ASSUME NEW r \in report[h], ProcessEvent(h, r) PROVE AnswersInv'
  <2>1. pc[h] = "events" /\ pc'[h] \in {"events", "abort"} /\ UNCHANGED <<ended, batch>>
    BY <1>0, <1>11 DEF ProcessEvent, Goto, timerVars
  <2> QED BY <1>0, <1>1, <2>1 DEF AnswersInv
<1>12. CASE YieldIdle(h)
  <2>1. pc[h] = "events" /\ pc'[h] = "scan" /\ UNCHANGED <<ended, batch>>
    BY <1>0, <1>12 DEF YieldIdle, Move, Goto, timerVars
  <2> QED BY <1>1, <1>2, <2>1
<1>13. ASSUME NEW j \in Jobs, Submit(j) PROVE AnswersInv'
  <2>1. ~stop \/ ActiveThreads # {}
    BY <1>13 DEF Submit
  <2>2. UNCHANGED <<pc, ended, batch, timers, pending, stop>>
    BY <1>13 DEF Submit, threadVars, timerVars, ctxVars
  <2>3. ActiveThreads # {} => pc[h] = "run"
    BY <1>0 DEF ActiveThreads
  <2> QED BY <1>0, <1>1, <2>1, <2>2, <2>3 DEF AnswersInv
<1>14. ASSUME NEW j \in Jobs, ComeDue(j) PROVE AnswersInv'
  BY <1>14 DEF ComeDue, threadVars, ctxVars, AnswersInv
<1>15. ASSUME NEW u \in Uses, BecomeReady(u[1], u[2]) PROVE AnswersInv'
  BY <1>15 DEF BecomeReady, threadVars, timerVars, ctxVars, AnswersInv
<1>16. ASSUME NEW f \in Fds, Break(f) PROVE AnswersInv'
  BY <1>16 DEF Break, threadVars, timerVars, ctxVars, AnswersInv
<1>17. CASE StopCall \/ UNCHANGED vars
  <2>1. UNCHANGED <<queue, pc, ended, batch, timers, pending>> /\ (stop => stop')
    BY <1>17 DEF StopCall, vars, threadVars, timerVars, ctxVars
  <2> QED BY <1>1, <1>2, <2>1
<1>18. ASSUME NEW g \in Threads, ThreadStep(g) PROVE AnswersInv'
  <2>1. ThreadStep(h)
    BY <1>0, <1>18
  <2> QED BY <1>4, <1>5, <1>6, <1>7, <1>8, <1>9, <1>10, <1>11, <1>12, <2>1 DEF ThreadStep
<1> QED BY <1>0, <1>3, <1>13, <1>14, <1>15, <1>16, <1>17, <1>18 DEF Next

\* When the only thread has exited, no job is left anywhere: no other thread can give it one
\* between the questions of stopping() (IOManager.cc:466-473, 640).
THEOREM OneThreadDrains ==
    ASSUME NEW only, Threads = {only}
    PROVE  Spec => []ExitDrains
<1>1. Init => AnswersInv
  BY DEF Init, AnswersInv
<1>2. IOInv /\ PendingExact /\ AnswersInv /\ [Next]_vars => AnswersInv'
  BY AnswersNext
<1>3. IOInv /\ PendingExact /\ AnswersInv => ExitDrains
  <2> SUFFICES ASSUME IOInv, PendingExact, AnswersInv, \A h \in Threads : pc[h] = "exited"
               PROVE  /\ queue = <<>> /\ timers = {} /\ Registered = {}
                      /\ \A h \in Threads : batch[h] = {}
    BY DEF ExitDrains
  <2>1. queue = <<>> /\ timers = {} /\ pending = 0 /\ \A h \in Threads : batch[h] = {}
    BY DEF AnswersInv
  <2>2. Registered = {}
    BY <2>1, RegisteredFinite, FS_EmptySet DEF PendingExact
  <2> QED BY <2>1, <2>2
<1> QED BY <1>1, <1>2, <1>3, IOInductive, CountOfWaits, PTL DEF Spec

-----------------------------------------------------------------------------
(* IOManager implements EventPool: triggerEvent() and the scheduling of the *)
(* expired timers are its Awaken, what else idle() does is nothing.         *)

\* Only a thread in run() has a job, and only between listExpiredCb() and schedule() does
\* one hold callbacks.
HandsInv ==
    \A h \in Threads :
        /\ pc[h] # "run" => cur[h] = NoJob
        /\ batch[h] # {} => pc[h] = "batch"

LEMMA HandsNext == IOInv /\ HandsInv /\ [Next]_vars => HandsInv'
<1> SUFFICES ASSUME IOInv, HandsInv, [Next]_vars PROVE HandsInv'
  OBVIOUS
<1> USE DEF HandsInv
<1>1. /\ pc \in [Threads -> IdleSteps \cup {"scan", "run", "enter", "exited", "abort"}]
      /\ cur \in [Threads -> Jobs \cup {NoJob}] /\ batch \in [Threads -> SUBSET Jobs]
  BY DEF IOInv, Types
<1>2. CASE UNCHANGED <<pc, cur, batch>>
  BY <1>2
<1>3. ASSUME NEW h \in Threads, NEW l, pc[h] # "run", pc[h] # "batch", l # "run",
             pc' = [pc EXCEPT ![h] = l], UNCHANGED <<cur, batch>>
      PROVE  HandsInv'
  BY <1>1, <1>3
<1>4. ASSUME NEW h \in Threads, ThreadStep(h) PROVE HandsInv'
  <2>1. CASE TakeTask(h)
    BY <1>1, <2>1 DEF TakeTask, Goto, timerVars
  <2>2. CASE FindNothing(h)
    <3>1. PICK l \in {"exited", "enter"} : pc' = [pc EXCEPT ![h] = l]
      BY <2>2 DEF FindNothing, Goto
    <3> QED BY <1>3, <2>2, <3>1 DEF FindNothing, timerVars
  <2>3. CASE EnterIdle(h) \/ AskTimers(h) \/ AskEvents(h) \/ YieldIdle(h)
    <3>1. PICK l \in {"ask", "askEvents", "askTasks", "sleep", "scan"} :
              pc' = [pc EXCEPT ![h] = l]
      BY <2>3 DEF EnterIdle, AskTimers, AskEvents, YieldIdle, Move, Goto
    <3>2. pc[h] \in {"enter", "ask", "askEvents", "events"} /\ UNCHANGED <<cur, batch>>
      BY <2>3 DEF EnterIdle, AskTimers, AskEvents, YieldIdle, Move, timerVars
    <3> QED BY <1>3, <3>1, <3>2
  <2>4. CASE AskTasks(h)
    <3> DEFINE stopping == stop /\ queue = <<>> /\ ActiveThreads = {}
    <3>1. Move(h, "askTasks", IF stopping THEN "scan" ELSE "sleep")
      BY <2>4 DEF AskTasks
    <3> HIDE DEF stopping
    <3>2. PICK l \in {"scan", "sleep"} : pc' = [pc EXCEPT ![h] = l]
      BY <3>1 DEF Move, Goto
    <3> QED BY <1>3, <3>1, <3>2 DEF Move, timerVars
  <2>5. CASE EpollWait(h)
    BY <1>3, <2>5 DEF EpollWait, Goto, timerVars
  <2>6. CASE Expire(h)
    BY <1>1, <2>6 DEF Expire, Goto
  <2>7. CASE ScheduleBatch(h)
    BY <1>1, <2>7 DEF ScheduleBatch, Goto
  <2>8. ASSUME NEW r \in report[h], ProcessEvent(h, r) PROVE HandsInv'
    <3>1. pc[h] = "events" /\ UNCHANGED <<cur, batch>>
      BY <2>8 DEF ProcessEvent, timerVars
    <3>2. UNCHANGED pc \/ pc' = [pc EXCEPT ![h] = "abort"]
      BY <2>8 DEF ProcessEvent, Goto
    <3> QED BY <1>2, <1>3, <3>1, <3>2
  <2>9. CASE DrainPipe(h)
    BY <1>2, <2>9 DEF DrainPipe, threadVars, timerVars
  <2> QED BY <1>4, <2>1, <2>2, <2>3, <2>4, <2>5, <2>6, <2>7, <2>8, <2>9 DEF ThreadStep
<1>5. ASSUME NEW h \in Threads, JobEnds(h) PROVE HandsInv'
  <2>1. pc[h] = "run" /\ Leave(h) /\ UNCHANGED batch
    BY <1>5 DEF JobEnds, Finish, Sleep, AddEvent, timerVars
  <2> QED BY <1>1, <2>1 DEF Leave, Goto
<1>6. ASSUME NEW h \in Threads, JobStep(h) PROVE HandsInv'
  <2>1. UNCHANGED <<threadVars, timerVars>>
    BY <1>6 DEF JobStep, RemoveEvent, CancelEvent, Consume, AddCallback, CancelAll
  <2> QED BY <1>2, <2>1 DEF threadVars, timerVars
<1>7. CASE \/ \E j \in Jobs : Submit(j) \/ ComeDue(j)
           \/ \E u \in Uses : BecomeReady(u[1], u[2])
           \/ \E f \in Fds : Break(f)
           \/ StopCall \/ UNCHANGED vars
  BY <1>2, <1>7 DEF Submit, ComeDue, BecomeReady, Break, StopCall, vars, threadVars, timerVars
<1> QED BY <1>4, <1>5, <1>6, <1>7 DEF Next

LEMMA HandsInit == Init => HandsInv
BY DEF Init, HandsInv

PoolStep == [Pool!PoolNext]_<<queue, cur, waiter, Asleep>>

\* What an action of EventPool allows is a step of it.
LEMMA Moves ==
    ASSUME \/ \E j \in Jobs : Pool!Accept(j)
           \/ \E h \in Threads : Pool!Take(h) \/ Pool!Yield(h)
           \/ \E f \in Fds, e \in Events :
                 Pool!Forget(f, e) \/ \E j \in Jobs : Pool!Leave(f, e, j)
           \/ Pool!Awaken
    PROVE  PoolStep
BY DEF PoolStep, Pool!PoolNext, Pool!poolVars

\* A sequence without repetition is one of those made of its elements.
LEMMA Listed ==
    ASSUME NEW s \in Seq(Jobs), NoTwice(s), NEW S \in SUBSET Jobs,
           \A j \in Jobs : In(s, j) <=> j \in S
    PROVE  s \in SetToSeqs(S)
<1> DEFINE D == 1 .. Len(s)
<1>1. Len(s) \in Nat /\ s \in [D -> S]
  <2>1. \A i \in D : s[i] \in Jobs
    BY ElementOfSeq
  <2>2. \A i \in D : s[i] \in S
    BY <2>1 DEF In
  <2>3. Len(s) \in Nat /\ s \in [D -> Jobs]
    BY LenProperties
  <2> QED BY <2>2, <2>3
<1>2. \A i, k \in D : i # k => s[i] # s[k]
  BY DEF NoTwice
<1>3. \A j \in S : \E i \in D : s[i] = j
  BY DEF In
<1>4. Cardinality(S) = Len(s)
  <2>1. s \in Bijection(D, S)
    BY <1>1, <1>2, <1>3 DEF Bijection, Injection, Surjection, IsInjective
  <2>2. ExistsBijection(D, S)
    BY <2>1 DEF ExistsBijection
  <2>3. IsFiniteSet(D) /\ Cardinality(D) = Len(s)
    BY <1>1, FS_Interval
  <2> HIDE DEF D
  <2> QED BY <2>2, <2>3, FS_Bijection
<1> QED BY <1>1, <1>2, <1>4 DEF SetToSeqs

\* Some waits end together.
LEMMA Awakens ==
    ASSUME NEW S \in SUBSET (Asleep \cup Pool!Waiters), NEW s \in SetToSeqs(S),
           queue' = queue \o s, UNCHANGED cur,
           waiter \in [Fds -> [Events -> Jobs \cup {NoJob}]],
           waiter' \in [Fds -> [Events -> Jobs \cup {NoJob}]],
           \A g \in Fds, e \in Events :
              waiter'[g][e] = IF waiter[g][e] \in S THEN NoJob ELSE waiter[g][e],
           Asleep' = Asleep \ S
    PROVE  PoolStep
<1>1. waiter' = [f \in Fds |-> [e \in Events |->
                    IF waiter[f][e] \in S THEN NoJob ELSE waiter[f][e]]]
  OBVIOUS
<1>2. \E q \in Pool!SetToSeqs(S) : queue' = queue \o q
  BY DEF SetToSeqs, Pool!SetToSeqs, Cardinality, Pool!Cardinality
<1>3. Pool!Awaken
  BY <1>1, <1>2, Zenon DEF Pool!Awaken
<1> QED BY <1>3, Moves

\* triggerEvent() for some events of a context.
LEMMA TriggerAwakens ==
    ASSUME IOInv, PlaceInv, NEW f \in Fds, NEW S \in SUBSET events[f], Trigger(f, S),
           UNCHANGED <<cur, batch, timers>>
    PROVE  PoolStep
<1>1. PICK s \in Seq(Jobs) :
          Schedule(s) /\ NoTwice(s) /\ \A j \in Jobs : In(s, j) <=> j \in WaitersOf(f, S)
  BY TriggerList
<1>2. /\ \A j \in WaitersOf(f, S) :
              /\ j \in Jobs /\ Awaits(j)
              /\ ~In(queue, j) /\ ~On(j) /\ ~Batched(j) /\ j \notin timers
      /\ \A g \in Fds, e \in Events : waiter[g][e] \in WaitersOf(f, S) <=> g = f /\ e \in S
  BY WaitersAlone
<1>3. s \in SetToSeqs(WaitersOf(f, S))
  BY <1>1, <1>2, Listed
<1>4. WaitersOf(f, S) \subseteq Pool!Waiters
  <2>1. ASSUME NEW j \in WaitersOf(f, S) PROVE j \in Pool!Waiters
    BY <1>2, JobsAssumption DEF Awaits, Pool!Waiters
  <2> QED BY <2>1
<1>5. queue' = queue \o s
  BY <1>1 DEF Schedule
<1>6. /\ waiter \in [Fds -> [Events -> Jobs \cup {NoJob}]]
      /\ waiter' \in [Fds -> [Events -> Jobs \cup {NoJob}]]
      /\ \A g \in Fds, e \in Events :
            waiter'[g][e] = IF g = f /\ e \in S THEN NoJob ELSE waiter[g][e]
  BY TriggerContext DEF Dropped, IOInv, Types
<1>7. Asleep' = Asleep \ WaitersOf(f, S)
  BY <1>2 DEF Asleep, Batched
<1>8. PICK W : W = WaitersOf(f, S)
  OBVIOUS
<1>9. W \in SUBSET (Asleep \cup Pool!Waiters) /\ s \in SetToSeqs(W) /\ Asleep' = Asleep \ W
  BY <1>3, <1>4, <1>7, <1>8
<1>10. \A g \in Fds, e \in Events :
          waiter'[g][e] = IF waiter[g][e] \in W THEN NoJob ELSE waiter[g][e]
  BY <1>2, <1>6, <1>8
<1>11. UNCHANGED cur
  OBVIOUS
<1> QED BY ONLY <1>5, <1>6, <1>9, <1>10, <1>11, Awakens

\* A job waits for an event nobody waits for.
LEMMA RegisterAwaits ==
    ASSUME IOInv, NEW f \in Fds, NEW e \in Events, NEW j \in Jobs, Register(f, e, j)
    PROVE  Pool!Await(f, e, j)
BY DEF Register, IOInv, ContextInSync, Pool!Await

\* A job that is in no place is in none of EventPool.
LEMMA FreshAway ==
    ASSUME IOInv, NEW j \in Jobs, Fresh(j)
    PROVE  Pool!Away(j)
<1>1. ~In(queue, j) /\ ~On(j) /\ ~Batched(j) /\ ~Awaits(j) /\ j \notin timers
  BY FreshAlone
<1> QED BY <1>1 DEF In, On, Batched, Awaits, Asleep, Pool!Away

LEMMA StutterPool ==
    ASSUME UNCHANGED <<queue, cur, waiter, batch, timers>>
    PROVE  PoolStep
BY DEF PoolStep, Asleep

\* What a job does.
LEMMA JobPool ==
    ASSUME IOInv, PlaceInv, NEW h \in Threads, JobEnds(h) \/ JobStep(h)
    PROVE  PoolStep
<1>1. ASSUME NEW u \in Uses PROVE u[1] \in Fds /\ u[2] \in Events
  BY UsesAssumption
<1>2. pc[h] = "run" => cur[h] \in Jobs /\ cur[h] # NoJob
  BY JobsAssumption DEF IOInv, RunInv
<1>3. CASE Finish(h)
  <2>1. Pool!Yield(h)
    BY <1>2, <1>3 DEF Finish, Leave, ctxVars, timerVars, Asleep, Pool!Yield
  <2> QED BY <2>1, Moves
<1>4. CASE Sleep(h)
  <2>1. Asleep' = Asleep \cup {cur[h]}
    BY <1>4 DEF Sleep, Asleep
  <2>2. Pool!Yield(h)
    BY <1>2, <1>4, <2>1 DEF Sleep, Leave, ctxVars, Pool!Yield
  <2> QED BY <2>2, Moves
<1>5. ASSUME NEW f \in Fds, NEW e \in Events, AddEvent(h, f, e) PROVE PoolStep
  <2>1. Pool!Await(f, e, cur[h])
    BY <1>2, <1>5, RegisterAwaits DEF AddEvent
  <2>2. Asleep' = Asleep
    BY <1>5 DEF AddEvent, timerVars, Asleep
  <2>3. Pool!Yield(h)
    BY <1>2, <1>5, <2>1, <2>2 DEF AddEvent, Leave, Pool!Yield
  <2> QED BY <2>3, Moves
<1>6. ASSUME NEW f \in Fds, NEW e \in Events, NEW j \in Jobs, AddCallback(h, f, e, j)
      PROVE  PoolStep
  <2>1. Pool!Await(f, e, j)
    BY <1>6, RegisterAwaits DEF AddCallback
  <2>2. Pool!Away(j)
    BY <1>6, FreshAway DEF AddCallback
  <2>3. Asleep' = Asleep
    BY <1>6 DEF AddCallback, timerVars, Asleep
  <2>4. Pool!Leave(f, e, j)
    BY <1>2, <1>6, <2>1, <2>2, <2>3 DEF AddCallback, threadVars, Pool!Leave, Pool!Busy
  <2> QED BY <2>4, Moves
<1>7. ASSUME NEW f \in Fds, NEW e \in Events, RemoveEvent(h, f, e) PROVE PoolStep
  <2>1. waiter[f][e] # NoJob /\ waiter' = [waiter EXCEPT ![f][e] = NoJob]
    BY <1>7 DEF RemoveEvent, IOInv, ContextInSync
  <2>2. Asleep' = Asleep
    BY <1>7 DEF RemoveEvent, timerVars, Asleep
  <2>3. Pool!Forget(f, e)
    BY <1>2, <1>7, <2>1, <2>2 DEF RemoveEvent, threadVars, Pool!Forget, Pool!Busy
  <2> QED BY <2>3, Moves
<1>8. ASSUME NEW f \in Fds, NEW e \in Events, CancelEvent(h, f, e) PROVE PoolStep
  <2>1. /\ {e} \in SUBSET events[f] /\ Trigger(f, {e})
        /\ UNCHANGED <<cur, batch, timers>>
    BY <1>8 DEF CancelEvent, threadVars, timerVars
  <2> QED BY <2>1, TriggerAwakens
<1>9. ASSUME NEW f \in Fds, CancelAll(h, f) PROVE PoolStep
  <2>1. /\ events[f] \in SUBSET events[f] /\ Trigger(f, events[f])
        /\ UNCHANGED <<cur, batch, timers>>
    BY <1>9 DEF CancelAll, threadVars, timerVars
  <2> QED BY <2>1, TriggerAwakens
<1>10. ASSUME NEW f \in Fds, NEW e \in Events, Consume(h, f, e) PROVE PoolStep
  BY <1>10, StutterPool DEF Consume, threadVars, ctxVars, timerVars
<1> QED BY <1>1, <1>3, <1>4, <1>5, <1>6, <1>7, <1>8, <1>9, <1>10 DEF JobEnds, JobStep

\* What a thread does in run() and idle().
LEMMA ThreadPool ==
    ASSUME IOInv, PlaceInv, HandsInv, NEW h \in Threads, ThreadStep(h)
    PROVE  PoolStep
<1>0. batch \in [Threads -> SUBSET Jobs] /\ due \subseteq timers /\ queue \in Seq(Jobs)
  BY DEF IOInv, Types
<1>1. CASE TakeTask(h)
  <2>1. Asleep' = Asleep /\ cur[h] = NoJob
    BY <1>1 DEF TakeTask, timerVars, Asleep, HandsInv
  <2>2. Pool!Take(h)
    BY <1>1, <2>1 DEF TakeTask, ctxVars, Pool!Take
  <2> QED BY <2>2, Moves
<1>2. CASE FindNothing(h) \/ EnterIdle(h) \/ AskTimers(h) \/ AskEvents(h) \/ AskTasks(h)
           \/ EpollWait(h) \/ DrainPipe(h) \/ YieldIdle(h)
  <2>1. UNCHANGED <<queue, cur, waiter, batch, timers>>
    BY <1>2 DEF FindNothing, EnterIdle, AskTimers, AskEvents, AskTasks, EpollWait, DrainPipe,
       YieldIdle, Move, threadVars, ctxVars, timerVars
  <2> QED BY <2>1, StutterPool
<1>3. CASE Expire(h)
  <2>1. /\ timers' = timers \ due /\ batch' = [batch EXCEPT ![h] = due]
        /\ UNCHANGED <<queue, cur, waiter>> /\ batch[h] = {}
    BY <1>3 DEF Expire, ctxVars, HandsInv
  <2>2. \A g \in Threads : batch'[g] = IF g = h THEN due ELSE batch[g]
    BY <1>0, <2>1
  <2>3. Asleep' = Asleep
    BY <1>0, <2>1, <2>2 DEF Asleep
  <2> QED BY <2>1, <2>3 DEF PoolStep
<1>4. CASE ScheduleBatch(h)
  <2>1. PICK s \in SetToSeqs(batch[h]) : Schedule(s)
    BY <1>4 DEF ScheduleBatch
  <2>2. /\ batch' = [batch EXCEPT ![h] = {}] /\ UNCHANGED <<cur, waiter, timers>>
        /\ queue' = queue \o s
    BY <1>4, <2>1 DEF ScheduleBatch, ctxVars, Schedule
  <2>3. \A g \in Threads : batch'[g] = IF g = h THEN {} ELSE batch[g]
    BY <1>0, <2>2
  <2>4. Asleep' = Asleep \ batch[h]
    <3>1. \A j \in batch[h] : Batched(j) /\ j \in Jobs
      BY <1>0 DEF Batched
    <3>2. \A j \in batch[h] : j \notin timers /\ \A g \in Threads : j \in batch[g] => g = h
      BY <3>1 DEF PlaceInv, Alone, Apart
    <3> QED BY <2>2, <2>3, <3>2 DEF Asleep
  <2>5. batch[h] \in SUBSET (Asleep \cup Pool!Waiters)
    BY DEF Asleep
  <2>6. waiter \in [Fds -> [Events -> Jobs \cup {NoJob}]]
    BY DEF IOInv, Types
  <2>7. \A g \in Fds, e \in Events : waiter[g][e] \notin batch[h]
    <3>1. \A j \in batch[h] : j \in Jobs /\ Batched(j)
      BY <1>0 DEF Batched
    <3> QED BY <3>1 DEF PlaceInv, Alone, Awaits
  <2> QED BY <2>1, <2>2, <2>4, <2>5, <2>6, <2>7, Awakens
<1>5. ASSUME NEW r \in report[h], ProcessEvent(h, r) PROVE PoolStep
  <2> DEFINE f == r.fd
             real == IF ERR \in r.signals THEN Events ELSE r.signals
  <2>1. f \in Fds
    BY DEF IOInv, Types
  <2>2. UNCHANGED <<cur, batch, timers>>
    BY <1>5 DEF ProcessEvent, timerVars
  <2>3. CASE UNCHANGED <<queue, ctxVars>>
    BY <2>2, <2>3, StutterPool DEF ctxVars
  <2>4. CASE real \subseteq events[f] /\ Trigger(f, real)
    BY <2>1, <2>2, <2>4, TriggerAwakens
  <2> QED BY <1>5, <2>3, <2>4 DEF ProcessEvent
<1> QED BY <1>1, <1>2, <1>3, <1>4, <1>5 DEF ThreadStep

LEMMA NextPool == IOInv /\ PlaceInv /\ HandsInv /\ [Next]_vars => PoolStep
<1> SUFFICES ASSUME IOInv, PlaceInv, HandsInv, [Next]_vars PROVE PoolStep
  OBVIOUS
<1>1. ASSUME NEW j \in Jobs, Submit(j) PROVE PoolStep
  <2>1. Pool!Away(j)
    BY <1>1, FreshAway DEF Submit
  <2>2. queue' = Append(queue, j)
    BY <1>1 DEF Submit, Schedule, IOInv, Types
  <2>3. UNCHANGED <<cur, waiter>> /\ Asleep' = Asleep
    BY <1>1 DEF Submit, threadVars, ctxVars, timerVars, Asleep
  <2>4. Pool!Accept(j)
    BY <2>1, <2>2, <2>3 DEF Pool!Accept
  <2> QED BY <2>4, Moves
<1>2. CASE \/ \E j \in Jobs : ComeDue(j)
           \/ \E u \in Uses : BecomeReady(u[1], u[2])
           \/ \E f \in Fds : Break(f)
           \/ StopCall \/ UNCHANGED vars
  <2>1. UNCHANGED <<queue, cur, waiter, batch, timers>>
    BY <1>2 DEF ComeDue, BecomeReady, Break, StopCall, vars, threadVars, ctxVars, timerVars
  <2> QED BY <2>1, StutterPool
<1> QED BY <1>1, <1>2, JobPool, ThreadPool DEF Next

\* For any threads, jobs and descriptors, and whatever epoll reports, every behaviour of
\* IOManager is one of EventPool.
THEOREM IsEventPool == Spec => ImplementsEventPool
<1>1. Init => Pool!PoolInit
  BY DEF Init, Asleep, Pool!PoolInit
<1>2. IOInv /\ HandsInv /\ [Next]_vars => HandsInv'
  BY HandsNext
<1>3. IOInv /\ PlaceInv /\ [Next]_vars => PlaceInv'
  BY PlaceNext
<1>4. IOInv /\ PlaceInv /\ HandsInv /\ [Next]_vars => [Pool!PoolNext]_Pool!poolVars
  BY NextPool DEF PoolStep, Pool!poolVars
<1> QED BY <1>1, <1>2, <1>3, <1>4, HandsInit, PlaceInit, IOInductive, PTL
        DEF Spec, ImplementsEventPool, Pool!PoolSpec
=============================================================================
