---------------------------- MODULE ServerProofs ----------------------------
(***************************************************************************)
(* Safety of the hooked calls under a server, for any descriptors, users   *)
(* and threads.  ServerInv adds to the checked invariants what a fiber can *)
(* have at each step of a call or of close(), and what the three roles do. *)
(***************************************************************************)
EXTENDS TcpServer, OrderLemmas, FiniteSetTheorems

\* Outside of a call a fiber has none, in a call it has a descriptor, and only a call with
\* a timeout sets a timer.
CallInv ==
    \A f \in Fibers :
        /\ pc[f] \notin {"try", "arm", "add", "parked", "woken"} => call[f] = NoCall
        /\ pc[f] \in {"try", "arm", "add", "parked"} => call[f].op # "none"
        /\ call[f].op # "none" => call[f].fd \in Fds
        /\ pc[f] = "arm" => call[f].timed

\* A sleeping fiber has one timer or one callback.
TimerInv ==
    /\ TimersEndWithCalls
    /\ \A f \in Fibers : pc[f] = "asleep" => f \notin cancelled /\ ~(f \in timers /\ f \in fired)

\* A fiber closes what it owns, a user calls on what it owns, and stop()'s function has the
\* listening socket.
RoleInv ==
    /\ own[acceptor] = NoFd
    /\ pc[closer] \in {"idle", "new", "cancel", "body", "delete", "shut", "clear"}
    /\ own[closer] = IF pc[closer] \in {"idle", "new", "clear"} THEN NoFd ELSE sock
    /\ sock = NoFd => pc[closer] \in {"idle", "new"}
    /\ \A f \in Fibers : pc[f] \in {"delete", "shut"} => own[f] # NoFd
    /\ \A u \in Users : call[u].op # "none" => call[u].fd = own[u]

OwnInv ==
    /\ OwnedOnce
    /\ sock # NoFd /\ pc[closer] # "clear" =>
          sock \in open /\ \A f \in Fibers \ {closer} : own[f] # sock

TableInv ==
    /\ TableMatchesKernel
    /\ \A f \in Fibers : pc[f] = "shut" => own[f] \notin managed

\* Whoever waits on what it owns can be woken.
OwnersCanBeWoken == \A u \in Users : pc[u] = "parked" => call[u].fd \in interest

ServerInv ==
    TypeOK /\ CallInv /\ TimerInv /\ RoleInv /\ OwnInv /\ ParkedIsRegistered /\ OwnersCanBeWoken

LEMMA NewFdFree == FreeFds # {} => NewFd \in Fds \ open
<1> SUFFICES ASSUME FreeFds # {} PROVE NewFd \in Fds \ open
  OBVIOUS
<1>1. FreeFds \subseteq Nat
  BY FdsAssumption DEF FreeFds
<1>2. \E d \in FreeFds : \A x \in FreeFds : d <= x
  BY <1>1, LeastNumber
<1> QED BY <1>2 DEF NewFd, FreeFds

LEMMA Roles ==
    /\ acceptor \in Fibers /\ closer \in Fibers /\ acceptor # closer
    /\ Users \subseteq Fibers /\ acceptor \notin Users /\ closer \notin Users
    /\ \A f \in Fibers : f = acceptor \/ f = closer \/ f \in Users
    /\ NoFiber \notin Fibers /\ NoFd \notin Fds
BY ServerAssumption, UsersAssumption, FibersAssumption, FdsAssumption DEF NoFd

LEMMA SlotOfCall ==
    ASSUME TypeOK, CallInv, NEW f \in Fibers, pc[f] \in {"try", "arm", "add", "parked"}
    PROVE  Slot(f) \in Slots
BY DEF TypeOK, HookTypeOK, Calls, CallInv, Slot, Slots

\* Whoever is woken has waited, and those who wait on are registered.
LEMMA Wakes ==
    ASSUME TypeOK, CallInv, ParkedIsRegistered, NEW S \in SUBSET Slots, call' = call,
           waiter' = [s \in Slots |-> IF s \in S THEN NoFiber ELSE waiter[s]],
           \A g \in Fibers : pc'[g] = "parked" <=> pc[g] = "parked" /\ ~\E s \in S : waiter[s] = g
    PROVE  ParkedIsRegistered'
<1>1. ASSUME NEW f \in Fibers, pc'[f] = "parked" PROVE waiter'[Slot(f)'] = f
  <2>1. pc[f] = "parked" /\ waiter[Slot(f)] = f /\ Slot(f) \notin S
    BY <1>1 DEF ParkedIsRegistered
  <2>2. Slot(f) \in Slots /\ Slot(f)' = Slot(f)
    BY <2>1, SlotOfCall DEF Slot
  <2> QED BY <2>1, <2>2
<1>2. ASSUME NEW s \in Slots, waiter'[s] # NoFiber
      PROVE  (pc[waiter[s]] = "parked" /\ Slot(waiter[s]) = s)'
  <2>1. s \notin S /\ waiter'[s] = waiter[s] /\ waiter[s] # NoFiber
    BY <1>2
  <2>2. pc[waiter[s]] = "parked" /\ Slot(waiter[s]) = s /\ waiter[s] \in Fibers
    BY <2>1 DEF ParkedIsRegistered, TypeOK, HookTypeOK
  <2>3. ~\E r \in S : waiter[r] = waiter[s]
    BY <2>1, <2>2 DEF ParkedIsRegistered
  <2> QED BY <2>1, <2>2, <2>3 DEF Slot
<1> QED BY <1>1, <1>2 DEF ParkedIsRegistered

\* cancelAll() wakes those who wait and moves on.
LEMMA CancelAllWakes ==
    ASSUME TypeOK, CallInv, ParkedIsRegistered, NEW f \in Fibers,
           NEW from \in {"cancel", "body"}, NEW to \in {"body", "delete"}, CancelAll(f, from, to)
    PROVE  /\ pc[f] = from /\ pc'[f] = to /\ own[f] # NoFd
           /\ \A g \in Fibers \ {f} : pc'[g] = pc[g] \/ (pc[g] = "parked" /\ pc'[g] = "woken")
           /\ ParkedIsRegistered'
           /\ call' = call
<1> DEFINE d == own[f]
           S == IF d \in interest THEN Awaited(d) ELSE {}
<1>1. /\ pc[f] = from /\ d # NoFd /\ call' = call
      /\ waiter' = [s \in Slots |-> IF s \in S THEN NoFiber ELSE waiter[s]]
      /\ pc' = [g \in Fibers |-> IF g = f THEN to
                                 ELSE IF \E s \in S : waiter[s] = g THEN "woken" ELSE pc[g]]
  BY DEF CancelAll, TriggerAndGoto
<1>2. S \in SUBSET Slots
  BY DEF Awaited
<1> HIDE DEF S, d
<1>3. \A g \in Fibers : (\E s \in S : waiter[s] = g) => pc[g] = "parked"
  BY <1>2, Roles DEF ParkedIsRegistered
<1>4. \A g \in Fibers : pc'[g] = "parked" <=> pc[g] = "parked" /\ ~\E s \in S : waiter[s] = g
  BY <1>1, <1>3
<1>5. ParkedIsRegistered'
  BY <1>1, <1>2, <1>4, Wakes
<1> QED BY <1>1, <1>3, <1>5 DEF d

\* An event or cancelEvent() wakes who waits for s.
LEMMA TriggerWakes ==
    ASSUME TypeOK, CallInv, ParkedIsRegistered, NEW s \in Slots, Trigger({s}), call' = call
    PROVE  ParkedIsRegistered'
<1>1. /\ waiter' = [r \in Slots |-> IF r \in {s} THEN NoFiber ELSE waiter[r]]
      /\ pc' = [f \in Fibers |-> IF \E r \in {s} : waiter[r] = f THEN "woken" ELSE pc[f]]
  BY DEF Trigger
<1>2. {s} \in SUBSET Slots
  OBVIOUS
<1>3. \A g \in Fibers : pc'[g] = "parked" <=> pc[g] = "parked" /\ ~\E r \in {s} : waiter[r] = g
  BY <1>1
<1> QED BY <1>1, <1>2, <1>3, Wakes

-----------------------------------------------------------------------------
(* Each part of the invariant is kept.                                      *)

LEMMA TypeKept ==
    ASSUME TypeOK, CallInv, [Next]_vars
    PROVE  TypeOK'
<1>1. ASSUME Bind
      PROVE  TypeOK'
  BY <1>1, NewFdFree DEF TypeOK, HookTypeOK, Bind, Opened, callVars, timerVars, epollVars
<1>2. ASSUME Start
      PROVE  TypeOK'
  BY <1>2 DEF TypeOK, HookTypeOK, Labels, Start, Goto, timerVars, tableVars, kernelVars, epollVars
<1>3. ASSUME Stop
      PROVE  TypeOK'
  BY <1>3 DEF TypeOK, HookTypeOK, Labels, Stop, Goto, timerVars, tableVars, kernelVars, epollVars
<1>4. ASSUME NEW f \in Fibers, Dispatch(f)
      PROVE  TypeOK'
  BY <1>4
    DEF TypeOK, HookTypeOK, Labels, Dispatch, Goto, timerVars, tableVars, kernelVars, epollVars,
        serverVars
<1>5. ASSUME LeaveLoop
      PROVE  TypeOK'
  BY <1>5
    DEF TypeOK, HookTypeOK, Labels, LeaveLoop, Goto, timerVars, tableVars, kernelVars,
        epollVars, serverVars
<1>6. ASSUME Accept
      PROVE  TypeOK'
  BY <1>6, Roles
    DEF TypeOK, HookTypeOK, Calls, Labels, Events, Accept, Goto, Begin, timerVars, tableVars,
        kernelVars, epollVars, serverVars
<1>7. ASSUME NEW u \in Users, Accepted(u)
      PROVE  TypeOK'
  BY <1>7, NewFdFree, Roles
    DEF TypeOK, HookTypeOK, Calls, Labels, NoCall, Events, Slots, Accepted, AtAccept, Opened, Back,
        epollVars, serverVars
<1>8. ASSUME AcceptFull
      PROVE  TypeOK'
  BY <1>8
    DEF TypeOK, HookTypeOK, Calls, Labels, NoCall, Events, AcceptFull, Goto, Back, tableVars,
        kernelVars, epollVars, serverVars
<1>9. ASSUME ClearSocks
      PROVE  TypeOK'
  BY <1>9
    DEF TypeOK, HookTypeOK, Labels, ClearSocks, Goto, timerVars, tableVars, kernelVars,
        epollVars
<1>10. ASSUME NEW f \in Fibers, TryEnds(f), UNCHANGED serverVars
      PROVE  TypeOK'
  BY <1>10
    DEF TypeOK, HookTypeOK, Calls, Labels, NoCall, Events, TryEnds, Goto, Back, tableVars,
        kernelVars, epollVars, serverVars
<1>11. ASSUME NEW f \in Fibers, TryAgain(f), UNCHANGED serverVars
      PROVE  TypeOK'
  BY <1>11
    DEF TypeOK, HookTypeOK, Labels, TryAgain, Goto, timerVars, tableVars, kernelVars, epollVars,
        serverVars
<1>12. ASSUME NEW f \in Fibers, Arm(f), UNCHANGED serverVars
      PROVE  TypeOK'
  BY <1>12 DEF TypeOK, HookTypeOK, Labels, Arm, Goto, tableVars, kernelVars, epollVars, serverVars
<1>13. ASSUME NEW f \in Fibers, AddFails(f), UNCHANGED serverVars
      PROVE  TypeOK'
  BY <1>13
    DEF TypeOK, HookTypeOK, Calls, Labels, NoCall, Events, AddFails, Goto, Back, tableVars,
        kernelVars, epollVars, serverVars
<1>14. ASSUME NEW f \in Fibers, Add(f), UNCHANGED serverVars
      PROVE  TypeOK'
  BY <1>14
    DEF TypeOK, HookTypeOK, Calls, Labels, Slot, Slots, CallInv, Add, Goto, timerVars,
        tableVars, kernelVars, serverVars
<1>15. ASSUME NEW f \in Fibers, Check(f), UNCHANGED serverVars
      PROVE  TypeOK'
  <2>1. pc' \in [Fibers -> Labels]
    BY <1>15 DEF TypeOK, HookTypeOK, Labels, Check, Goto
  <2>2. call' \in [Fibers -> Calls]
    <3>1. NoCall \in Calls
      BY Roles DEF NoCall, Calls, Events
    <3>2. call' = call \/ call' = [call EXCEPT ![f] = NoCall]
      BY <1>15 DEF Check, Back
    <3> QED BY <3>1, <3>2 DEF TypeOK, HookTypeOK
  <2>3. cancelled' \subseteq Fibers /\ timers' \subseteq Fibers /\ fired' \subseteq Fibers
    BY <1>15 DEF TypeOK, HookTypeOK, Check, Back
  <2> QED BY <1>15, <2>1, <2>2, <2>3
          DEF TypeOK, HookTypeOK, Check, tableVars, kernelVars, epollVars, serverVars
<1>16. ASSUME NEW f \in Fibers, TimeOut(f), UNCHANGED serverVars
      PROVE  TypeOK'
  <2>1. aimed' \in [Slots -> Nat]
    <3>1. aimed' = aimed \/ aimed' = [aimed EXCEPT ![Slot(f)] = aimed[Slot(f)] + 1]
      BY <1>16 DEF TimeOut
    <3>2. \A s \in Slots : aimed[s] \in Nat
      BY DEF TypeOK, HookTypeOK
    <3>3. aimed' = [s \in Slots |-> aimed'[s]] /\ \A s \in Slots : aimed'[s] \in Nat
      BY <3>1, <3>2 DEF TypeOK, HookTypeOK
    <3> QED BY <3>3
  <2>2. cancelled' \subseteq Fibers /\ fired' \subseteq Fibers
    BY <1>16 DEF TypeOK, HookTypeOK, TimeOut
  <2> QED BY <1>16, <2>1, <2>2
          DEF TypeOK, HookTypeOK, TimeOut, tableVars, kernelVars, epollVars, serverVars
<1>17. ASSUME NEW f \in Fibers, SleepOver(f), UNCHANGED serverVars
      PROVE  TypeOK'
  BY <1>17
    DEF TypeOK, HookTypeOK, Labels, SleepOver, Goto, tableVars, kernelVars, epollVars,
        serverVars
<1>18. ASSUME NEW f \in Fibers, Expire(f), UNCHANGED serverVars
      PROVE  TypeOK'
  BY <1>18 DEF TypeOK, HookTypeOK, Expire, callVars, tableVars, kernelVars, epollVars, serverVars
<1>19. ASSUME NEW f \in Fibers, DeleteFd(f), UNCHANGED serverVars
      PROVE  TypeOK'
  BY <1>19
    DEF TypeOK, HookTypeOK, Labels, DeleteFd, Goto, timerVars, kernelVars, epollVars, serverVars
<1>20. ASSUME NEW u \in Users, NEW e \in Events, Transfer(u, e), UNCHANGED serverVars
      PROVE  TypeOK'
  BY <1>20, Roles
    DEF TypeOK, HookTypeOK, Calls, Labels, Transfer, Goto, Begin, timerVars, tableVars,
        kernelVars, epollVars, serverVars
<1>21. ASSUME NEW u \in Users, NEW e \in Events, SetTimeout(u, e), UNCHANGED serverVars
      PROVE  TypeOK'
  BY <1>21
    DEF TypeOK, HookTypeOK, Slots, SetTimeout, callVars, timerVars, kernelVars, epollVars,
        serverVars
<1>22. ASSUME NEW u \in Users, NEW timed \in BOOLEAN, Connect(u, timed), UNCHANGED serverVars
      PROVE  TypeOK'
  BY <1>22
    DEF TypeOK, HookTypeOK, Calls, Labels, Events, Connect, Goto, Begin, timerVars, tableVars,
        kernelVars, epollVars, serverVars
<1>23. ASSUME NEW u \in Users, NEW mode \in Modes, SetMode(u, mode), UNCHANGED serverVars
      PROVE  TypeOK'
  BY <1>23 DEF TypeOK, HookTypeOK, SetMode, callVars, timerVars, epollVars, serverVars
<1>24. ASSUME NEW u \in Users, Sleep(u), UNCHANGED serverVars
      PROVE  TypeOK'
  BY <1>24, Roles
    DEF TypeOK, HookTypeOK, Labels, Sleep, Goto, tableVars, kernelVars, epollVars, serverVars
<1>25. ASSUME NEW u \in Users, Socket(u), UNCHANGED serverVars
      PROVE  TypeOK'
  BY <1>25, NewFdFree
    DEF TypeOK, HookTypeOK, Labels, Socket, Opened, Goto, timerVars, epollVars, serverVars
<1>26. ASSUME CancelAll(closer, "cancel", "body"), UNCHANGED serverVars
      PROVE  TypeOK'
  BY <1>26
    DEF TypeOK, HookTypeOK, Labels, CancelAll, TriggerAndGoto, timerVars, tableVars, kernelVars,
        serverVars
<1>27. ASSUME NEW f \in Fibers, CancelAll(f, "body", "delete"), UNCHANGED serverVars
      PROVE  TypeOK'
  BY <1>27
    DEF TypeOK, HookTypeOK, Labels, CancelAll, TriggerAndGoto, timerVars, tableVars, kernelVars,
        serverVars
<1>28. ASSUME CloseFd(closer, "clear"), UNCHANGED serverVars
      PROVE  TypeOK'
  BY <1>28 DEF TypeOK, HookTypeOK, Labels, CloseFd, Goto, timerVars, tableVars, serverVars
<1>29. ASSUME NEW u \in Users, CloseFd(u, "idle"), UNCHANGED serverVars
      PROVE  TypeOK'
  BY <1>29 DEF TypeOK, HookTypeOK, Labels, CloseFd, Goto, timerVars, tableVars, serverVars
<1>30. ASSUME NEW s \in Slots, CancelEvent(s), UNCHANGED serverVars
      PROVE  TypeOK'
  BY <1>30
    DEF TypeOK, HookTypeOK, Labels, CancelEvent, Trigger, LeaveEpoll, tableVars, kernelVars,
        epollVars, serverVars
<1>31. ASSUME NEW s \in Slots, Deliver(s), UNCHANGED serverVars
      PROVE  TypeOK'
  BY <1>31
    DEF TypeOK, HookTypeOK, Labels, Deliver, Trigger, LeaveEpoll, timerVars, tableVars,
        kernelVars, serverVars
<1>32. ASSUME UNCHANGED vars
      PROVE  TypeOK'
  BY <1>32
    DEF TypeOK, HookTypeOK, vars, hookVars, callVars, timerVars, tableVars, kernelVars,
        epollVars, serverVars
<1>33. ASSUME StartNothing
      PROVE  TypeOK'
  BY <1>33 DEF TypeOK, HookTypeOK, StartNothing, timerVars, tableVars, kernelVars, epollVars,
      hookVars, callVars
<1>34. ASSUME CloseNothing
      PROVE  TypeOK'
  BY <1>34 DEF TypeOK, HookTypeOK, Labels, CloseNothing, Goto, timerVars, tableVars, kernelVars,
      epollVars, serverVars
<1>35. ASSUME LoopOn
      PROVE  TypeOK'
  BY <1>35 DEF TypeOK, HookTypeOK, Labels, LoopOn, Goto, timerVars, tableVars, kernelVars,
      epollVars, serverVars
<1>36. ASSUME AcceptFails
      PROVE  TypeOK'
  BY <1>36 DEF TypeOK, HookTypeOK, Labels, AcceptFails, Goto, timerVars, tableVars, kernelVars,
      epollVars, serverVars
<1> QED
  BY <1>1, <1>2, <1>3, <1>4, <1>5, <1>6, <1>7, <1>8, <1>9, <1>10, <1>11, <1>12, <1>13, <1>14,
       <1>15, <1>16, <1>17, <1>18, <1>19, <1>20, <1>21, <1>22, <1>23, <1>24, <1>25, <1>26,
       <1>27, <1>28, <1>29, <1>30, <1>31, <1>32, <1>33, <1>34, <1>35, <1>36, Roles
     DEF Next, ServerStep, FiberStep, CallStep, Resume, UserStep, SlotStep, CancelSock

LEMMA CallKept ==
    ASSUME TypeOK, CallInv, RoleInv, ParkedIsRegistered, [Next]_vars
    PROVE  CallInv'
<1>1. ASSUME Bind
      PROVE  CallInv'
  BY <1>1 DEF CallInv, Bind, callVars
<1>2. ASSUME Start
      PROVE  CallInv'
  BY <1>2 DEF CallInv, Start, Goto
<1>3. ASSUME Stop
      PROVE  CallInv'
  BY <1>3 DEF CallInv, RoleInv, Stop, Goto
<1>4. ASSUME NEW f \in Fibers, Dispatch(f)
      PROVE  CallInv'
  BY <1>4 DEF CallInv, Dispatch, Goto
<1>5. ASSUME LeaveLoop
      PROVE  CallInv'
  BY <1>5 DEF CallInv, LeaveLoop, Goto
<1>6. ASSUME Accept
      PROVE  CallInv'
  BY <1>6 DEF CallInv, TypeOK, HookTypeOK, Accept, Goto, Begin, Hooked
<1>7. ASSUME NEW u \in Users, Accepted(u)
      PROVE  CallInv'
  BY <1>7, Roles DEF CallInv, TypeOK, HookTypeOK, Accepted, AtAccept, Back, epollVars, serverVars
<1>8. ASSUME AcceptFull
      PROVE  CallInv'
  BY <1>8 DEF CallInv, NoCall, TypeOK, HookTypeOK, AcceptFull, Goto, Back
<1>9. ASSUME ClearSocks
      PROVE  CallInv'
  BY <1>9 DEF CallInv, ClearSocks, Goto
<1>10. ASSUME NEW f \in Fibers, TryEnds(f), UNCHANGED serverVars
      PROVE  CallInv'
  BY <1>10 DEF CallInv, NoCall, TypeOK, HookTypeOK, TryEnds, Goto, Back
<1>11. ASSUME NEW f \in Fibers, TryAgain(f), UNCHANGED serverVars
      PROVE  CallInv'
  BY <1>11 DEF CallInv, TryAgain, Goto
<1>12. ASSUME NEW f \in Fibers, Arm(f), UNCHANGED serverVars
      PROVE  CallInv'
  BY <1>12 DEF CallInv, Arm, Goto
<1>13. ASSUME NEW f \in Fibers, AddFails(f), UNCHANGED serverVars
      PROVE  CallInv'
  BY <1>13 DEF CallInv, NoCall, TypeOK, HookTypeOK, AddFails, Goto, Back
<1>14. ASSUME NEW f \in Fibers, Add(f), UNCHANGED serverVars
      PROVE  CallInv'
  BY <1>14 DEF CallInv, Add, Goto
<1>15. ASSUME NEW f \in Fibers, Check(f), UNCHANGED serverVars
      PROVE  CallInv'
  <2>1. CASE Back(f) /\ Goto(f, "body")
    BY <1>15, <2>1 DEF CallInv, NoCall, TypeOK, HookTypeOK, Back, Goto
  <2>2. CASE Goto(f, "try") /\ call' = call /\ call[f].op # "none"
    BY <1>15, <2>2 DEF CallInv, Goto
  <2>3. (Back(f) /\ Goto(f, "body")) \/ (Goto(f, "try") /\ call' = call /\ call[f].op # "none")
    BY <1>15 DEF Check
  <2> QED BY <2>1, <2>2, <2>3
<1>16. ASSUME NEW f \in Fibers, TimeOut(f), UNCHANGED serverVars
      PROVE  CallInv'
  BY <1>16 DEF CallInv, TimeOut
<1>17. ASSUME NEW f \in Fibers, SleepOver(f), UNCHANGED serverVars
      PROVE  CallInv'
  BY <1>17 DEF CallInv, SleepOver, Goto
<1>18. ASSUME NEW f \in Fibers, Expire(f), UNCHANGED serverVars
      PROVE  CallInv'
  BY <1>18 DEF CallInv, Expire, callVars
<1>19. ASSUME NEW f \in Fibers, DeleteFd(f), UNCHANGED serverVars
      PROVE  CallInv'
  BY <1>19 DEF CallInv, DeleteFd, Goto
<1>20. ASSUME NEW u \in Users, NEW e \in Events, Transfer(u, e), UNCHANGED serverVars
      PROVE  CallInv'
  BY <1>20 DEF CallInv, TypeOK, HookTypeOK, Transfer, Goto, Begin
<1>21. ASSUME NEW u \in Users, NEW e \in Events, SetTimeout(u, e), UNCHANGED serverVars
      PROVE  CallInv'
  BY <1>21 DEF CallInv, SetTimeout, callVars
<1>22. ASSUME NEW u \in Users, NEW timed \in BOOLEAN, Connect(u, timed), UNCHANGED serverVars
      PROVE  CallInv'
  BY <1>22 DEF CallInv, TypeOK, HookTypeOK, Connect, Goto, Begin
<1>23. ASSUME NEW u \in Users, NEW mode \in Modes, SetMode(u, mode), UNCHANGED serverVars
      PROVE  CallInv'
  BY <1>23 DEF CallInv, SetMode, callVars
<1>24. ASSUME NEW u \in Users, Sleep(u), UNCHANGED serverVars
      PROVE  CallInv'
  BY <1>24 DEF CallInv, Sleep, Goto
<1>25. ASSUME NEW u \in Users, Socket(u), UNCHANGED serverVars
      PROVE  CallInv'
  BY <1>25 DEF CallInv, Socket, Goto
<1>26. ASSUME CancelAll(closer, "cancel", "body"), UNCHANGED serverVars
      PROVE  CallInv'
  BY <1>26, CancelAllWakes, Roles DEF CallInv, CancelAll
<1>27. ASSUME NEW f \in Fibers, CancelAll(f, "body", "delete"), UNCHANGED serverVars
      PROVE  CallInv'
  BY <1>27, CancelAllWakes DEF CallInv, CancelAll
<1>28. ASSUME CloseFd(closer, "clear"), UNCHANGED serverVars
      PROVE  CallInv'
  BY <1>28 DEF CallInv, CloseFd, Goto
<1>29. ASSUME NEW u \in Users, CloseFd(u, "idle"), UNCHANGED serverVars
      PROVE  CallInv'
  BY <1>29 DEF CallInv, CloseFd, Goto
<1>30. ASSUME NEW s \in Slots, CancelEvent(s), UNCHANGED serverVars
      PROVE  CallInv'
  BY <1>30 DEF CallInv, CancelEvent, Trigger, LeaveEpoll
<1>31. ASSUME NEW s \in Slots, Deliver(s), UNCHANGED serverVars
      PROVE  CallInv'
  BY <1>31 DEF CallInv, Deliver, Trigger, LeaveEpoll
<1>32. ASSUME UNCHANGED vars
      PROVE  CallInv'
  BY <1>32 DEF CallInv, vars, hookVars, callVars
<1>33. ASSUME StartNothing
      PROVE  CallInv'
  BY <1>33 DEF CallInv, StartNothing, hookVars, callVars, timerVars, tableVars, kernelVars,
      epollVars
<1>34. ASSUME CloseNothing
      PROVE  CallInv'
  BY <1>34 DEF CallInv, CloseNothing, Goto
<1>35. ASSUME LoopOn
      PROVE  CallInv'
  BY <1>35 DEF CallInv, LoopOn, Goto
<1>36. ASSUME AcceptFails
      PROVE  CallInv'
  BY <1>36 DEF CallInv, AcceptFails, Goto
<1> QED
  BY <1>1, <1>2, <1>3, <1>4, <1>5, <1>6, <1>7, <1>8, <1>9, <1>10, <1>11, <1>12, <1>13, <1>14,
       <1>15, <1>16, <1>17, <1>18, <1>19, <1>20, <1>21, <1>22, <1>23, <1>24, <1>25, <1>26,
       <1>27, <1>28, <1>29, <1>30, <1>31, <1>32, <1>33, <1>34, <1>35, <1>36, Roles
     DEF Next, ServerStep, FiberStep, CallStep, Resume, UserStep, SlotStep, CancelSock

LEMMA ParkedKept ==
    ASSUME TypeOK, CallInv, RoleInv, ParkedIsRegistered, [Next]_vars
    PROVE  ParkedIsRegistered'
<1>1. ASSUME Bind
      PROVE  ParkedIsRegistered'
  BY <1>1 DEF ParkedIsRegistered, Slot, Bind, callVars, epollVars
<1>2. ASSUME Start
      PROVE  ParkedIsRegistered'
  BY <1>2 DEF ParkedIsRegistered, Slot, Start, Goto, epollVars
<1>3. ASSUME Stop
      PROVE  ParkedIsRegistered'
  BY <1>3 DEF ParkedIsRegistered, RoleInv, Slot, Stop, Goto, epollVars
<1>4. ASSUME NEW f \in Fibers, Dispatch(f)
      PROVE  ParkedIsRegistered'
  BY <1>4 DEF ParkedIsRegistered, Slot, Dispatch, Goto, epollVars
<1>5. ASSUME LeaveLoop
      PROVE  ParkedIsRegistered'
  BY <1>5 DEF ParkedIsRegistered, Slot, LeaveLoop, Goto, epollVars
<1>6. ASSUME Accept
      PROVE  ParkedIsRegistered'
  BY <1>6 DEF ParkedIsRegistered, Slot, Accept, Goto, Begin, epollVars
<1>7. ASSUME NEW u \in Users, Accepted(u)
      PROVE  ParkedIsRegistered'
  BY <1>7 DEF ParkedIsRegistered, Slot, TypeOK, HookTypeOK, Accepted, AtAccept, Back, epollVars
<1>8. ASSUME AcceptFull
      PROVE  ParkedIsRegistered'
  BY <1>8 DEF ParkedIsRegistered, Slot, AcceptFull, Goto, Back, epollVars
<1>9. ASSUME ClearSocks
      PROVE  ParkedIsRegistered'
  BY <1>9 DEF ParkedIsRegistered, Slot, ClearSocks, Goto, epollVars
<1>10. ASSUME NEW f \in Fibers, TryEnds(f), UNCHANGED serverVars
      PROVE  ParkedIsRegistered'
  BY <1>10 DEF ParkedIsRegistered, Slot, TryEnds, Goto, Back, epollVars
<1>11. ASSUME NEW f \in Fibers, TryAgain(f), UNCHANGED serverVars
      PROVE  ParkedIsRegistered'
  BY <1>11 DEF ParkedIsRegistered, Slot, TryAgain, Goto, epollVars
<1>12. ASSUME NEW f \in Fibers, Arm(f), UNCHANGED serverVars
      PROVE  ParkedIsRegistered'
  BY <1>12 DEF ParkedIsRegistered, Slot, Arm, Goto, epollVars
<1>13. ASSUME NEW f \in Fibers, AddFails(f), UNCHANGED serverVars
      PROVE  ParkedIsRegistered'
  BY <1>13 DEF ParkedIsRegistered, Slot, AddFails, Goto, Back, epollVars
<1>14. ASSUME NEW f \in Fibers, Add(f), UNCHANGED serverVars
      PROVE  ParkedIsRegistered'
  <2>1. /\ waiter' = [waiter EXCEPT ![Slot(f)] = f] /\ pc' = [pc EXCEPT ![f] = "parked"]
        /\ waiter[Slot(f)] = NoFiber /\ pc[f] = "add" /\ call' = call
    BY <1>14 DEF Add, Goto, Refused
  <2>2. Slot(f) \in Slots /\ \A g : Slot(g)' = Slot(g)
    BY <2>1, SlotOfCall DEF Slot
  <2>3. ASSUME NEW g \in Fibers, pc'[g] = "parked" PROVE waiter'[Slot(g)'] = g
    <3>1. CASE g = f
      BY <2>1, <2>2, <3>1 DEF TypeOK, HookTypeOK
    <3>2. CASE g # f
      <4>1. pc[g] = "parked" /\ waiter[Slot(g)] = g /\ g # NoFiber
        BY <2>1, <2>3, <3>2, Roles DEF ParkedIsRegistered
      <4>2. Slot(g) \in Slots /\ Slot(g) # Slot(f)
        BY <2>1, <4>1, SlotOfCall
      <4> QED BY <2>1, <2>2, <4>1, <4>2 DEF TypeOK, HookTypeOK
    <3> QED BY <3>1, <3>2
  <2>4. ASSUME NEW s \in Slots, waiter'[s] # NoFiber
        PROVE  (pc[waiter[s]] = "parked" /\ Slot(waiter[s]) = s)'
    <3>1. CASE s = Slot(f)
      <4>1. waiter'[s] = f /\ pc'[f] = "parked"
        BY <2>1, <2>2, <3>1 DEF TypeOK, HookTypeOK
      <4> QED BY <2>1, <3>1, <4>1 DEF Slot
    <3>2. CASE s # Slot(f)
      <4>1. waiter'[s] = waiter[s] /\ waiter[s] \in Fibers
        BY <2>1, <2>4, <3>2 DEF TypeOK, HookTypeOK
      <4>2. pc[waiter[s]] = "parked" /\ Slot(waiter[s]) = s
        BY <2>4, <4>1 DEF ParkedIsRegistered
      <4>3. waiter[s] # f /\ pc'[waiter[s]] = pc[waiter[s]]
        BY <2>1, <4>1, <4>2
      <4> QED BY <2>1, <4>1, <4>2, <4>3 DEF Slot
    <3> QED BY <3>1, <3>2
  <2> QED BY <2>3, <2>4 DEF ParkedIsRegistered
<1>15. ASSUME NEW f \in Fibers, Check(f), UNCHANGED serverVars
      PROVE  ParkedIsRegistered'
  BY <1>15 DEF ParkedIsRegistered, Slot, TypeOK, HookTypeOK, Check, Goto, Back, epollVars
<1>16. ASSUME NEW f \in Fibers, TimeOut(f), UNCHANGED serverVars
      PROVE  ParkedIsRegistered'
  BY <1>16 DEF ParkedIsRegistered, Slot, TimeOut, epollVars
<1>17. ASSUME NEW f \in Fibers, SleepOver(f), UNCHANGED serverVars
      PROVE  ParkedIsRegistered'
  BY <1>17 DEF ParkedIsRegistered, Slot, SleepOver, Goto, epollVars
<1>18. ASSUME NEW f \in Fibers, Expire(f), UNCHANGED serverVars
      PROVE  ParkedIsRegistered'
  BY <1>18 DEF ParkedIsRegistered, Slot, Expire, callVars, epollVars
<1>19. ASSUME NEW f \in Fibers, DeleteFd(f), UNCHANGED serverVars
      PROVE  ParkedIsRegistered'
  BY <1>19 DEF ParkedIsRegistered, Slot, DeleteFd, Goto, epollVars
<1>20. ASSUME NEW u \in Users, NEW e \in Events, Transfer(u, e), UNCHANGED serverVars
      PROVE  ParkedIsRegistered'
  BY <1>20 DEF ParkedIsRegistered, Slot, Transfer, Goto, Begin, epollVars
<1>21. ASSUME NEW u \in Users, NEW e \in Events, SetTimeout(u, e), UNCHANGED serverVars
      PROVE  ParkedIsRegistered'
  BY <1>21 DEF ParkedIsRegistered, Slot, SetTimeout, callVars, epollVars
<1>22. ASSUME NEW u \in Users, NEW timed \in BOOLEAN, Connect(u, timed), UNCHANGED serverVars
      PROVE  ParkedIsRegistered'
  BY <1>22 DEF ParkedIsRegistered, Slot, Connect, Goto, Begin, epollVars
<1>23. ASSUME NEW u \in Users, NEW mode \in Modes, SetMode(u, mode), UNCHANGED serverVars
      PROVE  ParkedIsRegistered'
  BY <1>23 DEF ParkedIsRegistered, Slot, SetMode, callVars, epollVars
<1>24. ASSUME NEW u \in Users, Sleep(u), UNCHANGED serverVars
      PROVE  ParkedIsRegistered'
  BY <1>24 DEF ParkedIsRegistered, Slot, Sleep, Goto, epollVars
<1>25. ASSUME NEW u \in Users, Socket(u), UNCHANGED serverVars
      PROVE  ParkedIsRegistered'
  BY <1>25 DEF ParkedIsRegistered, Slot, Socket, Goto, epollVars
<1>26. ASSUME CancelAll(closer, "cancel", "body"), UNCHANGED serverVars
      PROVE  ParkedIsRegistered'
  BY <1>26, CancelAllWakes, Roles
<1>27. ASSUME NEW f \in Fibers, CancelAll(f, "body", "delete"), UNCHANGED serverVars
      PROVE  ParkedIsRegistered'
  BY <1>27, CancelAllWakes
<1>28. ASSUME CloseFd(closer, "clear"), UNCHANGED serverVars
      PROVE  ParkedIsRegistered'
  BY <1>28 DEF ParkedIsRegistered, Slot, CloseFd, Goto
<1>29. ASSUME NEW u \in Users, CloseFd(u, "idle"), UNCHANGED serverVars
      PROVE  ParkedIsRegistered'
  BY <1>29 DEF ParkedIsRegistered, Slot, CloseFd, Goto
<1>30. ASSUME NEW s \in Slots, CancelEvent(s), UNCHANGED serverVars
      PROVE  ParkedIsRegistered'
  <2>1. CASE Trigger({s})
    BY <1>30, <2>1, TriggerWakes DEF CancelEvent
  <2>2. CASE UNCHANGED <<pc, epollVars>>
    BY <1>30, <2>2 DEF CancelEvent, ParkedIsRegistered, Slot, epollVars
  <2> QED BY <1>30, <2>1, <2>2 DEF CancelEvent
<1>31. ASSUME NEW s \in Slots, Deliver(s), UNCHANGED serverVars
      PROVE  ParkedIsRegistered'
  BY <1>31, TriggerWakes DEF Deliver
<1>32. ASSUME UNCHANGED vars
      PROVE  ParkedIsRegistered'
  BY <1>32 DEF ParkedIsRegistered, Slot, vars, hookVars, callVars, epollVars
<1>33. ASSUME StartNothing
      PROVE  ParkedIsRegistered'
  BY <1>33 DEF ParkedIsRegistered, Slot, StartNothing, epollVars, hookVars, callVars, timerVars,
      tableVars, kernelVars
<1>34. ASSUME CloseNothing
      PROVE  ParkedIsRegistered'
  BY <1>34 DEF ParkedIsRegistered, Slot, CloseNothing, Goto, epollVars
<1>35. ASSUME LoopOn
      PROVE  ParkedIsRegistered'
  BY <1>35 DEF ParkedIsRegistered, Slot, LoopOn, Goto, epollVars
<1>36. ASSUME AcceptFails
      PROVE  ParkedIsRegistered'
  BY <1>36 DEF ParkedIsRegistered, Slot, AcceptFails, Goto, epollVars
<1> QED
  BY <1>1, <1>2, <1>3, <1>4, <1>5, <1>6, <1>7, <1>8, <1>9, <1>10, <1>11, <1>12, <1>13, <1>14,
       <1>15, <1>16, <1>17, <1>18, <1>19, <1>20, <1>21, <1>22, <1>23, <1>24, <1>25, <1>26,
       <1>27, <1>28, <1>29, <1>30, <1>31, <1>32, <1>33, <1>34, <1>35, <1>36, Roles
     DEF Next, ServerStep, FiberStep, CallStep, Resume, UserStep, SlotStep, CancelSock

LEMMA TimerKept ==
    ASSUME TypeOK, CallInv, RoleInv, ParkedIsRegistered, TimerInv, [Next]_vars
    PROVE  TimerInv'
<1>1. ASSUME Bind
      PROVE  TimerInv'
  BY <1>1 DEF TimerInv, TimersEndWithCalls, Bind, callVars, timerVars
<1>2. ASSUME Start
      PROVE  TimerInv'
  BY <1>2 DEF TimerInv, TimersEndWithCalls, Start, Goto, timerVars
<1>3. ASSUME Stop
      PROVE  TimerInv'
  BY <1>3 DEF TimerInv, RoleInv, TimersEndWithCalls, Stop, Goto, timerVars
<1>4. ASSUME NEW f \in Fibers, Dispatch(f)
      PROVE  TimerInv'
  BY <1>4 DEF TimerInv, TimersEndWithCalls, Dispatch, Goto, timerVars
<1>5. ASSUME LeaveLoop
      PROVE  TimerInv'
  BY <1>5 DEF TimerInv, TimersEndWithCalls, LeaveLoop, Goto, timerVars
<1>6. ASSUME Accept
      PROVE  TimerInv'
  BY <1>6
    DEF TimerInv, TimersEndWithCalls, CallInv, NoCall, TypeOK, HookTypeOK, Accept, Goto, Begin,
        timerVars
<1>7. ASSUME NEW u \in Users, Accepted(u)
      PROVE  TimerInv'
  BY <1>7 DEF TimerInv, TimersEndWithCalls, TypeOK, HookTypeOK, Accepted, AtAccept, Back
<1>8. ASSUME AcceptFull
      PROVE  TimerInv'
  BY <1>8 DEF TimerInv, TimersEndWithCalls, AcceptFull, Goto, Back
<1>9. ASSUME ClearSocks
      PROVE  TimerInv'
  BY <1>9 DEF TimerInv, TimersEndWithCalls, ClearSocks, Goto, timerVars
<1>10. ASSUME NEW f \in Fibers, TryEnds(f), UNCHANGED serverVars
      PROVE  TimerInv'
  BY <1>10 DEF TimerInv, TimersEndWithCalls, TryEnds, Goto, Back
<1>11. ASSUME NEW f \in Fibers, TryAgain(f), UNCHANGED serverVars
      PROVE  TimerInv'
  BY <1>11 DEF TimerInv, TimersEndWithCalls, TryAgain, Goto, timerVars
<1>12. ASSUME NEW f \in Fibers, Arm(f), UNCHANGED serverVars
      PROVE  TimerInv'
  BY <1>12 DEF TimerInv, TimersEndWithCalls, CallInv, TypeOK, HookTypeOK, Arm, Goto
<1>13. ASSUME NEW f \in Fibers, AddFails(f), UNCHANGED serverVars
      PROVE  TimerInv'
  BY <1>13 DEF TimerInv, TimersEndWithCalls, AddFails, Goto, Back
<1>14. ASSUME NEW f \in Fibers, Add(f), UNCHANGED serverVars
      PROVE  TimerInv'
  BY <1>14 DEF TimerInv, TimersEndWithCalls, Add, Goto, timerVars
<1>15. ASSUME NEW f \in Fibers, Check(f), UNCHANGED serverVars
      PROVE  TimerInv'
  BY <1>15 DEF TimerInv, TimersEndWithCalls, TypeOK, HookTypeOK, Check, Goto, Back
<1>16. ASSUME NEW f \in Fibers, TimeOut(f), UNCHANGED serverVars
      PROVE  TimerInv'
  BY <1>16 DEF TimerInv, TimersEndWithCalls, TimeOut
<1>17. ASSUME NEW f \in Fibers, SleepOver(f), UNCHANGED serverVars
      PROVE  TimerInv'
  BY <1>17 DEF TimerInv, TimersEndWithCalls, SleepOver, Goto
<1>18. ASSUME NEW f \in Fibers, Expire(f), UNCHANGED serverVars
      PROVE  TimerInv'
  BY <1>18 DEF TimerInv, TimersEndWithCalls, Expire, callVars
<1>19. ASSUME NEW f \in Fibers, DeleteFd(f), UNCHANGED serverVars
      PROVE  TimerInv'
  BY <1>19 DEF TimerInv, TimersEndWithCalls, DeleteFd, Goto, timerVars
<1>20. ASSUME NEW u \in Users, NEW e \in Events, Transfer(u, e), UNCHANGED serverVars
      PROVE  TimerInv'
  BY <1>20
    DEF TimerInv, TimersEndWithCalls, CallInv, NoCall, TypeOK, HookTypeOK, Transfer, Goto,
        Begin, timerVars
<1>21. ASSUME NEW u \in Users, NEW e \in Events, SetTimeout(u, e), UNCHANGED serverVars
      PROVE  TimerInv'
  BY <1>21 DEF TimerInv, TimersEndWithCalls, SetTimeout, callVars, timerVars
<1>22. ASSUME NEW u \in Users, NEW timed \in BOOLEAN, Connect(u, timed), UNCHANGED serverVars
      PROVE  TimerInv'
  BY <1>22
    DEF TimerInv, TimersEndWithCalls, CallInv, NoCall, TypeOK, HookTypeOK, Connect, Goto, Begin,
        timerVars
<1>23. ASSUME NEW u \in Users, NEW mode \in Modes, SetMode(u, mode), UNCHANGED serverVars
      PROVE  TimerInv'
  BY <1>23 DEF TimerInv, TimersEndWithCalls, SetMode, callVars, timerVars
<1>24. ASSUME NEW u \in Users, Sleep(u), UNCHANGED serverVars
      PROVE  TimerInv'
  BY <1>24, Roles
    DEF TimerInv, TimersEndWithCalls, CallInv, NoCall, TypeOK, HookTypeOK, Sleep, Goto
<1>25. ASSUME NEW u \in Users, Socket(u), UNCHANGED serverVars
      PROVE  TimerInv'
  BY <1>25 DEF TimerInv, TimersEndWithCalls, Socket, Goto, timerVars
<1>26. ASSUME CancelAll(closer, "cancel", "body"), UNCHANGED serverVars
      PROVE  TimerInv'
  BY <1>26, CancelAllWakes, Roles
    DEF TimerInv, TimersEndWithCalls, TypeOK, HookTypeOK, CancelAll, timerVars
<1>27. ASSUME NEW f \in Fibers, CancelAll(f, "body", "delete"), UNCHANGED serverVars
      PROVE  TimerInv'
  BY <1>27, CancelAllWakes
    DEF TimerInv, TimersEndWithCalls, TypeOK, HookTypeOK, CancelAll, timerVars
<1>28. ASSUME CloseFd(closer, "clear"), UNCHANGED serverVars
      PROVE  TimerInv'
  BY <1>28 DEF TimerInv, TimersEndWithCalls, CloseFd, Goto, timerVars
<1>29. ASSUME NEW u \in Users, CloseFd(u, "idle"), UNCHANGED serverVars
      PROVE  TimerInv'
  BY <1>29 DEF TimerInv, TimersEndWithCalls, CloseFd, Goto, timerVars
<1>30. ASSUME NEW s \in Slots, CancelEvent(s), UNCHANGED serverVars
      PROVE  TimerInv'
  BY <1>30
    DEF TimerInv, TimersEndWithCalls, ParkedIsRegistered, TypeOK, HookTypeOK, CancelEvent,
        Trigger, LeaveEpoll
<1>31. ASSUME NEW s \in Slots, Deliver(s), UNCHANGED serverVars
      PROVE  TimerInv'
  BY <1>31
    DEF TimerInv, TimersEndWithCalls, ParkedIsRegistered, TypeOK, HookTypeOK, Deliver, Trigger,
        LeaveEpoll, timerVars
<1>32. ASSUME UNCHANGED vars
      PROVE  TimerInv'
  BY <1>32 DEF TimerInv, TimersEndWithCalls, vars, hookVars, callVars, timerVars
<1>33. ASSUME StartNothing
      PROVE  TimerInv'
  BY <1>33 DEF TimerInv, TimersEndWithCalls, StartNothing, timerVars, hookVars, callVars,
      tableVars, kernelVars, epollVars
<1>34. ASSUME CloseNothing
      PROVE  TimerInv'
  BY <1>34 DEF TimerInv, TimersEndWithCalls, CloseNothing, Goto, timerVars
<1>35. ASSUME LoopOn
      PROVE  TimerInv'
  BY <1>35 DEF TimerInv, TimersEndWithCalls, LoopOn, Goto, timerVars
<1>36. ASSUME AcceptFails
      PROVE  TimerInv'
  BY <1>36 DEF TimerInv, TimersEndWithCalls, AcceptFails, Goto, timerVars
<1> QED
  BY <1>1, <1>2, <1>3, <1>4, <1>5, <1>6, <1>7, <1>8, <1>9, <1>10, <1>11, <1>12, <1>13, <1>14,
       <1>15, <1>16, <1>17, <1>18, <1>19, <1>20, <1>21, <1>22, <1>23, <1>24, <1>25, <1>26,
       <1>27, <1>28, <1>29, <1>30, <1>31, <1>32, <1>33, <1>34, <1>35, <1>36, Roles
     DEF Next, ServerStep, FiberStep, CallStep, Resume, UserStep, SlotStep, CancelSock

LEMMA RoleKept ==
    ASSUME TypeOK, CallInv, ParkedIsRegistered, RoleInv, [Next]_vars
    PROVE  RoleInv'
<1>1. ASSUME Bind
      PROVE  RoleInv'
  BY <1>1 DEF RoleInv, Bind, callVars
<1>2. ASSUME Start
      PROVE  RoleInv'
  BY <1>2, Roles DEF RoleInv, Start, Goto
<1>3. ASSUME Stop
      PROVE  RoleInv'
  BY <1>3 DEF RoleInv, Stop, Goto
<1>4. ASSUME NEW f \in Fibers, Dispatch(f)
      PROVE  RoleInv'
  BY <1>4, Roles DEF RoleInv, TypeOK, HookTypeOK, Dispatch, Goto, serverVars
<1>5. ASSUME LeaveLoop
      PROVE  RoleInv'
  BY <1>5, Roles DEF RoleInv, TypeOK, HookTypeOK, LeaveLoop, Goto, serverVars
<1>6. ASSUME Accept
      PROVE  RoleInv'
  BY <1>6, Roles DEF RoleInv, TypeOK, HookTypeOK, Accept, Goto, Begin, serverVars
<1>7. ASSUME NEW u \in Users, Accepted(u)
      PROVE  RoleInv'
  BY <1>7, Roles DEF RoleInv, CallInv, NoCall, TypeOK, HookTypeOK, Accepted, AtAccept, Back, serverVars
<1>8. ASSUME AcceptFull
      PROVE  RoleInv'
  BY <1>8, Roles DEF RoleInv, AcceptFull, Goto, Back, serverVars
<1>9. ASSUME ClearSocks
      PROVE  RoleInv'
  BY <1>9, Roles DEF RoleInv, TypeOK, HookTypeOK, ClearSocks, Goto
<1>10. ASSUME NEW f \in Fibers, TryEnds(f), UNCHANGED serverVars
      PROVE  RoleInv'
  BY <1>10 DEF RoleInv, NoCall, TryEnds, Goto, Back, serverVars
<1>11. ASSUME NEW f \in Fibers, TryAgain(f), UNCHANGED serverVars
      PROVE  RoleInv'
  BY <1>11 DEF RoleInv, TryAgain, Goto, serverVars
<1>12. ASSUME NEW f \in Fibers, Arm(f), UNCHANGED serverVars
      PROVE  RoleInv'
  BY <1>12 DEF RoleInv, Arm, Goto, serverVars
<1>13. ASSUME NEW f \in Fibers, AddFails(f), UNCHANGED serverVars
      PROVE  RoleInv'
  BY <1>13 DEF RoleInv, NoCall, AddFails, Goto, Back, serverVars
<1>14. ASSUME NEW f \in Fibers, Add(f), UNCHANGED serverVars
      PROVE  RoleInv'
  BY <1>14 DEF RoleInv, Add, Goto, serverVars
<1>15. ASSUME NEW f \in Fibers, Check(f), UNCHANGED serverVars
      PROVE  RoleInv'
  BY <1>15, Roles DEF RoleInv, NoCall, TypeOK, HookTypeOK, Check, Goto, Back, serverVars
<1>16. ASSUME NEW f \in Fibers, TimeOut(f), UNCHANGED serverVars
      PROVE  RoleInv'
  BY <1>16 DEF RoleInv, TimeOut, serverVars
<1>17. ASSUME NEW f \in Fibers, SleepOver(f), UNCHANGED serverVars
      PROVE  RoleInv'
  BY <1>17 DEF RoleInv, SleepOver, Goto, serverVars
<1>18. ASSUME NEW f \in Fibers, Expire(f), UNCHANGED serverVars
      PROVE  RoleInv'
  BY <1>18 DEF RoleInv, Expire, callVars, serverVars
<1>19. ASSUME NEW f \in Fibers, DeleteFd(f), UNCHANGED serverVars
      PROVE  RoleInv'
  BY <1>19 DEF RoleInv, DeleteFd, Goto, serverVars
<1>20. ASSUME NEW u \in Users, NEW e \in Events, Transfer(u, e), UNCHANGED serverVars
      PROVE  RoleInv'
  BY <1>20, Roles DEF RoleInv, Transfer, Goto, Begin, serverVars
<1>21. ASSUME NEW u \in Users, NEW e \in Events, SetTimeout(u, e), UNCHANGED serverVars
      PROVE  RoleInv'
  BY <1>21 DEF RoleInv, SetTimeout, callVars, serverVars
<1>22. ASSUME NEW u \in Users, NEW timed \in BOOLEAN, Connect(u, timed), UNCHANGED serverVars
      PROVE  RoleInv'
  BY <1>22, Roles DEF RoleInv, Connect, Goto, Begin, serverVars
<1>23. ASSUME NEW u \in Users, NEW mode \in Modes, SetMode(u, mode), UNCHANGED serverVars
      PROVE  RoleInv'
  BY <1>23 DEF RoleInv, SetMode, callVars, serverVars
<1>24. ASSUME NEW u \in Users, Sleep(u), UNCHANGED serverVars
      PROVE  RoleInv'
  BY <1>24, Roles DEF RoleInv, Sleep, Goto, serverVars
<1>25. ASSUME NEW u \in Users, Socket(u), UNCHANGED serverVars
      PROVE  RoleInv'
  BY <1>25, Roles DEF RoleInv, CallInv, Socket, Goto, serverVars
<1>26. ASSUME CancelAll(closer, "cancel", "body"), UNCHANGED serverVars
      PROVE  RoleInv'
  BY <1>26, CancelAllWakes, Roles DEF RoleInv, CancelAll, serverVars
<1>27. ASSUME NEW f \in Fibers, CancelAll(f, "body", "delete"), UNCHANGED serverVars
      PROVE  RoleInv'
  BY <1>27, CancelAllWakes, Roles DEF RoleInv, CancelAll, serverVars
<1>28. ASSUME CloseFd(closer, "clear"), UNCHANGED serverVars
      PROVE  RoleInv'
  BY <1>28, Roles DEF RoleInv, TypeOK, HookTypeOK, CloseFd, Goto, serverVars
<1>29. ASSUME NEW u \in Users, CloseFd(u, "idle"), UNCHANGED serverVars
      PROVE  RoleInv'
  BY <1>29 DEF RoleInv, CallInv, NoCall, TypeOK, HookTypeOK, CloseFd, Goto, serverVars
<1>30. ASSUME NEW s \in Slots, CancelEvent(s), UNCHANGED serverVars
      PROVE  RoleInv'
  BY <1>30, Roles DEF RoleInv, ParkedIsRegistered, CancelEvent, Trigger, LeaveEpoll, serverVars
<1>31. ASSUME NEW s \in Slots, Deliver(s), UNCHANGED serverVars
      PROVE  RoleInv'
  BY <1>31, Roles DEF RoleInv, ParkedIsRegistered, Deliver, Trigger, LeaveEpoll, serverVars
<1>32. ASSUME UNCHANGED vars
      PROVE  RoleInv'
  BY <1>32 DEF RoleInv, vars, hookVars, callVars, serverVars
<1>33. ASSUME StartNothing
      PROVE  RoleInv'
  BY <1>33 DEF RoleInv, StartNothing, hookVars, callVars, timerVars, tableVars, kernelVars,
      epollVars
<1>34. ASSUME CloseNothing
      PROVE  RoleInv'
  BY <1>34, Roles DEF RoleInv, TypeOK, HookTypeOK, CloseNothing, Goto, serverVars
<1>35. ASSUME LoopOn
      PROVE  RoleInv'
  BY <1>35, Roles DEF RoleInv, TypeOK, HookTypeOK, LoopOn, Goto, serverVars
<1>36. ASSUME AcceptFails
      PROVE  RoleInv'
  BY <1>36, Roles DEF RoleInv, TypeOK, HookTypeOK, AcceptFails, Goto, serverVars
<1> QED
  BY <1>1, <1>2, <1>3, <1>4, <1>5, <1>6, <1>7, <1>8, <1>9, <1>10, <1>11, <1>12, <1>13, <1>14,
       <1>15, <1>16, <1>17, <1>18, <1>19, <1>20, <1>21, <1>22, <1>23, <1>24, <1>25, <1>26,
       <1>27, <1>28, <1>29, <1>30, <1>31, <1>32, <1>33, <1>34, <1>35, <1>36, Roles
     DEF Next, ServerStep, FiberStep, CallStep, Resume, UserStep, SlotStep, CancelSock

LEMMA OwnKept ==
    ASSUME TypeOK, CallInv, RoleInv, OwnInv, ParkedIsRegistered, [Next]_vars
    PROVE  OwnInv'
<1>1. ASSUME Bind
      PROVE  OwnInv'
  BY <1>1, NewFdFree DEF OwnInv, OwnedOnce, Bind, Opened
<1>2. ASSUME Start
      PROVE  OwnInv'
  BY <1>2, Roles DEF OwnInv, OwnedOnce, TypeOK, HookTypeOK, Start, Goto, kernelVars
<1>3. ASSUME Stop
      PROVE  OwnInv'
  BY <1>3 DEF OwnInv, OwnedOnce, RoleInv, Stop, kernelVars
<1>4. ASSUME NEW f \in Fibers, Dispatch(f)
      PROVE  OwnInv'
  BY <1>4 DEF OwnInv, OwnedOnce, Dispatch, Goto, kernelVars, serverVars
<1>5. ASSUME LeaveLoop
      PROVE  OwnInv'
  BY <1>5 DEF OwnInv, OwnedOnce, LeaveLoop, Goto, kernelVars, serverVars
<1>6. ASSUME Accept
      PROVE  OwnInv'
  BY <1>6 DEF OwnInv, OwnedOnce, Accept, Goto, Begin, kernelVars, serverVars
<1>7. ASSUME NEW u \in Users, Accepted(u)
      PROVE  OwnInv'
  BY <1>7, Roles, NewFdFree
    DEF OwnInv, OwnedOnce, TypeOK, HookTypeOK, Accepted, AtAccept, Opened, serverVars
<1>8. ASSUME AcceptFull
      PROVE  OwnInv'
  BY <1>8 DEF OwnInv, OwnedOnce, AcceptFull, Goto, kernelVars, serverVars
<1>9. ASSUME ClearSocks
      PROVE  OwnInv'
  BY <1>9 DEF OwnInv, OwnedOnce, ClearSocks, kernelVars
<1>10. ASSUME NEW f \in Fibers, TryEnds(f), UNCHANGED serverVars
      PROVE  OwnInv'
  BY <1>10 DEF OwnInv, OwnedOnce, TryEnds, Goto, kernelVars, serverVars
<1>11. ASSUME NEW f \in Fibers, TryAgain(f), UNCHANGED serverVars
      PROVE  OwnInv'
  BY <1>11 DEF OwnInv, OwnedOnce, TryAgain, Goto, kernelVars, serverVars
<1>12. ASSUME NEW f \in Fibers, Arm(f), UNCHANGED serverVars
      PROVE  OwnInv'
  BY <1>12 DEF OwnInv, OwnedOnce, Arm, Goto, kernelVars, serverVars
<1>13. ASSUME NEW f \in Fibers, AddFails(f), UNCHANGED serverVars
      PROVE  OwnInv'
  BY <1>13 DEF OwnInv, OwnedOnce, AddFails, Goto, kernelVars, serverVars
<1>14. ASSUME NEW f \in Fibers, Add(f), UNCHANGED serverVars
      PROVE  OwnInv'
  BY <1>14 DEF OwnInv, OwnedOnce, Add, Goto, kernelVars, serverVars
<1>15. ASSUME NEW f \in Fibers, Check(f), UNCHANGED serverVars
      PROVE  OwnInv'
  BY <1>15, Roles DEF OwnInv, OwnedOnce, TypeOK, HookTypeOK, Check, Goto, kernelVars, serverVars
<1>16. ASSUME NEW f \in Fibers, TimeOut(f), UNCHANGED serverVars
      PROVE  OwnInv'
  BY <1>16 DEF OwnInv, OwnedOnce, TimeOut, kernelVars, serverVars
<1>17. ASSUME NEW f \in Fibers, SleepOver(f), UNCHANGED serverVars
      PROVE  OwnInv'
  BY <1>17 DEF OwnInv, OwnedOnce, SleepOver, Goto, kernelVars, serverVars
<1>18. ASSUME NEW f \in Fibers, Expire(f), UNCHANGED serverVars
      PROVE  OwnInv'
  BY <1>18 DEF OwnInv, OwnedOnce, Expire, callVars, kernelVars, serverVars
<1>19. ASSUME NEW f \in Fibers, DeleteFd(f), UNCHANGED serverVars
      PROVE  OwnInv'
  BY <1>19 DEF OwnInv, OwnedOnce, DeleteFd, Goto, kernelVars, serverVars
<1>20. ASSUME NEW u \in Users, NEW e \in Events, Transfer(u, e), UNCHANGED serverVars
      PROVE  OwnInv'
  BY <1>20 DEF OwnInv, OwnedOnce, Transfer, Goto, Begin, kernelVars, serverVars
<1>21. ASSUME NEW u \in Users, NEW e \in Events, SetTimeout(u, e), UNCHANGED serverVars
      PROVE  OwnInv'
  BY <1>21 DEF OwnInv, OwnedOnce, SetTimeout, callVars, kernelVars, serverVars
<1>22. ASSUME NEW u \in Users, NEW timed \in BOOLEAN, Connect(u, timed), UNCHANGED serverVars
      PROVE  OwnInv'
  BY <1>22 DEF OwnInv, OwnedOnce, Connect, Goto, Begin, kernelVars, serverVars
<1>23. ASSUME NEW u \in Users, NEW mode \in Modes, SetMode(u, mode), UNCHANGED serverVars
      PROVE  OwnInv'
  BY <1>23 DEF OwnInv, OwnedOnce, SetMode, callVars, serverVars
<1>24. ASSUME NEW u \in Users, Sleep(u), UNCHANGED serverVars
      PROVE  OwnInv'
  BY <1>24 DEF OwnInv, OwnedOnce, Sleep, Goto, kernelVars, serverVars
<1>25. ASSUME NEW u \in Users, Socket(u), UNCHANGED serverVars
      PROVE  OwnInv'
  BY <1>25, NewFdFree DEF OwnInv, OwnedOnce, Socket, Opened, Goto, serverVars
<1>26. ASSUME CancelAll(closer, "cancel", "body"), UNCHANGED serverVars
      PROVE  OwnInv'
  BY <1>26, CancelAllWakes DEF OwnInv, OwnedOnce, CancelAll, kernelVars, serverVars
<1>27. ASSUME NEW f \in Fibers, CancelAll(f, "body", "delete"), UNCHANGED serverVars
      PROVE  OwnInv'
  BY <1>27, CancelAllWakes, Roles DEF OwnInv, OwnedOnce, CancelAll, kernelVars, serverVars
<1>28. ASSUME CloseFd(closer, "clear"), UNCHANGED serverVars
      PROVE  OwnInv'
  BY <1>28, Roles DEF OwnInv, OwnedOnce, TypeOK, HookTypeOK, CloseFd, Goto
<1>29. ASSUME NEW u \in Users, CloseFd(u, "idle"), UNCHANGED serverVars
      PROVE  OwnInv'
  BY <1>29, Roles DEF OwnInv, OwnedOnce, TypeOK, HookTypeOK, CloseFd, Goto, serverVars
<1>30. ASSUME NEW s \in Slots, CancelEvent(s), UNCHANGED serverVars
      PROVE  OwnInv'
  BY <1>30, Roles
    DEF OwnInv, OwnedOnce, ParkedIsRegistered, CancelEvent, Trigger, LeaveEpoll, kernelVars,
        serverVars
<1>31. ASSUME NEW s \in Slots, Deliver(s), UNCHANGED serverVars
      PROVE  OwnInv'
  BY <1>31, Roles
    DEF OwnInv, OwnedOnce, ParkedIsRegistered, Deliver, Trigger, LeaveEpoll, kernelVars,
        serverVars
<1>32. ASSUME UNCHANGED vars
      PROVE  OwnInv'
  BY <1>32 DEF OwnInv, OwnedOnce, vars, hookVars, callVars, kernelVars, serverVars
<1>33. ASSUME StartNothing
      PROVE  OwnInv'
  BY <1>33 DEF OwnInv, OwnedOnce, StartNothing, kernelVars, hookVars, callVars, timerVars,
      tableVars, epollVars
<1>34. ASSUME CloseNothing
      PROVE  OwnInv'
  BY <1>34 DEF OwnInv, OwnedOnce, CloseNothing, Goto, kernelVars, serverVars
<1>35. ASSUME LoopOn
      PROVE  OwnInv'
  BY <1>35 DEF OwnInv, OwnedOnce, LoopOn, Goto, kernelVars, serverVars
<1>36. ASSUME AcceptFails
      PROVE  OwnInv'
  BY <1>36 DEF OwnInv, OwnedOnce, AcceptFails, Goto, kernelVars, serverVars
<1> QED
  BY <1>1, <1>2, <1>3, <1>4, <1>5, <1>6, <1>7, <1>8, <1>9, <1>10, <1>11, <1>12, <1>13, <1>14,
       <1>15, <1>16, <1>17, <1>18, <1>19, <1>20, <1>21, <1>22, <1>23, <1>24, <1>25, <1>26,
       <1>27, <1>28, <1>29, <1>30, <1>31, <1>32, <1>33, <1>34, <1>35, <1>36, Roles
     DEF Next, ServerStep, FiberStep, CallStep, Resume, UserStep, SlotStep, CancelSock

\* A fiber that gives up its descriptor leaves those of the users who wait.
LEMMA OthersStay ==
    ASSUME TypeOK, CallInv, RoleInv, OwnInv, OwnersCanBeWoken, NEW f \in Fibers,
           own[f] # NoFd, pc'[f] # "parked", call' = call, interest \ {own[f]} \subseteq interest',
           \A g \in Fibers : pc'[g] = "parked" => pc[g] = "parked"
    PROVE  OwnersCanBeWoken'
<1> SUFFICES ASSUME NEW u \in Users, pc'[u] = "parked" PROVE call[u].fd \in interest'
  BY DEF OwnersCanBeWoken
<1>1. u \in Fibers /\ u # f /\ pc[u] = "parked"
  BY Roles
<1>2. call[u].fd = own[u] /\ own[u] \in Fds
  BY <1>1 DEF CallInv, RoleInv
<1>3. own[u] # own[f]
  BY <1>1, <1>2 DEF OwnInv, OwnedOnce
<1> QED BY <1>1, <1>2, <1>3 DEF OwnersCanBeWoken

\* A descriptor leaves the epoll set with the last of its waits.
LEMMA TriggerLeaves ==
    ASSUME TypeOK, CallInv, ParkedIsRegistered, NEW s \in Slots,
           Trigger({s}), LeaveEpoll(s[1], {s}), NEW f \in Fibers, pc'[f] = "parked"
    PROVE  pc[f] = "parked" /\ (call[f].fd \in interest => call[f].fd \in interest')
<1>1. pc[f] = "parked" /\ waiter[s] # f
  BY DEF Trigger
<1>2. SUFFICES ASSUME call[f].fd \in interest PROVE call[f].fd \in interest'
  BY <1>1
<1>3. waiter[Slot(f)] = f /\ Slot(f) \in Slots /\ Slot(f) # s
  BY <1>1, SlotOfCall DEF ParkedIsRegistered
<1>4. CASE call[f].fd = s[1]
  <2>1. Slot(f) \in Awaited(s[1])
    BY <1>3, <1>4, Roles DEF Awaited, Slot
  <2>2. Awaited(s[1]) # {s}
    BY <1>3, <2>1
  <2> QED BY <1>2, <2>2 DEF LeaveEpoll
<1>5. CASE call[f].fd # s[1]
  BY <1>2, <1>5 DEF LeaveEpoll
<1> QED BY <1>4, <1>5

LEMMA OwnersKept ==
    ASSUME TypeOK, CallInv, RoleInv, OwnInv, ParkedIsRegistered, OwnersCanBeWoken, [Next]_vars
    PROVE  OwnersCanBeWoken'
<1>1. ASSUME Bind
      PROVE  OwnersCanBeWoken'
  BY <1>1 DEF OwnersCanBeWoken, Bind, callVars, epollVars
<1>2. ASSUME Start
      PROVE  OwnersCanBeWoken'
  BY <1>2 DEF OwnersCanBeWoken, Start, Goto, epollVars
<1>3. ASSUME Stop
      PROVE  OwnersCanBeWoken'
  BY <1>3 DEF OwnersCanBeWoken, Stop, Goto, epollVars
<1>4. ASSUME NEW f \in Fibers, Dispatch(f)
      PROVE  OwnersCanBeWoken'
  BY <1>4 DEF OwnersCanBeWoken, Dispatch, Goto, epollVars
<1>5. ASSUME LeaveLoop
      PROVE  OwnersCanBeWoken'
  BY <1>5 DEF OwnersCanBeWoken, LeaveLoop, Goto, epollVars
<1>6. ASSUME Accept
      PROVE  OwnersCanBeWoken'
  BY <1>6 DEF OwnersCanBeWoken, Accept, Goto, Begin, epollVars
<1>7. ASSUME NEW u \in Users, Accepted(u)
      PROVE  OwnersCanBeWoken'
  BY <1>7, Roles DEF OwnersCanBeWoken, TypeOK, HookTypeOK, Accepted, AtAccept, Back, epollVars
<1>8. ASSUME AcceptFull
      PROVE  OwnersCanBeWoken'
  BY <1>8 DEF OwnersCanBeWoken, AcceptFull, Goto, Back, epollVars
<1>9. ASSUME ClearSocks
      PROVE  OwnersCanBeWoken'
  BY <1>9 DEF OwnersCanBeWoken, ClearSocks, Goto, epollVars
<1>10. ASSUME NEW f \in Fibers, TryEnds(f), UNCHANGED serverVars
      PROVE  OwnersCanBeWoken'
  BY <1>10 DEF OwnersCanBeWoken, TryEnds, Goto, Back, epollVars
<1>11. ASSUME NEW f \in Fibers, TryAgain(f), UNCHANGED serverVars
      PROVE  OwnersCanBeWoken'
  BY <1>11 DEF OwnersCanBeWoken, TryAgain, Goto, epollVars
<1>12. ASSUME NEW f \in Fibers, Arm(f), UNCHANGED serverVars
      PROVE  OwnersCanBeWoken'
  BY <1>12 DEF OwnersCanBeWoken, Arm, Goto, epollVars
<1>13. ASSUME NEW f \in Fibers, AddFails(f), UNCHANGED serverVars
      PROVE  OwnersCanBeWoken'
  BY <1>13 DEF OwnersCanBeWoken, AddFails, Goto, Back, epollVars
<1>14. ASSUME NEW f \in Fibers, Add(f), UNCHANGED serverVars
      PROVE  OwnersCanBeWoken'
  BY <1>14 DEF OwnersCanBeWoken, Add, Goto
<1>15. ASSUME NEW f \in Fibers, Check(f), UNCHANGED serverVars
      PROVE  OwnersCanBeWoken'
  BY <1>15, Roles DEF OwnersCanBeWoken, TypeOK, HookTypeOK, Check, Goto, Back, epollVars
<1>16. ASSUME NEW f \in Fibers, TimeOut(f), UNCHANGED serverVars
      PROVE  OwnersCanBeWoken'
  BY <1>16 DEF OwnersCanBeWoken, TimeOut, epollVars
<1>17. ASSUME NEW f \in Fibers, SleepOver(f), UNCHANGED serverVars
      PROVE  OwnersCanBeWoken'
  BY <1>17 DEF OwnersCanBeWoken, SleepOver, Goto, epollVars
<1>18. ASSUME NEW f \in Fibers, Expire(f), UNCHANGED serverVars
      PROVE  OwnersCanBeWoken'
  BY <1>18 DEF OwnersCanBeWoken, Expire, callVars, epollVars
<1>19. ASSUME NEW f \in Fibers, DeleteFd(f), UNCHANGED serverVars
      PROVE  OwnersCanBeWoken'
  BY <1>19 DEF OwnersCanBeWoken, DeleteFd, Goto, epollVars
<1>20. ASSUME NEW u \in Users, NEW e \in Events, Transfer(u, e), UNCHANGED serverVars
      PROVE  OwnersCanBeWoken'
  BY <1>20 DEF OwnersCanBeWoken, Transfer, Goto, Begin, epollVars
<1>21. ASSUME NEW u \in Users, NEW e \in Events, SetTimeout(u, e), UNCHANGED serverVars
      PROVE  OwnersCanBeWoken'
  BY <1>21 DEF OwnersCanBeWoken, SetTimeout, callVars, epollVars
<1>22. ASSUME NEW u \in Users, NEW timed \in BOOLEAN, Connect(u, timed), UNCHANGED serverVars
      PROVE  OwnersCanBeWoken'
  BY <1>22 DEF OwnersCanBeWoken, Connect, Goto, Begin, epollVars
<1>23. ASSUME NEW u \in Users, NEW mode \in Modes, SetMode(u, mode), UNCHANGED serverVars
      PROVE  OwnersCanBeWoken'
  BY <1>23 DEF OwnersCanBeWoken, SetMode, callVars, epollVars
<1>24. ASSUME NEW u \in Users, Sleep(u), UNCHANGED serverVars
      PROVE  OwnersCanBeWoken'
  BY <1>24 DEF OwnersCanBeWoken, Sleep, Goto, epollVars
<1>25. ASSUME NEW u \in Users, Socket(u), UNCHANGED serverVars
      PROVE  OwnersCanBeWoken'
  BY <1>25 DEF OwnersCanBeWoken, Socket, Goto, epollVars
<1>26. ASSUME CancelAll(closer, "cancel", "body"), UNCHANGED serverVars
      PROVE  OwnersCanBeWoken'
  BY <1>26, CancelAllWakes, OthersStay, Roles DEF CancelAll
<1>27. ASSUME NEW f \in Fibers, CancelAll(f, "body", "delete"), UNCHANGED serverVars
      PROVE  OwnersCanBeWoken'
  BY <1>27, CancelAllWakes, OthersStay DEF CancelAll
<1>28. ASSUME CloseFd(closer, "clear"), UNCHANGED serverVars
      PROVE  OwnersCanBeWoken'
  <2>1. own[closer] # NoFd /\ pc' = [pc EXCEPT ![closer] = "clear"] /\ call' = call
        /\ interest' = interest \ {own[closer]}
    BY <1>28, Roles DEF CloseFd, Goto, RoleInv
  <2>2. pc'[closer] = "clear" /\ \A g \in Fibers : pc'[g] = "parked" => pc[g] = "parked"
    BY <2>1, Roles DEF TypeOK, HookTypeOK
  <2> QED BY <2>1, <2>2, Roles, OthersStay
<1>29. ASSUME NEW u \in Users, CloseFd(u, "idle"), UNCHANGED serverVars
      PROVE  OwnersCanBeWoken'
  <2>1. own[u] # NoFd /\ pc' = [pc EXCEPT ![u] = "idle"] /\ call' = call
        /\ interest' = interest \ {own[u]}
    BY <1>29, Roles DEF CloseFd, Goto, RoleInv
  <2>2. pc'[u] = "idle" /\ \A g \in Fibers : pc'[g] = "parked" => pc[g] = "parked"
    BY <2>1, Roles DEF TypeOK, HookTypeOK
  <2> QED BY <2>1, <2>2, Roles, OthersStay
<1>30. ASSUME NEW s \in Slots, CancelEvent(s), UNCHANGED serverVars
      PROVE  OwnersCanBeWoken'
  <2>1. CASE Trigger({s}) /\ LeaveEpoll(s[1], {s})
    BY <1>30, <2>1, Roles, TriggerLeaves DEF CancelEvent, OwnersCanBeWoken
  <2>2. CASE UNCHANGED <<pc, epollVars>>
    BY <1>30, <2>2 DEF CancelEvent, OwnersCanBeWoken, epollVars
  <2> QED BY <1>30, <2>1, <2>2 DEF CancelEvent
<1>31. ASSUME NEW s \in Slots, Deliver(s), UNCHANGED serverVars
      PROVE  OwnersCanBeWoken'
  BY <1>31, Roles, TriggerLeaves DEF Deliver, OwnersCanBeWoken
<1>32. ASSUME UNCHANGED vars
      PROVE  OwnersCanBeWoken'
  BY <1>32 DEF OwnersCanBeWoken, vars, hookVars, callVars, epollVars
<1>33. ASSUME StartNothing
      PROVE  OwnersCanBeWoken'
  BY <1>33 DEF OwnersCanBeWoken, StartNothing, epollVars, hookVars, callVars, timerVars,
      tableVars, kernelVars
<1>34. ASSUME CloseNothing
      PROVE  OwnersCanBeWoken'
  BY <1>34 DEF OwnersCanBeWoken, CloseNothing, Goto, epollVars
<1>35. ASSUME LoopOn
      PROVE  OwnersCanBeWoken'
  BY <1>35 DEF OwnersCanBeWoken, LoopOn, Goto, epollVars
<1>36. ASSUME AcceptFails
      PROVE  OwnersCanBeWoken'
  BY <1>36 DEF OwnersCanBeWoken, AcceptFails, Goto, epollVars
<1> QED
  BY <1>1, <1>2, <1>3, <1>4, <1>5, <1>6, <1>7, <1>8, <1>9, <1>10, <1>11, <1>12, <1>13, <1>14,
       <1>15, <1>16, <1>17, <1>18, <1>19, <1>20, <1>21, <1>22, <1>23, <1>24, <1>25, <1>26,
       <1>27, <1>28, <1>29, <1>30, <1>31, <1>32, <1>33, <1>34, <1>35, <1>36, Roles
     DEF Next, ServerStep, FiberStep, CallStep, Resume, UserStep, SlotStep, CancelSock

LEMMA TableKept ==
    ASSUME <<"ioctl", FALSE>> \notin Modes, TypeOK, CallInv, RoleInv, OwnInv, TableInv, ParkedIsRegistered, [Next]_vars
    PROVE  TableInv'
<1>1. ASSUME Bind
      PROVE  TableInv'
  BY <1>1, Roles, NewFdFree
    DEF TableInv, TableMatchesKernel, OwnInv, OwnedOnce, Bind, Opened, callVars
<1>2. ASSUME Start
      PROVE  TableInv'
  BY <1>2 DEF TableInv, TableMatchesKernel, Start, Goto, tableVars, kernelVars
<1>3. ASSUME Stop
      PROVE  TableInv'
  BY <1>3 DEF TableInv, TableMatchesKernel, RoleInv, Stop, Goto, tableVars, kernelVars
<1>4. ASSUME NEW f \in Fibers, Dispatch(f)
      PROVE  TableInv'
  BY <1>4 DEF TableInv, TableMatchesKernel, Dispatch, Goto, tableVars, kernelVars
<1>5. ASSUME LeaveLoop
      PROVE  TableInv'
  BY <1>5 DEF TableInv, TableMatchesKernel, LeaveLoop, Goto, tableVars, kernelVars
<1>6. ASSUME Accept
      PROVE  TableInv'
  BY <1>6 DEF TableInv, TableMatchesKernel, Accept, Goto, Begin, tableVars, kernelVars
<1>7. ASSUME NEW u \in Users, Accepted(u)
      PROVE  TableInv'
  BY <1>7, Roles, NewFdFree
    DEF TableInv, TableMatchesKernel, OwnInv, OwnedOnce, TypeOK, HookTypeOK, Accepted, AtAccept, Opened
<1>8. ASSUME AcceptFull
      PROVE  TableInv'
  BY <1>8 DEF TableInv, TableMatchesKernel, AcceptFull, Goto, tableVars, kernelVars
<1>9. ASSUME ClearSocks
      PROVE  TableInv'
  BY <1>9 DEF TableInv, TableMatchesKernel, ClearSocks, Goto, tableVars, kernelVars
<1>10. ASSUME NEW f \in Fibers, TryEnds(f), UNCHANGED serverVars
      PROVE  TableInv'
  BY <1>10 DEF TableInv, TableMatchesKernel, TryEnds, Goto, tableVars, kernelVars
<1>11. ASSUME NEW f \in Fibers, TryAgain(f), UNCHANGED serverVars
      PROVE  TableInv'
  BY <1>11 DEF TableInv, TableMatchesKernel, TryAgain, Goto, tableVars, kernelVars
<1>12. ASSUME NEW f \in Fibers, Arm(f), UNCHANGED serverVars
      PROVE  TableInv'
  BY <1>12 DEF TableInv, TableMatchesKernel, Arm, Goto, tableVars, kernelVars
<1>13. ASSUME NEW f \in Fibers, AddFails(f), UNCHANGED serverVars
      PROVE  TableInv'
  BY <1>13 DEF TableInv, TableMatchesKernel, AddFails, Goto, tableVars, kernelVars
<1>14. ASSUME NEW f \in Fibers, Add(f), UNCHANGED serverVars
      PROVE  TableInv'
  BY <1>14 DEF TableInv, TableMatchesKernel, Add, Goto, tableVars, kernelVars
<1>15. ASSUME NEW f \in Fibers, Check(f), UNCHANGED serverVars
      PROVE  TableInv'
  BY <1>15
    DEF TableInv, TableMatchesKernel, TypeOK, HookTypeOK, Check, Goto, tableVars, kernelVars
<1>16. ASSUME NEW f \in Fibers, TimeOut(f), UNCHANGED serverVars
      PROVE  TableInv'
  BY <1>16 DEF TableInv, TableMatchesKernel, TimeOut, tableVars, kernelVars
<1>17. ASSUME NEW f \in Fibers, SleepOver(f), UNCHANGED serverVars
      PROVE  TableInv'
  BY <1>17 DEF TableInv, TableMatchesKernel, SleepOver, Goto, tableVars, kernelVars
<1>18. ASSUME NEW f \in Fibers, Expire(f), UNCHANGED serverVars
      PROVE  TableInv'
  BY <1>18 DEF TableInv, TableMatchesKernel, Expire, callVars, tableVars, kernelVars
<1>19. ASSUME NEW f \in Fibers, DeleteFd(f), UNCHANGED serverVars
      PROVE  TableInv'
  BY <1>19 DEF TableInv, TableMatchesKernel, TypeOK, HookTypeOK, DeleteFd, Goto, kernelVars
<1>20. ASSUME NEW u \in Users, NEW e \in Events, Transfer(u, e), UNCHANGED serverVars
      PROVE  TableInv'
  BY <1>20 DEF TableInv, TableMatchesKernel, Transfer, Goto, Begin, tableVars, kernelVars
<1>21. ASSUME NEW u \in Users, NEW e \in Events, SetTimeout(u, e), UNCHANGED serverVars
      PROVE  TableInv'
  BY <1>21 DEF TableInv, TableMatchesKernel, SetTimeout, callVars, kernelVars
<1>22. ASSUME NEW u \in Users, NEW timed \in BOOLEAN, Connect(u, timed), UNCHANGED serverVars
      PROVE  TableInv'
  BY <1>22 DEF TableInv, TableMatchesKernel, Connect, Goto, Begin, tableVars, kernelVars
<1>23. ASSUME NEW u \in Users, NEW mode \in Modes, SetMode(u, mode), UNCHANGED serverVars
      PROVE  TableInv'
  <2>1. (mode[1] = "fcntl" \/ mode[2]) /\ mode[2] \in BOOLEAN
    <3>1. PICK c \in {"fcntl", "ioctl"}, b \in BOOLEAN : mode = <<c, b>>
      BY ModesAssumption
    <3>2. c = "fcntl" \/ b
      BY <3>1
    <3> QED BY <3>1, <3>2
  <2>2. /\ pc' = pc /\ own' = own /\ managed' = managed /\ timeouts' = timeouts /\ open' = open
        /\ own[u] \in managed
        /\ userNonBlock' \subseteq userNonBlock \cup {own[u]} /\ nonblock \subseteq nonblock'
    BY <1>23, <2>1 DEF SetMode, callVars
  <2> QED BY <2>2 DEF TableInv, TableMatchesKernel
<1>24. ASSUME NEW u \in Users, Sleep(u), UNCHANGED serverVars
      PROVE  TableInv'
  BY <1>24 DEF TableInv, TableMatchesKernel, Sleep, Goto, tableVars, kernelVars
<1>25. ASSUME NEW u \in Users, Socket(u), UNCHANGED serverVars
      PROVE  TableInv'
  BY <1>25, Roles, NewFdFree
    DEF TableInv, TableMatchesKernel, OwnInv, OwnedOnce, Socket, Opened, Goto
<1>26. ASSUME CancelAll(closer, "cancel", "body"), UNCHANGED serverVars
      PROVE  TableInv'
  BY <1>26, CancelAllWakes, Roles
    DEF TableInv, TableMatchesKernel, CancelAll, tableVars, kernelVars
<1>27. ASSUME NEW f \in Fibers, CancelAll(f, "body", "delete"), UNCHANGED serverVars
      PROVE  TableInv'
  BY <1>27, CancelAllWakes DEF TableInv, TableMatchesKernel, CancelAll, tableVars, kernelVars
<1>28. ASSUME CloseFd(closer, "clear"), UNCHANGED serverVars
      PROVE  TableInv'
  BY <1>28, Roles DEF TableInv, TableMatchesKernel, TypeOK, HookTypeOK, CloseFd, Goto, tableVars
<1>29. ASSUME NEW u \in Users, CloseFd(u, "idle"), UNCHANGED serverVars
      PROVE  TableInv'
  BY <1>29, Roles DEF TableInv, TableMatchesKernel, TypeOK, HookTypeOK, CloseFd, Goto, tableVars
<1>30. ASSUME NEW s \in Slots, CancelEvent(s), UNCHANGED serverVars
      PROVE  TableInv'
  BY <1>30
    DEF TableInv, TableMatchesKernel, ParkedIsRegistered, CancelEvent, Trigger, LeaveEpoll,
        tableVars, kernelVars
<1>31. ASSUME NEW s \in Slots, Deliver(s), UNCHANGED serverVars
      PROVE  TableInv'
  BY <1>31
    DEF TableInv, TableMatchesKernel, ParkedIsRegistered, Deliver, Trigger, LeaveEpoll,
        tableVars, kernelVars
<1>32. ASSUME UNCHANGED vars
      PROVE  TableInv'
  BY <1>32 DEF TableInv, TableMatchesKernel, vars, hookVars, callVars, tableVars, kernelVars
<1>33. ASSUME StartNothing
      PROVE  TableInv'
  BY <1>33 DEF TableInv, TableMatchesKernel, StartNothing, tableVars, kernelVars, hookVars,
      callVars, timerVars, epollVars
<1>34. ASSUME CloseNothing
      PROVE  TableInv'
  BY <1>34 DEF TableInv, TableMatchesKernel, CloseNothing, Goto, tableVars, kernelVars
<1>35. ASSUME LoopOn
      PROVE  TableInv'
  BY <1>35 DEF TableInv, TableMatchesKernel, LoopOn, Goto, tableVars, kernelVars
<1>36. ASSUME AcceptFails
      PROVE  TableInv'
  BY <1>36 DEF TableInv, TableMatchesKernel, AcceptFails, Goto, tableVars, kernelVars
<1> QED
  BY <1>1, <1>2, <1>3, <1>4, <1>5, <1>6, <1>7, <1>8, <1>9, <1>10, <1>11, <1>12, <1>13, <1>14,
       <1>15, <1>16, <1>17, <1>18, <1>19, <1>20, <1>21, <1>22, <1>23, <1>24, <1>25, <1>26,
       <1>27, <1>28, <1>29, <1>30, <1>31, <1>32, <1>33, <1>34, <1>35, <1>36, Roles
     DEF Next, ServerStep, FiberStep, CallStep, Resume, UserStep, SlotStep, CancelSock

-----------------------------------------------------------------------------
(* The sum of a function over a finite set, which the library defines by    *)
(* recursion over its subsets, is a number: by the least size for which it  *)
(* would not be.                                                            *)

\* What CHOOSE takes out of a set first.
FirstOf(s) == CHOOSE x \in s : TRUE

\* One element and the sum of the others, given the sums h of smaller sets.
Unfolded(fun, h, s) == IF s = {} THEN 0 ELSE fun[FirstOf(s)] + h[s \ {FirstOf(s)}]

\* The sums of the subsets of S.
Sums(fun, S) == CHOOSE h : h = [s \in SUBSET S |-> Unfolded(fun, h, s)]

\* The subsets of at most n elements.
UpTo(S, n) == {s \in SUBSET S : Cardinality(s) <= n}

\* The library's sum is the last of the Sums.
LEMMA SumDefined == ASSUME NEW fun PROVE SumFunction(fun) = Sums(fun, DOMAIN fun)[DOMAIN fun]
BY DEF SumFunction, SumFunctionOnSet, FoldFunctionOnSet, MapThenFoldSet, Sums, Unfolded, FirstOf

LEMMA FewerLeft ==
    ASSUME NEW S, IsFiniteSet(S), NEW s \in SUBSET S, s # {}
    PROVE  /\ FirstOf(s) \in S /\ s \ {FirstOf(s)} \in SUBSET S
           /\ Cardinality(s) \in Nat
           /\ Cardinality(s \ {FirstOf(s)}) = Cardinality(s) - 1
           /\ Cardinality(s) # 0
<1>1. IsFiniteSet(s)
  BY FS_Subset
<1>2. FirstOf(s) \in s
  BY DEF FirstOf
<1>3. Cardinality(s \ {FirstOf(s)}) = Cardinality(s) - 1
  BY <1>1, <1>2, FS_RemoveElement
<1>4. Cardinality(s) \in Nat /\ Cardinality(s) # 0
  BY <1>1, FS_CardinalityType, FS_EmptySet
<1> QED BY <1>2, <1>3, <1>4

\* There are such sums for the subsets of any size.
LEMMA SumsUpTo ==
    ASSUME NEW S, IsFiniteSet(S), NEW fun \in [S -> Nat], NEW n \in Nat
    PROVE  \E h \in [UpTo(S, n) -> Nat] : \A s \in UpTo(S, n) : h[s] = Unfolded(fun, h, s)
<1> DEFINE Given(k) == \E h \in [UpTo(S, k) -> Nat] : \A s \in UpTo(S, k) : h[s] = Unfolded(fun, h, s)
           Missing == {k \in Nat : ~Given(k)}
<1>1. SUFFICES Missing = {}
  BY DEF Missing
<1>2. SUFFICES ASSUME Missing # {} PROVE FALSE
  OBVIOUS
<1>3. PICK m \in Missing : \A k \in Missing : m <= k
  <2> HIDE DEF Missing
  <2>1. Missing \subseteq Nat
    BY DEF Missing
  <2> QED BY <1>2, <2>1, LeastNumber
<1>4. m \in Nat /\ ~Given(m) /\ (m # 0 => Given(m - 1))
  <2>1. m \in Nat /\ ~Given(m)
    BY <1>3
  <2>2. ASSUME m # 0 PROVE Given(m - 1)
    <3>1. m - 1 \in Nat /\ ~(m <= m - 1)
      BY <2>1, <2>2
    <3> QED BY <1>3, <3>1
  <2> QED BY <2>1, <2>2
<1> HIDE DEF Missing
<1>5. CASE m = 0
  <2> DEFINE h == [s \in UpTo(S, 0) |-> 0]
  <2>1. ASSUME NEW s \in UpTo(S, 0) PROVE s = {}
    <3>1. IsFiniteSet(s) /\ Cardinality(s) <= 0
      BY FS_Subset DEF UpTo
    <3>2. Cardinality(s) = 0
      BY <3>1, FS_CardinalityType
    <3> QED BY <3>1, <3>2, FS_EmptySet
  <2>2. h \in [UpTo(S, 0) -> Nat] /\ \A s \in UpTo(S, 0) : h[s] = Unfolded(fun, h, s)
    BY <2>1 DEF Unfolded
  <2> QED BY <1>4, <1>5, <2>2
<1>6. CASE m # 0
  <2>1. PICK h \in [UpTo(S, m - 1) -> Nat] : \A s \in UpTo(S, m - 1) : h[s] = Unfolded(fun, h, s)
    BY <1>4, <1>6
  <2> DEFINE g == [s \in UpTo(S, m) |-> Unfolded(fun, h, s)]
  <2>2. ASSUME NEW s \in UpTo(S, m), s # {}
        PROVE  /\ FirstOf(s) \in S
               /\ s \ {FirstOf(s)} \in UpTo(S, m - 1)
               /\ s \ {FirstOf(s)} \in UpTo(S, m)
    BY <1>4, <2>2, FewerLeft DEF UpTo
  <2>3. ASSUME NEW s \in UpTo(S, m) PROVE Unfolded(fun, h, s) \in Nat
    <3>1. CASE s = {}
      BY <3>1 DEF Unfolded
    <3>2. CASE s # {}
      <4>1. fun[FirstOf(s)] \in Nat /\ h[s \ {FirstOf(s)}] \in Nat
        BY <2>1, <2>2, <3>2
      <4> QED BY <3>2, <4>1 DEF Unfolded
    <3> QED BY <3>1, <3>2
  <2>4. g \in [UpTo(S, m) -> Nat]
    BY <2>3
  <2>5. ASSUME NEW s \in UpTo(S, m) PROVE g[s] = Unfolded(fun, g, s)
    <3>1. CASE s = {}
      BY <3>1 DEF Unfolded
    <3>2. CASE s # {}
      <4>1. g[s \ {FirstOf(s)}] = h[s \ {FirstOf(s)}]
        BY <2>1, <2>2, <3>2
      <4>2. g[s] = fun[FirstOf(s)] + h[s \ {FirstOf(s)}]
        BY <3>2 DEF Unfolded
      <4> HIDE DEF g
      <4> QED BY <3>2, <4>1, <4>2 DEF Unfolded
    <3> QED BY <3>1, <3>2
  <2> HIDE DEF g
  <2>6. Given(m)
    BY <2>4, <2>5
  <2> QED BY <1>4, <2>6
<1> QED BY <1>5, <1>6

\* The sum of a function from a finite set to numbers is a number.
LEMMA SumIsNat ==
    ASSUME NEW S, IsFiniteSet(S), NEW fun \in [S -> Nat]
    PROVE  SumFunction(fun) \in Nat
<1>1. PICK h : h = [s \in SUBSET S |-> Unfolded(fun, h, s)]
  <2>1. Cardinality(S) \in Nat /\ UpTo(S, Cardinality(S)) = SUBSET S
    BY FS_CardinalityType, FS_Subset DEF UpTo
  <2>2. PICK n \in Nat : n = Cardinality(S) /\ UpTo(S, n) = SUBSET S
    BY <2>1
  <2>3. PICK h \in [UpTo(S, n) -> Nat] : \A s \in UpTo(S, n) : h[s] = Unfolded(fun, h, s)
    BY SumsUpTo
  <2>4. h = [s \in SUBSET S |-> Unfolded(fun, h, s)]
    BY <2>2, <2>3
  <2> QED BY <2>4
<1> DEFINE sum == Sums(fun, S)
<1>2. sum = [s \in SUBSET S |-> Unfolded(fun, sum, s)]
  BY <1>1 DEF Sums
<1> HIDE DEF sum
<1>3. \A s \in SUBSET S : sum[s] = Unfolded(fun, sum, s)
  BY <1>2
<1> DEFINE Bad == {n \in Nat : \E s \in SUBSET S : Cardinality(s) = n /\ sum[s] \notin Nat}
<1>4. Bad = {}
  <2> SUFFICES ASSUME Bad # {} PROVE FALSE
    OBVIOUS
  <2>1. PICK n \in Bad : \A k \in Bad : n <= k
    <3>1. Bad \subseteq Nat
      OBVIOUS
    <3> HIDE DEF Bad
    <3> QED BY <3>1, LeastNumber
  <2>2. PICK s \in SUBSET S : Cardinality(s) = n /\ sum[s] \notin Nat
    BY <2>1
  <2>3. s # {}
    <3>1. {} \in SUBSET S /\ Unfolded(fun, sum, {}) = 0
      BY DEF Unfolded
    <3>2. sum[{}] = 0
      BY ONLY <1>3, <3>1
    <3> QED BY <2>2, <3>2
  <2>4. /\ fun[FirstOf(s)] \in Nat /\ s \ {FirstOf(s)} \in SUBSET S
        /\ n \in Nat /\ n # 0 /\ Cardinality(s \ {FirstOf(s)}) = n - 1
    BY <2>2, <2>3, FewerLeft
  <2>5. sum[s \ {FirstOf(s)}] \in Nat
    <3>1. n - 1 \in Nat /\ n - 1 \notin Bad
      BY <2>1, <2>4
    <3> QED BY <2>4, <3>1
  <2>6. sum[s] = fun[FirstOf(s)] + sum[s \ {FirstOf(s)}]
    BY <1>3, <2>3 DEF Unfolded
  <2> QED BY <2>2, <2>4, <2>5, <2>6
<1>5. sum[S] \in Nat
  BY <1>4, FS_CardinalityType
<1> QED BY <1>5, SumDefined DEF sum

-----------------------------------------------------------------------------
(* One thread.                                                              *)

Busy == {"body", "call", "try", "arm", "add", "cancel", "delete", "shut", "clear"}

\* On one thread at most one fiber is between two yields.
AloneInv == threads = 1 => \A f, g \in Fibers : pc[f] \in Busy /\ pc[g] \in Busy => f = g

\* A thread is free only if none is.
LEMMA NoneBusy ==
    ASSUME TypeOK, threads = 1, ThreadFree
    PROVE  \A f \in Fibers : pc[f] \notin Busy
<1>1. IsFiniteSet(Slots)
  <2>1. IsFiniteSet(Events)
    <3>1. Events = {READ} \cup {WRITE}
      BY DEF Events
    <3> QED BY <3>1, FS_Singleton, FS_Union
  <2> QED BY <2>1, FdsAssumption, FS_Product DEF Slots
<1>2. SumFunction(aimed) \in Nat
  BY <1>1, SumIsNat DEF TypeOK, HookTypeOK
<1>3. IsFiniteSet(Running)
  BY FibersAssumption, FS_Subset DEF Running
<1>4. Cardinality(Running) = 0
  BY <1>2, <1>3, FS_CardinalityType DEF ThreadFree
<1>5. Running = {}
  BY <1>3, <1>4, FS_EmptySet
<1> QED BY <1>5 DEF Running, Busy

LEMMA Keeps ==
    ASSUME AloneInv, threads' = threads, \A f \in Fibers : pc'[f] \in Busy => pc[f] \in Busy
    PROVE  AloneInv'
BY DEF AloneInv

LEMMA Takes ==
    ASSUME TypeOK, AloneInv, ThreadFree, threads' = threads, NEW f \in Fibers,
           \A g \in Fibers \ {f} : pc'[g] = pc[g]
    PROVE  AloneInv'
BY NoneBusy DEF AloneInv

LEMMA AloneKept ==
    ASSUME TypeOK, RoleInv, AloneInv, [Next]_vars
    PROVE  AloneInv'
<1>1. ASSUME Bind
      PROVE  AloneInv'
  BY <1>1, Roles, Keeps DEF Bind, callVars, TypeOK, HookTypeOK, Busy
<1>2. ASSUME Start
      PROVE  AloneInv'
  BY <1>2, Roles, Keeps DEF Start, Goto, callVars, TypeOK, HookTypeOK, Busy
<1>3. ASSUME Stop
      PROVE  AloneInv'
  BY <1>3, Roles, Keeps DEF Stop, Goto, callVars, TypeOK, HookTypeOK, Busy
<1>4. ASSUME NEW f \in Fibers, Dispatch(f)
      PROVE  AloneInv'
  BY <1>4, Roles, Takes DEF Dispatch, Goto, callVars, TypeOK, HookTypeOK, Busy
<1>5. ASSUME LeaveLoop
      PROVE  AloneInv'
  BY <1>5, Roles, Keeps DEF LeaveLoop, Goto, callVars, TypeOK, HookTypeOK, Busy
<1>6. ASSUME Accept
      PROVE  AloneInv'
  BY <1>6, Roles, Keeps DEF Accept, Begin, Goto, callVars, TypeOK, HookTypeOK, Busy
<1>7. ASSUME NEW u \in Users, Accepted(u)
      PROVE  AloneInv'
  BY <1>7, Roles, Keeps DEF Accepted, AtAccept, callVars, TypeOK, HookTypeOK, Busy
<1>8. ASSUME AcceptFull
      PROVE  AloneInv'
  BY <1>8, Roles, Keeps DEF AcceptFull, Goto, callVars, TypeOK, HookTypeOK, Busy
<1>9. ASSUME ClearSocks
      PROVE  AloneInv'
  BY <1>9, Roles, Keeps DEF ClearSocks, Goto, callVars, TypeOK, HookTypeOK, Busy
<1>10. ASSUME NEW f \in Fibers, TryEnds(f), UNCHANGED serverVars
      PROVE  AloneInv'
  BY <1>10, Roles, Keeps DEF TryEnds, Goto, callVars, TypeOK, HookTypeOK, Busy
<1>11. ASSUME NEW f \in Fibers, TryAgain(f), UNCHANGED serverVars
      PROVE  AloneInv'
  BY <1>11, Roles, Keeps DEF TryAgain, Goto, callVars, TypeOK, HookTypeOK, Busy
<1>12. ASSUME NEW f \in Fibers, Arm(f), UNCHANGED serverVars
      PROVE  AloneInv'
  BY <1>12, Roles, Keeps DEF Arm, Goto, callVars, TypeOK, HookTypeOK, Busy
<1>13. ASSUME NEW f \in Fibers, AddFails(f), UNCHANGED serverVars
      PROVE  AloneInv'
  BY <1>13, Roles, Keeps DEF AddFails, Goto, callVars, TypeOK, HookTypeOK, Busy
<1>14. ASSUME NEW f \in Fibers, Add(f), UNCHANGED serverVars
      PROVE  AloneInv'
  BY <1>14, Roles, Keeps DEF Add, Goto, callVars, TypeOK, HookTypeOK, Busy
<1>15. ASSUME NEW f \in Fibers, Check(f), UNCHANGED serverVars
      PROVE  AloneInv'
  BY <1>15, Roles, Takes DEF Check, Goto, callVars, TypeOK, HookTypeOK, Busy
<1>16. ASSUME NEW f \in Fibers, TimeOut(f), UNCHANGED serverVars
      PROVE  AloneInv'
  BY <1>16, Roles, Keeps DEF TimeOut, callVars, TypeOK, HookTypeOK, Busy
<1>17. ASSUME NEW f \in Fibers, SleepOver(f), UNCHANGED serverVars
      PROVE  AloneInv'
  BY <1>17, Roles, Takes DEF SleepOver, Goto, callVars, TypeOK, HookTypeOK, Busy
<1>18. ASSUME NEW f \in Fibers, Expire(f), UNCHANGED serverVars
      PROVE  AloneInv'
  BY <1>18, Roles, Keeps DEF Expire, callVars, TypeOK, HookTypeOK, Busy
<1>19. ASSUME NEW f \in Fibers, DeleteFd(f), UNCHANGED serverVars
      PROVE  AloneInv'
  BY <1>19, Roles, Keeps DEF DeleteFd, Goto, callVars, TypeOK, HookTypeOK, Busy
<1>20. ASSUME NEW u \in Users, NEW e \in Events, Transfer(u, e), UNCHANGED serverVars
      PROVE  AloneInv'
  BY <1>20, Roles, Keeps DEF Transfer, Begin, Goto, callVars, TypeOK, HookTypeOK, Busy
<1>21. ASSUME NEW u \in Users, NEW e \in Events, SetTimeout(u, e), UNCHANGED serverVars
      PROVE  AloneInv'
  BY <1>21, Roles, Keeps DEF SetTimeout, callVars, TypeOK, HookTypeOK, Busy
<1>22. ASSUME NEW u \in Users, NEW timed \in BOOLEAN, Connect(u, timed), UNCHANGED serverVars
      PROVE  AloneInv'
  BY <1>22, Roles, Keeps DEF Connect, Begin, Goto, callVars, TypeOK, HookTypeOK, Busy
<1>23. ASSUME NEW u \in Users, NEW mode \in Modes, SetMode(u, mode), UNCHANGED serverVars
      PROVE  AloneInv'
  BY <1>23, Roles, Keeps DEF SetMode, callVars, TypeOK, HookTypeOK, Busy
<1>24. ASSUME NEW u \in Users, Sleep(u), UNCHANGED serverVars
      PROVE  AloneInv'
  BY <1>24, Roles, Keeps DEF Sleep, Goto, callVars, TypeOK, HookTypeOK, Busy
<1>25. ASSUME NEW u \in Users, Socket(u), UNCHANGED serverVars
      PROVE  AloneInv'
  BY <1>25, Roles, Takes DEF Socket, Goto, callVars, TypeOK, HookTypeOK, Busy
<1>26. ASSUME CancelAll(closer, "cancel", "body"), UNCHANGED serverVars
      PROVE  AloneInv'
  BY <1>26, Roles, Keeps DEF CancelAll, TriggerAndGoto, callVars, TypeOK, HookTypeOK, Busy
<1>27. ASSUME NEW f \in Fibers, CancelAll(f, "body", "delete"), UNCHANGED serverVars
      PROVE  AloneInv'
  BY <1>27, Roles, Keeps DEF CancelAll, TriggerAndGoto, callVars, TypeOK, HookTypeOK, Busy
<1>28. ASSUME CloseFd(closer, "clear"), UNCHANGED serverVars
      PROVE  AloneInv'
  BY <1>28, Roles, Keeps DEF CloseFd, Goto, callVars, TypeOK, HookTypeOK, Busy
<1>29. ASSUME NEW u \in Users, CloseFd(u, "idle"), UNCHANGED serverVars
      PROVE  AloneInv'
  BY <1>29, Roles, Keeps DEF CloseFd, Goto, callVars, TypeOK, HookTypeOK, Busy
<1>30. ASSUME NEW s \in Slots, CancelEvent(s), UNCHANGED serverVars
      PROVE  AloneInv'
  BY <1>30, Roles, Keeps DEF CancelEvent, Trigger, epollVars, callVars, TypeOK, HookTypeOK, Busy
<1>31. ASSUME NEW s \in Slots, Deliver(s), UNCHANGED serverVars
      PROVE  AloneInv'
  BY <1>31, Roles, Keeps DEF Deliver, Trigger, callVars, TypeOK, HookTypeOK, Busy
<1>32. ASSUME UNCHANGED vars
      PROVE  AloneInv'
  BY <1>32, Roles, Keeps DEF vars, hookVars, callVars, callVars, TypeOK, HookTypeOK, Busy
<1>33. ASSUME StartNothing
      PROVE  AloneInv'
  BY <1>33, Roles, Keeps DEF StartNothing, callVars, TypeOK, HookTypeOK, Busy, hookVars,
      timerVars, tableVars, kernelVars, epollVars
<1>34. ASSUME CloseNothing
      PROVE  AloneInv'
  BY <1>34, Roles, Keeps DEF CloseNothing, Goto, callVars, TypeOK, HookTypeOK, Busy
<1>35. ASSUME LoopOn
      PROVE  AloneInv'
  BY <1>35, Roles, Keeps DEF LoopOn, Goto, callVars, TypeOK, HookTypeOK, Busy
<1>36. ASSUME AcceptFails
      PROVE  AloneInv'
  BY <1>36, Roles, Keeps DEF AcceptFails, Goto, callVars, TypeOK, HookTypeOK, Busy
<1> QED
  BY <1>1, <1>2, <1>3, <1>4, <1>5, <1>6, <1>7, <1>8, <1>9, <1>10, <1>11, <1>12, <1>13, <1>14,
       <1>15, <1>16, <1>17, <1>18, <1>19, <1>20, <1>21, <1>22, <1>23, <1>24, <1>25, <1>26,
       <1>27, <1>28, <1>29, <1>30, <1>31, <1>32, <1>33, <1>34, <1>35, <1>36, Roles
     DEF Next, ServerStep, FiberStep, CallStep, Resume, UserStep, SlotStep, CancelSock

Closing == {"delete", "shut"}

\* With one thread epoll knows what the acceptor waits for, and nobody is about to close it.
AcceptorInv ==
    threads = 1 /\ pc[acceptor] = "parked" =>
        /\ call[acceptor].fd \in interest
        /\ \A f \in Fibers : pc[f] \in Closing => own[f] # call[acceptor].fd

LEMMA AcceptorStays ==
    ASSUME AcceptorInv, threads' = threads,
           pc'[acceptor] = "parked" =>
              /\ pc[acceptor] = "parked" /\ call'[acceptor] = call[acceptor]
              /\ call[acceptor].fd \in interest => call[acceptor].fd \in interest'
              /\ \A f \in Fibers : pc'[f] \in Closing => pc[f] \in Closing /\ own'[f] = own[f]
    PROVE  AcceptorInv'
BY DEF AcceptorInv

\* cancelAll() wakes the acceptor if it waits for that descriptor.
LEMMA CancelSpares ==
    ASSUME TypeOK, CallInv, ParkedIsRegistered, AcceptorInv, NEW f \in Fibers \ {acceptor},
           NEW from \in {"cancel", "body"}, NEW to \in {"body", "delete"}, CancelAll(f, from, to)
    PROVE  AcceptorInv'
<1> SUFFICES ASSUME threads = 1, pc'[acceptor] = "parked"
             PROVE  /\ call[acceptor].fd \in interest'
                    /\ \A g \in Fibers : pc'[g] \in Closing => own[g] # call[acceptor].fd
  BY DEF AcceptorInv, CancelAll
<1>1. /\ interest' = interest \ {own[f]} /\ UNCHANGED own
      /\ \A g \in Fibers \ {f} : pc'[g] \in Closing => pc[g] \in Closing
  BY CancelAllWakes DEF CancelAll, Closing
<1>2. pc[acceptor] = "parked"
  BY CancelAllWakes, Roles
<1>3. call[acceptor].fd \in interest /\ waiter[Slot(acceptor)] = acceptor /\ Slot(acceptor) \in Slots
  BY <1>2, Roles, SlotOfCall DEF AcceptorInv, ParkedIsRegistered
<1>4. call[acceptor].fd # own[f]
  <2> SUFFICES ASSUME call[acceptor].fd = own[f] PROVE FALSE
    OBVIOUS
  <2>1. Slot(acceptor) \in Awaited(own[f])
    BY <1>3, Roles DEF Awaited, Slot
  <2>2. pc'[acceptor] = "woken"
    BY <1>3, <2>1, Roles DEF CancelAll, TriggerAndGoto
  <2> QED BY <2>2
<1> QED BY <1>1, <1>2, <1>3, <1>4, Roles DEF AcceptorInv

\* Nobody closes the descriptor it waits for.
LEMMA CloseSpares ==
    ASSUME TypeOK, AcceptorInv, NEW f \in Fibers \ {acceptor}, NEW to \in {"idle", "clear"},
           CloseFd(f, to)
    PROVE  AcceptorInv'
<1>1. /\ pc[f] = "shut" /\ pc' = [pc EXCEPT ![f] = to] /\ interest' = interest \ {own[f]}
      /\ own' = [own EXCEPT ![f] = NoFd] /\ UNCHANGED <<threads, call>>
  BY DEF CloseFd, Goto
<1>2. pc[f] \in Closing /\ to \notin Closing
  BY <1>1 DEF Closing
<1>3. \A g \in Fibers : pc'[g] \in Closing => g # f /\ pc[g] \in Closing /\ own'[g] = own[g]
  BY <1>1, <1>2 DEF TypeOK, HookTypeOK
<1>4. pc'[acceptor] = pc[acceptor]
  BY <1>1, Roles DEF TypeOK, HookTypeOK
<1> QED BY <1>1, <1>2, <1>3, <1>4 DEF AcceptorInv

LEMMA TriggerSpares ==
    ASSUME TypeOK, CallInv, ParkedIsRegistered, AcceptorInv, NEW s \in Slots,
           Trigger({s}), LeaveEpoll(s[1], {s}), UNCHANGED <<threads, call, own>>
    PROVE  AcceptorInv'
<1>1. \A f \in Fibers : pc'[f] \in Closing => pc[f] \in Closing
  BY DEF Trigger, Closing
<1>2. pc'[acceptor] = "parked" =>
          pc[acceptor] = "parked" /\ (call[acceptor].fd \in interest => call[acceptor].fd \in interest')
  BY TriggerLeaves, Roles
<1> QED BY <1>1, <1>2 DEF AcceptorInv

LEMMA AcceptorKept ==
    ASSUME TypeOK, CallInv, RoleInv, ParkedIsRegistered, AloneInv, AcceptorInv, [Next]_vars
    PROVE  AcceptorInv'
<1>1. ASSUME Bind
      PROVE  AcceptorInv'
  BY <1>1, Roles, AcceptorStays DEF Bind, callVars, epollVars, TypeOK, HookTypeOK, Closing
<1>2. ASSUME Start
      PROVE  AcceptorInv'
  BY <1>2, Roles, AcceptorStays DEF Start, Goto, callVars, epollVars, TypeOK, HookTypeOK, Closing
<1>3. ASSUME Stop
      PROVE  AcceptorInv'
  BY <1>3, Roles, AcceptorStays DEF Stop, Goto, callVars, epollVars, TypeOK, HookTypeOK, Closing
<1>4. ASSUME NEW f \in Fibers, Dispatch(f)
      PROVE  AcceptorInv'
  BY <1>4, Roles, AcceptorStays DEF Dispatch, Goto, callVars, epollVars, TypeOK, HookTypeOK, Closing
<1>5. ASSUME LeaveLoop
      PROVE  AcceptorInv'
  BY <1>5, Roles, AcceptorStays DEF LeaveLoop, Goto, callVars, epollVars, TypeOK, HookTypeOK, Closing
<1>6. ASSUME Accept
      PROVE  AcceptorInv'
  BY <1>6, Roles, AcceptorStays DEF Accept, Begin, Goto, callVars, epollVars, TypeOK, HookTypeOK, Closing
<1>7. ASSUME NEW u \in Users, Accepted(u)
      PROVE  AcceptorInv'
  BY <1>7, Roles, AcceptorStays DEF Accepted, AtAccept, Back, epollVars, TypeOK, HookTypeOK, Closing
<1>8. ASSUME AcceptFull
      PROVE  AcceptorInv'
  BY <1>8, Roles, AcceptorStays DEF AcceptFull, Back, Goto, epollVars, TypeOK, HookTypeOK, Closing
<1>9. ASSUME ClearSocks
      PROVE  AcceptorInv'
  BY <1>9, Roles, AcceptorStays DEF ClearSocks, Goto, callVars, epollVars, TypeOK, HookTypeOK, Closing
<1>10. ASSUME NEW f \in Fibers, TryEnds(f), UNCHANGED serverVars
      PROVE  AcceptorInv'
  BY <1>10, Roles, AcceptorStays DEF TryEnds, Goto, Back, epollVars, TypeOK, HookTypeOK, Closing
<1>11. ASSUME NEW f \in Fibers, TryAgain(f), UNCHANGED serverVars
      PROVE  AcceptorInv'
  BY <1>11, Roles, AcceptorStays DEF TryAgain, Goto, callVars, epollVars, TypeOK, HookTypeOK, Closing
<1>12. ASSUME NEW f \in Fibers, Arm(f), UNCHANGED serverVars
      PROVE  AcceptorInv'
  BY <1>12, Roles, AcceptorStays DEF Arm, Goto, callVars, epollVars, TypeOK, HookTypeOK, Closing
<1>13. ASSUME NEW f \in Fibers, AddFails(f), UNCHANGED serverVars
      PROVE  AcceptorInv'
  BY <1>13, Roles, AcceptorStays DEF AddFails, Goto, Back, epollVars, TypeOK, HookTypeOK, Closing
<1>14. ASSUME NEW f \in Fibers, Add(f), UNCHANGED serverVars
      PROVE  AcceptorInv'
  <2>1. CASE f = acceptor
    <3>1. SUFFICES ASSUME threads = 1
                   PROVE  call[acceptor].fd \in interest' /\ \A g \in Fibers : pc'[g] \notin Closing
      BY <1>14, <2>1 DEF Add, AcceptorInv
    <3>2. \A g \in Fibers \ {f} : pc[g] \notin Busy
      BY <1>14, <3>1 DEF Add, AloneInv, Busy
    <3> QED BY <1>14, <2>1, <3>2 DEF Add, Goto, TypeOK, HookTypeOK, Busy, Closing
  <2>2. CASE f # acceptor
    BY <1>14, <2>2, Roles, AcceptorStays DEF Add, Goto, TypeOK, HookTypeOK, Closing
  <2> QED BY <2>1, <2>2
<1>15. ASSUME NEW f \in Fibers, Check(f), UNCHANGED serverVars
      PROVE  AcceptorInv'
  BY <1>15, Roles, AcceptorStays DEF Check, Goto, Back, epollVars, TypeOK, HookTypeOK, Closing
<1>16. ASSUME NEW f \in Fibers, TimeOut(f), UNCHANGED serverVars
      PROVE  AcceptorInv'
  BY <1>16, Roles, AcceptorStays DEF TimeOut, callVars, epollVars, TypeOK, HookTypeOK, Closing
<1>17. ASSUME NEW f \in Fibers, SleepOver(f), UNCHANGED serverVars
      PROVE  AcceptorInv'
  BY <1>17, Roles, AcceptorStays DEF SleepOver, Goto, callVars, epollVars, TypeOK, HookTypeOK, Closing
<1>18. ASSUME NEW f \in Fibers, Expire(f), UNCHANGED serverVars
      PROVE  AcceptorInv'
  BY <1>18, Roles, AcceptorStays DEF Expire, callVars, epollVars, TypeOK, HookTypeOK, Closing
<1>19. ASSUME NEW f \in Fibers, DeleteFd(f), UNCHANGED serverVars
      PROVE  AcceptorInv'
  BY <1>19, Roles, AcceptorStays DEF DeleteFd, Goto, callVars, epollVars, TypeOK, HookTypeOK, Closing
<1>20. ASSUME NEW u \in Users, NEW e \in Events, Transfer(u, e), UNCHANGED serverVars
      PROVE  AcceptorInv'
  BY <1>20, Roles, AcceptorStays DEF Transfer, Begin, Goto, callVars, epollVars, TypeOK, HookTypeOK, Closing
<1>21. ASSUME NEW u \in Users, NEW e \in Events, SetTimeout(u, e), UNCHANGED serverVars
      PROVE  AcceptorInv'
  BY <1>21, Roles, AcceptorStays DEF SetTimeout, callVars, epollVars, TypeOK, HookTypeOK, Closing
<1>22. ASSUME NEW u \in Users, NEW timed \in BOOLEAN, Connect(u, timed), UNCHANGED serverVars
      PROVE  AcceptorInv'
  BY <1>22, Roles, AcceptorStays DEF Connect, Begin, Goto, callVars, epollVars, TypeOK, HookTypeOK, Closing
<1>23. ASSUME NEW u \in Users, NEW mode \in Modes, SetMode(u, mode), UNCHANGED serverVars
      PROVE  AcceptorInv'
  BY <1>23, Roles, AcceptorStays DEF SetMode, callVars, epollVars, TypeOK, HookTypeOK, Closing
<1>24. ASSUME NEW u \in Users, Sleep(u), UNCHANGED serverVars
      PROVE  AcceptorInv'
  BY <1>24, Roles, AcceptorStays DEF Sleep, Goto, callVars, epollVars, TypeOK, HookTypeOK, Closing
<1>25. ASSUME NEW u \in Users, Socket(u), UNCHANGED serverVars
      PROVE  AcceptorInv'
  BY <1>25, Roles, AcceptorStays DEF Socket, Goto, callVars, epollVars, TypeOK, HookTypeOK, Closing
<1>26. ASSUME CancelAll(closer, "cancel", "body"), UNCHANGED serverVars
      PROVE  AcceptorInv'
  BY <1>26, Roles, CancelSpares DEF CancelAll
<1>27. ASSUME NEW f \in Fibers \ {acceptor}, CancelAll(f, "body", "delete"), UNCHANGED serverVars
      PROVE  AcceptorInv'
  BY <1>27, CancelSpares DEF CancelAll
<1>28. ASSUME CloseFd(closer, "clear"), UNCHANGED serverVars
      PROVE  AcceptorInv'
  BY <1>28, Roles, CloseSpares DEF Closing
<1>29. ASSUME NEW u \in Users, CloseFd(u, "idle"), UNCHANGED serverVars
      PROVE  AcceptorInv'
  BY <1>29, Roles, CloseSpares DEF Closing
<1>30. ASSUME NEW s \in Slots, CancelEvent(s), UNCHANGED serverVars
      PROVE  AcceptorInv'
  <2>1. CASE Trigger({s}) /\ LeaveEpoll(s[1], {s})
    BY <1>30, <2>1, TriggerSpares DEF CancelEvent
  <2>2. CASE UNCHANGED <<pc, epollVars>>
    BY <1>30, <2>2, AcceptorStays DEF CancelEvent, epollVars
  <2> QED BY <1>30, <2>1, <2>2 DEF CancelEvent
<1>31. ASSUME NEW s \in Slots, Deliver(s), UNCHANGED serverVars
      PROVE  AcceptorInv'
  BY <1>31, TriggerSpares DEF Deliver
<1>32. ASSUME UNCHANGED vars
      PROVE  AcceptorInv'
  BY <1>32, Roles, AcceptorStays DEF vars, hookVars, callVars, callVars, epollVars, TypeOK, HookTypeOK, Closing
<1>33. ASSUME StartNothing
      PROVE  AcceptorInv'
  BY <1>33, Roles, AcceptorStays DEF StartNothing, callVars, epollVars, TypeOK, HookTypeOK,
      Closing, hookVars, timerVars, tableVars, kernelVars
<1>34. ASSUME CloseNothing
      PROVE  AcceptorInv'
  BY <1>34, Roles, AcceptorStays DEF CloseNothing, Goto, callVars, epollVars, TypeOK,
      HookTypeOK, Closing
<1>35. ASSUME LoopOn
      PROVE  AcceptorInv'
  BY <1>35, Roles, AcceptorStays DEF LoopOn, Goto, callVars, epollVars, TypeOK, HookTypeOK,
      Closing
<1>36. ASSUME AcceptFails
      PROVE  AcceptorInv'
  BY <1>36, Roles, AcceptorStays DEF AcceptFails, Goto, callVars, epollVars, TypeOK, HookTypeOK,
      Closing
<1> QED
  BY <1>1, <1>2, <1>3, <1>4, <1>5, <1>6, <1>7, <1>8, <1>9, <1>10, <1>11, <1>12, <1>13, <1>14,
       <1>15, <1>16, <1>17, <1>18, <1>19, <1>20, <1>21, <1>22, <1>23, <1>24, <1>25, <1>26,
       <1>27, <1>28, <1>29, <1>30, <1>31, <1>32, <1>33, <1>34, <1>35, <1>36, Roles
     DEF Next, ServerStep, FiberStep, CallStep, Resume, UserStep, SlotStep, CancelSock

-----------------------------------------------------------------------------
(* Theorems.                                                                *)

LEMMA ServerStarts == Init => ServerInv /\ TableInv
<1> SUFFICES ASSUME Init PROVE ServerInv /\ TableInv
  OBVIOUS
<1> USE DEF Init, HookInit
<1>1. TypeOK
  BY ThreadsAssumption DEF TypeOK, HookTypeOK, Labels, NoCall, Calls, Events
<1>2. CallInv /\ TimerInv /\ ParkedIsRegistered /\ OwnersCanBeWoken
  BY Roles DEF CallInv, NoCall, TimerInv, TimersEndWithCalls, ParkedIsRegistered, OwnersCanBeWoken
<1>3. RoleInv /\ OwnInv
  BY Roles DEF RoleInv, NoCall, OwnInv, OwnedOnce
<1>4. TableInv
  BY DEF TableInv, TableMatchesKernel
<1> QED BY <1>1, <1>2, <1>3, <1>4 DEF ServerInv

LEMMA ServerInvariant == Spec => []ServerInv
<1>1. Init => ServerInv
  BY ServerStarts
<1>2. ServerInv /\ [Next]_vars => ServerInv'
  <2> SUFFICES ASSUME ServerInv, [Next]_vars PROVE ServerInv'
    OBVIOUS
  <2> QED BY TypeKept, CallKept, ParkedKept, TimerKept, RoleKept, OwnKept, OwnersKept
            DEF ServerInv
<1> QED BY <1>1, <1>2, PTL DEF Spec

\* The state of the hooked calls and of the server keeps its types, for any descriptors,
\* users and threads (FdManager.h, Hook.cc:66-68, TcpServer.h).
THEOREM ServerTypeCorrect == Spec => []TypeOK
<1>1. ServerInv => TypeOK
  BY DEF ServerInv
<1> QED BY <1>1, ServerInvariant, PTL

\* A fiber that has yielded in a call is registered for what it waits for, and nobody else is
\* (Hook.cc:138-151, IOManager.cc:62-79).
THEOREM Registered == Spec => []ParkedIsRegistered
<1>1. ServerInv => ParkedIsRegistered
  BY DEF ServerInv
<1> QED BY <1>1, ServerInvariant, PTL

\* A timer does not outlive the call it was set for (Hook.cc:118-161, 288-321).
THEOREM NoStrayTimer == Spec => []TimersEndWithCalls
<1>1. ServerInv => TimersEndWithCalls
  BY DEF ServerInv, TimerInv
<1> QED BY <1>1, ServerInvariant, PTL

\* A descriptor is closed by one fiber, once (Hook.cc:409-423, TcpServer.cc:153-163).
THEOREM ClosedOnce == Spec => []OwnedOnce
<1>1. ServerInv => OwnedOnce
  BY DEF ServerInv, OwnInv
<1> QED BY <1>1, ServerInvariant, PTL

\* A handler that waits on its connection is known to epoll with that descriptor, whoever
\* opens and closes descriptors in the meantime (Hook.cc:118-161, 409-423).
THEOREM HandlersCanBeWoken == Spec => []OwnersCanBeWoken
<1>1. ServerInv => OwnersCanBeWoken
  BY DEF ServerInv
<1> QED BY <1>1, ServerInvariant, PTL

\* Unless ioctl() clears O_NONBLOCK, the table agrees with the kernel about every descriptor
\* that is not just being closed (FdManager.cc:66-110, Hook.cc:409-423, 521).
THEOREM TableAgrees == <<"ioctl", FALSE>> \notin Modes => (Spec => []TableMatchesKernel)
<1> SUFFICES ASSUME <<"ioctl", FALSE>> \notin Modes PROVE Spec => []TableMatchesKernel
  OBVIOUS
<1>1. Init => TableInv
  BY ServerStarts
<1>2. ServerInv /\ TableInv /\ [Next]_vars => TableInv'
  BY TableKept DEF ServerInv
<1>3. TableInv => TableMatchesKernel
  BY DEF TableInv
<1> QED BY <1>1, <1>2, <1>3, ServerInvariant, PTL DEF Spec

\* Every fiber that waits can be woken; the acceptor, whose socket another fiber closes, if
\* there is one thread: then nothing comes between the cancelAll() and the close_f() of
\* close(), nor between accept() and addEvent() (Hook.cc:138-151, 409-423).
THEOREM WaitsEnd == Spec => []WaitsCanEnd
<1>1. Init => AloneInv /\ AcceptorInv
  BY Roles DEF Init, HookInit, AloneInv, AcceptorInv, Busy
<1>2. ServerInv /\ AloneInv /\ AcceptorInv /\ [Next]_vars => (AloneInv /\ AcceptorInv)'
  BY AloneKept, AcceptorKept DEF ServerInv
<1>3. ServerInv /\ AcceptorInv => WaitsCanEnd
  BY Roles DEF ServerInv, RoleInv, AcceptorInv, OwnersCanBeWoken, WaitsCanEnd
<1> QED BY <1>1, <1>2, <1>3, ServerInvariant, PTL DEF Spec
=============================================================================
