-------------------------------- MODULE Hook --------------------------------
(***************************************************************************)
(* The hooked system calls (Hook.cc) and the table of descriptors they     *)
(* look at (FdManager.cc).  A call that would block registers its fiber    *)
(* for an event, may set a timer, and yields; when it runs again it tries  *)
(* once more, unless its timer has cancelled the wait.                     *)
(*                                                                         *)
(* The scheduler is here a number of threads on which fibers and timer     *)
(* callbacks take turns in any order; timers come due at any moment.  The  *)
(* contexts of the descriptors and epoll are those of module IOManager,    *)
(* with descriptors that are closed and whose numbers are used again.      *)
(***************************************************************************)
EXTENDS Integers, FiniteSets, Functions

CONSTANTS
    Fibers,
    NoFiber,
    Fds,            \* the numbers of descriptors
    MaxThreads,
    Modes           \* how the blocking mode of a socket is changed: call and value

READ == "READ"
WRITE == "WRITE"
Events == {READ, WRITE}
Slots == Fds \X Events
NoFd == -1

ASSUME FibersAssumption == NoFiber \notin Fibers /\ IsFiniteSet(Fibers)
ASSUME FdsAssumption == Fds \subseteq Nat /\ IsFiniteSet(Fds)
ASSUME ThreadsAssumption == MaxThreads \in Nat \ {0}
ASSUME ModesAssumption == Modes \subseteq {"fcntl", "ioctl"} \X BOOLEAN

VARIABLES
    threads,    \* how many threads there are
    pc,         \* what each fiber is doing
    call,       \* the descriptor, the event, the kind of the call it is in, and whether timed
    cancelled,  \* the fibers whose timer_info has cancelled set
    timers,     \* the fibers with a timer in TimerManager
    fired,      \* those whose callback has been taken from there
    aimed,      \* callbacks between setting cancelled and cancelEvent(), by slot
    waiter,     \* the contexts: the fiber registered for each slot
    own,        \* the descriptor a fiber has opened, or is closing
    managed,    \* FdManager: the descriptors in the table,
    userNonBlock,   \* those the user has made non-blocking,
    timeouts,       \* and the slots with a timeout
    open,       \* the kernel: open descriptors,
    nonblock,   \* the non-blocking ones,
    listening,  \* the listening ones,
    interest    \* and those in the epoll set

callVars == <<pc, call, cancelled>>
timerVars == <<timers, fired, aimed>>
tableVars == <<managed, userNonBlock, timeouts>>
kernelVars == <<open, nonblock, listening>>
epollVars == <<waiter, interest>>
hookVars == <<threads, callVars, timerVars, epollVars, own, tableVars, kernelVars>>

NoCall == [fd |-> NoFd, ev |-> READ, op |-> "none", timed |-> FALSE]

HookInit ==
    /\ threads \in 1 .. MaxThreads
    /\ pc = [f \in Fibers |-> "idle"]
    /\ call = [f \in Fibers |-> NoCall]
    /\ cancelled = {} /\ timers = {} /\ fired = {}
    /\ aimed = [s \in Slots |-> 0]
    /\ waiter = [s \in Slots |-> NoFiber]
    /\ own = [f \in Fibers |-> NoFd]
    /\ managed = {} /\ userNonBlock = {} /\ timeouts = {}
    /\ open = {} /\ nonblock = {} /\ listening = {} /\ interest = {}

-----------------------------------------------------------------------------
(* Threads, descriptors and contexts.                                       *)

Running == {f \in Fibers : pc[f] \in {"body", "call", "try", "arm", "add", "cancel", "delete", "shut", "clear"}}
ThreadFree == Cardinality(Running) + SumFunction(aimed) < threads

Goto(f, l) == pc' = [pc EXCEPT ![f] = l]
Slot(f) == <<call[f].fd, call[f].ev>>

\* socket_f and accept_f give the lowest number that is not in use.
FreeFds == Fds \ open
NewFd == CHOOSE d \in FreeFds : \A x \in FreeFds : d <= x

\* What fd_ctx->events has for a descriptor.
Awaited(d) == {s \in Slots : s[1] = d /\ waiter[s] # NoFiber}

\* triggerEvent(): the waits for S end and the fibers go into the task queue.
Trigger(S) ==
    /\ waiter' = [s \in Slots |-> IF s \in S THEN NoFiber ELSE waiter[s]]
    /\ pc' = [f \in Fibers |-> IF \E s \in S : waiter[s] = f THEN "woken" ELSE pc[f]]

\* The same for a fiber that goes on to l itself.
TriggerAndGoto(S, f, l) ==
    /\ waiter' = [s \in Slots |-> IF s \in S THEN NoFiber ELSE waiter[s]]
    /\ pc' = [g \in Fibers |-> IF g = f THEN l ELSE IF \E s \in S : waiter[s] = g THEN "woken" ELSE pc[g]]

\* epoll_ctl after S has been taken from the events of d: MOD, or DEL if nothing is left.
LeaveEpoll(d, S) == interest' = IF Awaited(d) = S THEN interest \ {d} ELSE interest

-----------------------------------------------------------------------------
(* do_io() and connect_with_timeout().                                      *)

\* The call is over: its timer_info is gone, and with it what its callbacks would do.
Back(f) ==
    /\ call' = [call EXCEPT ![f] = NoCall]
    /\ cancelled' = cancelled \ {f}
    /\ fired' = fired \ {f}

Begin(f, d, e, op, timed) ==
    /\ call' = [call EXCEPT ![f] = [fd |-> d, ev |-> e, op |-> op, timed |-> timed]]
    /\ Goto(f, "try")
    /\ UNCHANGED <<threads, cancelled, timerVars, epollVars, own, tableVars, kernelVars>>

Hooked(d) == d \in managed /\ d \notin userNonBlock

\* read(), recv(), write(), send() and their kin; on a descriptor the user has made
\* non-blocking the call goes straight to the kernel and changes nothing here.
Transfer(f, e) ==
    /\ pc[f] = "body" /\ own[f] # NoFd /\ Hooked(own[f])
    /\ Begin(f, own[f], e, "io", <<own[f], e>> \in timeouts)

Connect(f, timed) ==
    /\ pc[f] = "body" /\ own[f] # NoFd /\ Hooked(own[f])
    /\ Begin(f, own[f], WRITE, "connect", timed)

\* The kernel has a result, as it always has for a closed descriptor and for accept() on
\* what is no listening socket.
TryEnds(f) ==
    /\ pc[f] = "try"
    /\ call[f].op = "accept" => call[f].fd \notin listening
    /\ Back(f) /\ Goto(f, "body")
    /\ UNCHANGED <<threads, timers, aimed, epollVars, own, tableVars, kernelVars>>

\* EAGAIN or EINPROGRESS; on a blocking descriptor the thread waits in the kernel instead.
TryAgain(f) ==
    /\ pc[f] = "try" /\ call[f].fd \in open \cap nonblock
    /\ call[f].op = "accept" => call[f].fd \in listening
    /\ Goto(f, IF call[f].timed THEN "arm" ELSE "add")
    /\ UNCHANGED <<threads, call, cancelled, timerVars, epollVars, own, tableVars, kernelVars>>

\* addConditionTimer().
Arm(f) ==
    /\ pc[f] = "arm"
    /\ timers' = timers \cup {f}
    /\ Goto(f, "add")
    /\ UNCHANGED <<threads, call, cancelled, fired, aimed, epollVars, own, tableVars, kernelVars>>

\* addEvent() finds the event awaited, or epoll_ctl refuses: EBADF, or ENOENT for a MOD.
Refused(s) == waiter[s] # NoFiber \/ s[1] \notin IF Awaited(s[1]) = {} THEN open ELSE interest

\* Slip: the timer of a wait that could not begin stays.
AddFailsArmed(f) ==
    /\ pc[f] = "add" /\ Refused(Slot(f))
    /\ Back(f) /\ Goto(f, "body")
    /\ UNCHANGED <<threads, timers, aimed, epollVars, own, tableVars, kernelVars>>

AddFails(f) ==
    /\ pc[f] = "add" /\ Refused(Slot(f))
    /\ timers' = timers \ {f}
    /\ Back(f) /\ Goto(f, "body")
    /\ UNCHANGED <<threads, aimed, epollVars, own, tableVars, kernelVars>>

\* Registered: the fiber yields.
Add(f) ==
    /\ pc[f] = "add" /\ ~Refused(Slot(f))
    /\ waiter' = [waiter EXCEPT ![Slot(f)] = f]
    /\ interest' = interest \cup {call[f].fd}
    /\ Goto(f, "parked")
    /\ UNCHANGED <<threads, call, cancelled, timerVars, own, tableVars, kernelVars>>

\* The fiber runs again: ETIMEDOUT, the result of connect(), or one more try.
Check(f) ==
    /\ pc[f] = "woken" /\ ThreadFree
    /\ timers' = timers \ {f}
    /\ IF f \in cancelled \/ call[f].op \in {"none", "connect"}
       THEN Back(f) /\ Goto(f, "body")
       ELSE Goto(f, "try") /\ UNCHANGED <<call, cancelled, fired>>
    /\ UNCHANGED <<threads, aimed, epollVars, own, tableVars, kernelVars>>

Sleep(f) ==
    /\ pc[f] = "body" /\ own[f] # NoFd
    /\ timers' = timers \cup {f}
    /\ Goto(f, "asleep")
    /\ UNCHANGED <<threads, call, cancelled, fired, aimed, epollVars, own, tableVars, kernelVars>>

-----------------------------------------------------------------------------
(* What ends a wait.                                                        *)

\* listExpiredCb() hands the callback to the scheduler.
Expire(f) ==
    /\ f \in timers
    /\ timers' = timers \ {f} /\ fired' = fired \cup {f}
    /\ UNCHANGED <<threads, callVars, aimed, epollVars, own, tableVars, kernelVars>>

\* Slip: the call is marked as timed out and the wait goes on.
TimeOutMarks(f) ==
    /\ f \in fired /\ pc[f] # "asleep" /\ ThreadFree
    /\ fired' = fired \ {f}
    /\ cancelled' = cancelled \cup {f}
    /\ UNCHANGED <<threads, pc, call, timers, aimed, epollVars, own, tableVars, kernelVars>>

\* The callback of a call: it is marked as timed out, unless it is already.
TimeOut(f) ==
    /\ f \in fired /\ pc[f] # "asleep" /\ ThreadFree
    /\ fired' = fired \ {f}
    /\ cancelled' = cancelled \cup {f}
    /\ aimed' = IF f \in cancelled THEN aimed ELSE [aimed EXCEPT ![Slot(f)] = @ + 1]
    /\ UNCHANGED <<threads, pc, call, timers, epollVars, own, tableVars, kernelVars>>

\* The second half: cancelEvent() for whoever waits there by then.
CancelEvent(s) ==
    /\ aimed[s] > 0
    /\ aimed' = [aimed EXCEPT ![s] = @ - 1]
    /\ IF waiter[s] = NoFiber \/ s[1] \notin interest
       THEN UNCHANGED <<pc, epollVars>>
       ELSE Trigger({s}) /\ LeaveEpoll(s[1], {s})
    /\ UNCHANGED <<threads, call, cancelled, timers, fired, own, tableVars, kernelVars>>

\* The callback of sleep() schedules the fiber.
SleepOver(f) ==
    /\ f \in fired /\ pc[f] = "asleep" /\ ThreadFree
    /\ fired' = fired \ {f}
    /\ Goto(f, "woken")
    /\ UNCHANGED <<threads, call, cancelled, timers, aimed, epollVars, own, tableVars, kernelVars>>

\* idle() is told of an event that is awaited and wakes the waiter.
Deliver(s) ==
    /\ waiter[s] # NoFiber /\ s[1] \in interest
    /\ Trigger({s}) /\ LeaveEpoll(s[1], {s})
    /\ UNCHANGED <<threads, call, cancelled, timerVars, own, tableVars, kernelVars>>

-----------------------------------------------------------------------------
(* Descriptors come and go.                                                 *)

\* A socket is in the table, non-blocking in the kernel and blocking for the user.
\* socket_f or accept_f and the entry are one step: until the call returns nobody else has been
\* told the number, and who still has it from before its last close() asks it for connections,
\* which a new socket refuses with an entry or without.
Opened(d) ==
    /\ open' = open \cup {d} /\ nonblock' = nonblock \cup {d} /\ managed' = managed \cup {d}
    /\ UNCHANGED userNonBlock

\* socket(), by which a fiber of the user begins here.
Socket(f) ==
    /\ pc[f] = "idle" /\ own[f] = NoFd /\ FreeFds # {} /\ ThreadFree
    /\ Opened(NewFd)
    /\ own' = [own EXCEPT ![f] = NewFd]
    /\ Goto(f, "body")
    /\ UNCHANGED <<threads, call, cancelled, timerVars, epollVars, timeouts, listening>>

\* fcntl() keeps the kernel's flag, ioctl() passes the user's on.
SetMode(f, mode) ==
    LET d == own[f] IN
    /\ pc[f] = "body" /\ d \in managed
    /\ userNonBlock' = IF mode[2] THEN userNonBlock \cup {d} ELSE userNonBlock \ {d}
    /\ nonblock' = IF mode[1] = "fcntl" THEN nonblock
                   ELSE IF mode[2] THEN nonblock \cup {d} ELSE nonblock \ {d}
    /\ UNCHANGED <<threads, callVars, timerVars, epollVars, own, managed, timeouts, open, listening>>

SetTimeout(f, e) ==
    /\ pc[f] = "body" /\ own[f] \in managed
    /\ timeouts' = timeouts \cup {<<own[f], e>>}
    /\ UNCHANGED <<threads, callVars, timerVars, epollVars, own, managed, userNonBlock, kernelVars>>

\* Slip: the descriptor leaves epoll and nobody is told.
CancelAllSilent(f, from, to) ==
    /\ pc[f] = from /\ own[f] # NoFd
    /\ Goto(f, to)
    /\ interest' = interest \ {own[f]}
    /\ UNCHANGED <<threads, call, cancelled, timerVars, waiter, own, tableVars, kernelVars>>

\* cancelAll(): what waits for the descriptor is woken, unless epoll does not know it.
CancelAll(f, from, to) ==
    LET d == own[f]
        S == IF d \in interest THEN Awaited(d) ELSE {}
    IN
    /\ pc[f] = from /\ d # NoFd
    /\ TriggerAndGoto(S, f, to)
    /\ interest' = interest \ {d}
    /\ UNCHANGED <<threads, call, cancelled, timerVars, own, tableVars, kernelVars>>

\* Slip: the number is given back before the table is cleared.
DeleteFdLate(f) ==
    /\ pc[f] = "delete"
    /\ open' = open \ {own[f]} /\ interest' = interest \ {own[f]}
    /\ Goto(f, "shut")
    /\ UNCHANGED <<threads, call, cancelled, timerVars, waiter, own, tableVars, nonblock, listening>>

DeleteFd(f) ==
    LET d == own[f] IN
    /\ pc[f] = "delete"
    /\ managed' = managed \ {d} /\ userNonBlock' = userNonBlock \ {d}
    /\ timeouts' = {s \in timeouts : s[1] # d}
    /\ Goto(f, "shut")
    /\ UNCHANGED <<threads, call, cancelled, timerVars, epollVars, own, kernelVars>>

\* Slip: the contexts are emptied as well.
CloseFdResets(f, to) ==
    LET d == own[f] IN
    /\ pc[f] = "shut"
    /\ open' = open \ {d} /\ nonblock' = nonblock \ {d} /\ listening' = listening \ {d}
    /\ interest' = interest \ {d}
    /\ waiter' = [s \in Slots |-> IF s[1] = d THEN NoFiber ELSE waiter[s]]
    /\ own' = [own EXCEPT ![f] = NoFd]
    /\ Goto(f, to)
    /\ UNCHANGED <<threads, call, cancelled, timerVars, tableVars>>

\* close_f: the kernel takes the descriptor from the epoll set; the contexts stay as they are.
CloseFd(f, to) ==
    LET d == own[f] IN
    /\ pc[f] = "shut"
    /\ open' = open \ {d} /\ nonblock' = nonblock \ {d} /\ listening' = listening \ {d}
    /\ interest' = interest \ {d}
    /\ own' = [own EXCEPT ![f] = NoFd]
    /\ Goto(f, to)
    /\ UNCHANGED <<threads, call, cancelled, timerVars, waiter, tableVars>>

-----------------------------------------------------------------------------
(* What the fibers do.                                                      *)

CallStep(f) ==
    \/ TryEnds(f) \/ TryAgain(f) \/ Arm(f) \/ AddFails(f) \/ Add(f)

UserStep(f) ==
    \/ \E e \in Events : Transfer(f, e) \/ SetTimeout(f, e)
    \/ \E timed \in BOOLEAN : Connect(f, timed)
    \/ \E mode \in Modes : SetMode(f, mode)
    \/ Sleep(f) \/ Socket(f) \/ CancelAll(f, "body", "delete") \/ CloseFd(f, "idle")

\* What waits for a thread.
Resume(f) == Check(f) \/ TimeOut(f) \/ SleepOver(f)

FiberStep(f) == CallStep(f) \/ Resume(f) \/ Expire(f) \/ DeleteFd(f)

SlotStep(s) == CancelEvent(s) \/ Deliver(s)

-----------------------------------------------------------------------------
(* Properties.                                                              *)

Labels == {"idle", "new", "body", "call", "try", "arm", "add", "parked", "woken", "asleep",
           "cancel", "delete", "shut", "clear"}
Calls == [fd : Fds \cup {NoFd}, ev : Events, op : {"none", "io", "connect", "accept"}, timed : BOOLEAN]

\* Types of the state (FdManager.h, Hook.cc:66-68).
HookTypeOK ==
    /\ threads \in 1 .. MaxThreads
    /\ pc \in [Fibers -> Labels] /\ call \in [Fibers -> Calls]
    /\ cancelled \subseteq Fibers /\ timers \subseteq Fibers /\ fired \subseteq Fibers
    /\ aimed \in [Slots -> Nat]
    /\ waiter \in [Slots -> Fibers \cup {NoFiber}]
    /\ own \in [Fibers -> Fds \cup {NoFd}]
    /\ managed \subseteq Fds /\ userNonBlock \subseteq Fds /\ timeouts \subseteq Slots
    /\ open \subseteq Fds /\ nonblock \subseteq Fds /\ listening \subseteq Fds /\ interest \subseteq Fds

\* A fiber that has yielded in a call is registered for what it waits for, and nobody else
\* is: a wake-up reaches the fiber it is meant for, once (Hook.cc:138-151, 304-314,
\* IOManager.cc:62-79).
ParkedIsRegistered ==
    /\ \A f \in Fibers : pc[f] = "parked" => waiter[Slot(f)] = f
    /\ \A s \in Slots : waiter[s] # NoFiber => pc[waiter[s]] = "parked" /\ Slot(waiter[s]) = s

\* A timer is set only while its call can still wait, and no call is marked as timed out
\* that has no timeout: whatever fails after the timer was added cancels it
\* (Hook.cc:118-161, 288-321).
TimersEndWithCalls ==
    /\ \A f \in timers : pc[f] = "asleep" \/ (pc[f] \in {"add", "parked", "woken"} /\ call[f].timed)
    /\ \A f \in fired \cup cancelled : pc[f] = "asleep" \/ call[f].timed

\* The table speaks of the descriptor that has the number now: an entry belongs to an open
\* descriptor that cannot block a thread, and only one that is being closed has none
\* (FdManager.cc:66-110, Hook.cc:250, 350, 409-423).
TableMatchesKernel ==
    /\ managed \subseteq open \cap nonblock
    /\ userNonBlock \subseteq managed /\ \A s \in timeouts : s[1] \in managed
    /\ \A d \in open \ managed : \E f \in Fibers : pc[f] = "shut" /\ own[f] = d

\* No two fibers are closing or using a descriptor as their own, and what they have is open:
\* a number is not closed twice, the second time under its next owner (Hook.cc:409-423,
\* Socket.cc:221-231).
OwnedOnce ==
    \A f \in Fibers : own[f] # NoFd =>
        own[f] \in open /\ \A g \in Fibers \ {f} : own[g] # own[f]
=============================================================================
