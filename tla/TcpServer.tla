------------------------------ MODULE TcpServer ------------------------------
(***************************************************************************)
(* East::TcpServer (TcpServer.cc) with one listening socket, on the hooked *)
(* calls of module Hook: one fiber accepts, each connection gets a fiber   *)
(* of its own that reads and writes with a timeout, and stop() has the     *)
(* socket closed by a function that is scheduled on the same IOManager.    *)
(* start() and stop() are called in any order; but there is one fiber for  *)
(* the loop and one for stop()'s function, so that a second loop, or a     *)
(* second function, begins when the first has ended.                       *)
(***************************************************************************)
EXTENDS Hook

CONSTANTS
    acceptor,   \* the fiber of startAccept()
    closer,     \* the function that stop() schedules
    Users       \* the fibers of handleClient() and of other users of sockets

ASSUME ServerAssumption == acceptor \in Fibers /\ closer \in Fibers \ {acceptor}
ASSUME UsersAssumption == Users = Fibers \ {acceptor, closer}
ASSUME UsersSuffice == Cardinality(Users) >= Cardinality(Fds) - 1

VARIABLES
    isStop,     \* m_isStop
    sock,       \* m_sock of the socket in m_socks, or NoFd if that is empty
    accepting   \* m_sock of the socket startAccept() was given

serverVars == <<isStop, sock, accepting>>
vars == <<hookVars, serverVars>>

Init == HookInit /\ isStop = TRUE /\ sock = NoFd /\ accepting = NoFd

\* bind() and listen() of the only address.
Bind ==
    /\ sock = NoFd /\ FreeFds # {}
    /\ Opened(NewFd)
    /\ listening' = listening \cup {NewFd}
    /\ sock' = NewFd
    /\ UNCHANGED <<threads, callVars, timerVars, epollVars, own, timeouts, isStop, accepting>>

\* start(), also while stop()'s function has yet to close the socket.
Start ==
    /\ isStop /\ sock # NoFd /\ pc[acceptor] = "idle"
    /\ isStop' = FALSE
    /\ accepting' = sock
    /\ Goto(acceptor, "new")
    /\ UNCHANGED <<threads, call, cancelled, timerVars, epollVars, own, tableVars, kernelVars, sock>>

\* Without a socket start() only takes the flag back.
StartNothing ==
    /\ isStop /\ sock = NoFd
    /\ isStop' = FALSE
    /\ UNCHANGED <<hookVars, sock, accepting>>

\* Slip: the loop is only told by the flag.
StopFlagOnly ==
    /\ pc[closer] = "idle"
    /\ isStop' = TRUE
    /\ UNCHANGED <<hookVars, sock, accepting>>

Stop ==
    /\ pc[closer] = "idle"
    /\ isStop' = TRUE
    /\ Goto(closer, "new")
    /\ UNCHANGED <<threads, call, cancelled, timerVars, epollVars, own, tableVars, kernelVars, sock, accepting>>

\* A task is taken from the queue for the first time.
Dispatch(f) ==
    /\ pc[f] = "new" /\ ThreadFree /\ (f = closer => sock # NoFd)
    /\ Goto(f, IF f = closer THEN "cancel" ELSE "body")
    /\ own' = IF f = closer THEN [own EXCEPT ![f] = sock] ELSE own
    /\ UNCHANGED <<threads, call, cancelled, timerVars, epollVars, tableVars, kernelVars, serverVars>>

\* stop()'s function finds no socket.
CloseNothing ==
    /\ pc[closer] = "new" /\ ThreadFree /\ sock = NoFd
    /\ Goto(closer, "idle")
    /\ UNCHANGED <<threads, call, cancelled, timerVars, epollVars, own, tableVars, kernelVars, serverVars>>

-----------------------------------------------------------------------------
(* startAccept().                                                           *)

LeaveLoop ==
    /\ pc[acceptor] = "body" /\ isStop
    /\ Goto(acceptor, "idle")
    /\ UNCHANGED <<threads, call, cancelled, timerVars, epollVars, own, tableVars, kernelVars, serverVars>>

LoopOn ==
    /\ pc[acceptor] = "body" /\ ~isStop
    /\ Goto(acceptor, "call")
    /\ UNCHANGED <<threads, call, cancelled, timerVars, epollVars, own, tableVars, kernelVars, serverVars>>

Accept ==
    /\ pc[acceptor] = "call" /\ Hooked(accepting)
    /\ Begin(acceptor, accepting, READ, "accept", <<accepting, READ>> \in timeouts)
    /\ UNCHANGED serverVars

\* A socket that is being closed is not in the table any more: accept() goes straight to the
\* kernel, which may have a connection until close_f, and fails otherwise.
AcceptFails ==
    /\ pc[acceptor] = "call" /\ ~Hooked(accepting)
    /\ Goto(acceptor, "body")
    /\ UNCHANGED <<threads, call, cancelled, timerVars, epollVars, own, tableVars, kernelVars, serverVars>>

AtAccept ==
    \/ pc[acceptor] = "try" /\ call[acceptor].fd \in listening
    \/ pc[acceptor] = "call" /\ accepting \in listening /\ ~Hooked(accepting)

\* A connection: its descriptor is managed and has a timeout for reading, and
\* handleClient() is scheduled.
Accepted(u) ==
    /\ AtAccept
    /\ FreeFds # {} /\ pc[u] = "idle"
    /\ Opened(NewFd)
    /\ timeouts' = timeouts \cup {<<NewFd, READ>>}
    /\ own' = [own EXCEPT ![u] = NewFd]
    /\ pc' = [pc EXCEPT ![acceptor] = "body", ![u] = "new"]
    /\ Back(acceptor)
    /\ UNCHANGED <<threads, timers, aimed, epollVars, listening, serverVars>>

\* Slip: the -1 is entered in the table.
AcceptFullUnchecked ==
    /\ pc[acceptor] = "try" /\ call[acceptor].fd \in listening
    /\ FreeFds = {}
    /\ managed' = managed \cup {NoFd}
    /\ Goto(acceptor, "body")
    /\ Back(acceptor)
    /\ UNCHANGED <<threads, timers, aimed, epollVars, own, userNonBlock, timeouts, kernelVars, serverVars>>

\* EMFILE: the connection stays and the loop tries again at once.
AcceptFull ==
    /\ pc[acceptor] = "try" /\ call[acceptor].fd \in listening
    /\ FreeFds = {}
    /\ Goto(acceptor, "body")
    /\ Back(acceptor)
    /\ UNCHANGED <<threads, timers, aimed, epollVars, own, tableVars, kernelVars, serverVars>>

-----------------------------------------------------------------------------
(* The function that stop() schedules: cancelAll(), and close() with one of *)
(* its own.                                                                 *)

CancelSock == CancelAll(closer, "cancel", "body") \/ CancelAll(closer, "body", "delete")

\* Slip: the socket keeps the number.
ClearSocksKept ==
    /\ pc[closer] = "clear"
    /\ Goto(closer, "idle")
    /\ UNCHANGED <<threads, call, cancelled, timerVars, epollVars, own, tableVars, kernelVars, serverVars>>

\* Between close_f and here the socket has a number that is not its own any more.
ClearSocks ==
    /\ pc[closer] = "clear"
    /\ sock' = NoFd /\ accepting' = NoFd
    /\ Goto(closer, "idle")
    /\ UNCHANGED <<threads, call, cancelled, timerVars, epollVars, own, tableVars, kernelVars, isStop>>

ServerStep ==
    \/ \E f \in Fibers : FiberStep(f)
    \/ \E u \in Users : UserStep(u)
    \/ \E s \in Slots : SlotStep(s)
    \/ CancelSock \/ CloseFd(closer, "clear")

Next ==
    \/ Bind \/ Start \/ StartNothing \/ Stop \/ CloseNothing
    \/ \E f \in Fibers : Dispatch(f)
    \/ LeaveLoop \/ LoopOn \/ Accept \/ AcceptFails \/ AcceptFull \/ \E u \in Users : Accepted(u)
    \/ ClearSocks
    \/ ServerStep /\ UNCHANGED serverVars

Spec == Init /\ [][Next]_vars

-----------------------------------------------------------------------------
(* Fairness.                                                                *)

Still == UNCHANGED serverVars

\* What the thread of a fiber does next; only a handler chooses itself.
Runs(f) ==
    \/ Still /\ (CallStep(f) \/ DeleteFd(f) \/ (f \in Users /\ CloseFd(f, "idle")))
    \/ f = acceptor /\ (LeaveLoop \/ LoopOn \/ Accept \/ AcceptFails \/ AcceptFull \/ \E u \in Users : Accepted(u))
    \/ f = closer /\ (ClearSocks \/ (Still /\ (CancelSock \/ CloseFd(f, "clear"))))

\* Threads go on with what they run, timers come due, and the task queue is served in turn.
\* Of the users it is assumed that handlers come to their end, and that connections do not
\* come without a pause: a fiber that never has to wait never gives up its thread.
Fairness ==
    /\ \A f \in Fibers : WF_vars(Runs(f)) /\ SF_vars(Dispatch(f) \/ (f = closer /\ CloseNothing) \/ (Still /\ Resume(f)))
    /\ \A u \in Users : WF_vars(Still /\ Expire(u)) /\ SF_vars(Still /\ CancelAll(u, "body", "delete"))
    /\ SF_vars(Still /\ TryAgain(acceptor))
    /\ WF_vars(Still /\ \E s \in Slots : CancelEvent(s))

FairSpec == Spec /\ Fairness

-----------------------------------------------------------------------------
(* Properties.                                                              *)

TypeOK ==
    /\ HookTypeOK
    /\ isStop \in BOOLEAN
    /\ sock \in Fds \cup {NoFd} /\ accepting \in Fds \cup {NoFd}

\* Whoever waits can be woken: epoll knows the descriptor.  The acceptor, whose socket
\* another fiber closes, is sure of that only when the two share one thread; otherwise it
\* may register again between cancelAll() and close_f (Hook.cc:409-423, TcpServer.cc:153-163).
WaitsCanEnd ==
    \A f \in Fibers : pc[f] = "parked" /\ (f # acceptor \/ threads = 1) => call[f].fd \in interest

\* When start() comes between stop() and its function, the socket is closed under a loop that
\* has been told to go on: it calls accept() again and again and keeps its thread.
Spins == ~isStop /\ accepting = NoFd /\ pc[acceptor] \in {"body", "call"}

\* With one thread every wait with a timeout ends, unless the loop spins for good.  With two,
\* the callback of an earlier try may come between the check and the next wait, and then
\* nothing ends that wait (Hook.cc:118-161, TcpServer.cc:129-163).
TimedWaitEnds ==
    \A u \in Users : threads = 1 /\ pc[u] = "parked" /\ call[u].timed ~> pc[u] # "parked" \/ Spins

\* With one thread startAccept() returns after stop(), also when it was waiting for a
\* connection; unless the number of its socket has been given to a new listening socket by
\* the time it tries again: then it waits there (TcpServer.cc:153-163, 188-200, Hook.cc:164).
WaitsOnNext == pc[acceptor] = "parked" /\ accepting = NoFd /\ call[acceptor].fd \in listening
AcceptLoopEnds == threads = 1 /\ isStop ~> pc[acceptor] = "idle" \/ ~isStop \/ WaitsOnNext
=============================================================================
