------------------------------ MODULE MCServer ------------------------------
(* Instance of TcpServer for TLC.  With one thread start() and stop() come  *)
(* in any order; with two, which have far more states, each waits until the *)
(* other has taken effect.                                                  *)
EXTENDS TcpServer

MCModes == {<<"fcntl", TRUE>>, <<"fcntl", FALSE>>, <<"ioctl", TRUE>>}
MCFds == {3, 4}

Starts == isStop /\ ~isStop'
Stops == pc[closer] = "idle" /\ pc'[closer] = "new"
InTurn == /\ Starts => pc[closer] = "idle" /\ sock # NoFd
          /\ Stops => ~isStop

MCNext == Next /\ (threads = 2 => InTurn)
MCSpec == Init /\ [][MCNext]_vars /\ Fairness
=============================================================================
