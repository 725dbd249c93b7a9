------------------------------- MODULE MCHttp -------------------------------
(***************************************************************************)
(* What the ends of an HTTP connection keep of their own: the buffer a     *)
(* message is in, the pool a client's connection is from, and the session  *)
(* of the server.  They share no state; a behaviour uses one of them and   *)
(* the others keep their initial state.                                    *)
(***************************************************************************)
EXTENDS ByteArray, ConnectionPool, HttpSession

VARIABLE part

\* The largest unsigned and the smallest signed integer, of two groups, and one of one group;
\* a text as long as two nodes, and a socket asked for as much.
MCValues == {7, -4}
MCTexts == {<<0, 1, 0, 1>>}
MCLengths == {4}

\* Which request a session begins with does not matter: none was sent.
Init ==
    /\ ArrayInit /\ PoolInit /\ SessionInit
    /\ request.head = 2 /\ request.body = 0
    /\ part \in {"buffer", "pool", "session"}

UseBuffer == part = "buffer" /\ ArrayNext /\ UNCHANGED <<part, poolVars, sessionVars>>
UsePool == part = "pool" /\ PoolNext /\ UNCHANGED <<part, arrayVars, sessionVars>>
UseSession == part = "session" /\ SessionNext /\ UNCHANGED <<part, arrayVars, poolVars>>
Next == UseBuffer \/ UsePool \/ UseSession

Spec == Init /\ [][Next]_<<part, arrayVars, poolVars, sessionVars>> /\ SessionFairness
=============================================================================
