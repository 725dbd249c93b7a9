----------------------------- MODULE MCIOManager -----------------------------
(* Instances of IOManager for TLC.                                          *)
EXTENDS IOManager, TLC
CONSTANTS a, b, r, s, t, x

\* One socket, read and written.
Duplex == {<<x, READ>>, <<x, WRITE>>}
\* One socket that is only read.
ReadOnly == {<<x, READ>>}

\* A workload for the liveness properties: fibers that wait for the socket, read and write
\* it, and do not cancel each other's waits.
LiveNext ==
    \/ \E h \in Threads : ThreadStep(h) \/ Finish(h)
    \/ \E h \in Threads, u \in Uses : AddEvent(h, u[1], u[2]) \/ Consume(h, u[1], u[2])
    \/ \E j \in Jobs : Submit(j)
    \/ \E u \in Uses : BecomeReady(u[1], u[2])
    \/ StopCall
LiveSpec == Init /\ [][LiveNext]_vars /\ Fairness

Sym == Permutations({a, b}) \cup Permutations({r, s, t})
=============================================================================
