----------------------------- MODULE MCScheduler -----------------------------
(* Instances of Scheduler for TLC.                                          *)
EXTENDS Scheduler
CONSTANTS w1, w2, f, g, h

\* Two workers; a worker and the caller; the caller alone.
Crews == <<crew, useCaller>> \in {<<{w1, w2}, FALSE>>, <<{w1}, TRUE>>, <<{}, TRUE>>}

MCInit == Init /\ Crews
MCSpec == MCInit /\ [][Next]_vars
MCFairSpec == MCSpec /\ Fairness

\* f is bound to worker w1, everything else is free.
OnePinned == [j \in Jobs |-> IF j = f THEN w1 ELSE AnyThread]
\* h, which a running job submits, is bound to worker w2.
SpawnPinned == [j \in Jobs |-> IF j = h THEN w2 ELSE AnyThread]
\* f is bound to worker w1, g to the caller.
BothPinned == [j \in Jobs |-> CASE j = f -> w1 [] j = g -> Caller [] OTHER -> AnyThread]
=============================================================================
