----------------------------- MODULE MCTimerLoop -----------------------------
(* Instance of TimerLoop for TLC.                                           *)
EXTENDS TimerLoop, TLC
CONSTANTS a, b, c
\* The threads are interchangeable.
Sym == Permutations({a, b})
=============================================================================
