-------------------------------- MODULE Alarms ---------------------------------
(***************************************************************************)
(* What a TimerManager promises its users (Timer.h:60-76), whatever the    *)
(* order its set is kept in and whichever thread looks at it.  An alarm    *)
(* has a start and a period.  A server that looks collects all alarms      *)
(* whose period has passed since their start, a single one for good and a  *)
(* recurring one until a whole period from now, and then hands on what it  *)
(* collected, once.  Setting another period leaves the start where it was  *)
(* or moves it to now; an alarm that is dropped is not collected again,    *)
(* but may have been collected before.                                     *)
(***************************************************************************)
EXTENDS Integers

CONSTANTS
    Names,      \* of alarms
    Servers     \* who look for the alarms that are due

VARIABLES
    now,        \* the time
    alarms,     \* the alarms that are set: a function from names to [start, period, again]
    due         \* what each server has collected and not yet handed on

vars == <<now, alarms, due>>

Set == DOMAIN alarms
Ripe == {t \in Set : alarms[t].start + alarms[t].period <= now}

\* The alarms but those of S are what they were.
OthersStay(S) == \A s \in (Set \cap DOMAIN alarms') \ S : alarms'[s] = alarms[s]

Init ==
    /\ now = 0
    /\ Set = {}
    /\ due = [h \in Servers |-> {}]

\* The period may have begun before the alarm is known to the manager.
SetAlarm(t) ==
    /\ t \notin Set
    /\ DOMAIN alarms' = Set \cup {t}
    /\ alarms'[t].start <= now
    /\ OthersStay({t})
    /\ UNCHANGED <<now, due>>

Adjust(t) ==
    /\ t \in Set
    /\ DOMAIN alarms' = Set
    /\ alarms'[t].start \in {alarms[t].start, now}
    /\ alarms'[t].again = alarms[t].again
    /\ OthersStay({t})
    /\ UNCHANGED <<now, due>>

Drop(t) ==
    /\ t \in Set
    /\ DOMAIN alarms' = Set \ {t}
    /\ OthersStay({})
    /\ UNCHANGED <<now, due>>

Collect(h) ==
    LET again == {t \in Ripe : alarms[t].again} IN
    /\ due[h] = {}
    /\ due' = [due EXCEPT ![h] = Ripe]
    /\ DOMAIN alarms' = (Set \ Ripe) \cup again
    /\ \A t \in again : alarms'[t] = [alarms[t] EXCEPT !.start = now]
    /\ OthersStay(Ripe)
    /\ UNCHANGED now

HandOn(h) ==
    /\ due' = [due EXCEPT ![h] = {}]
    /\ UNCHANGED <<now, alarms>>

Pass ==
    /\ now' >= now
    /\ UNCHANGED <<alarms, due>>

Next ==
    \/ \E t \in Names : SetAlarm(t) \/ Adjust(t) \/ Drop(t)
    \/ \E h \in Servers : Collect(h) \/ HandOn(h)
    \/ Pass

Spec == Init /\ [][Next]_vars
================================================================================
