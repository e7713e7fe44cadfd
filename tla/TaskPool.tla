------------------------------- MODULE TaskPool -------------------------------
(***************************************************************************)
(* What core::schedule promises to its callers, without threads, queues or *)
(* locks.  A task waits until it runs, and runs once.  A timer is armed,   *)
(* then waits and runs like a task; an interval is armed again after it    *)
(* ran.  Only a timer that is armed may be discarded: by clear_timeout, or *)
(* because the pool stops.  A task that was accepted is never discarded.   *)
(***************************************************************************)
CONSTANTS Tasks, Timeouts, Intervals

VARIABLES fresh, waiting, running, armed, finished, gone

vars == <<fresh, waiting, running, armed, finished, gone>>

Timers == Timeouts \cup Intervals
Items == Tasks \cup Timers

Init ==
    /\ fresh = Items
    /\ waiting = {} /\ running = {} /\ armed = {} /\ finished = {} /\ gone = {}

Accept(i) ==
    /\ i \in fresh \ Timers
    /\ fresh' = fresh \ {i}
    /\ waiting' = waiting \cup {i}
    /\ UNCHANGED <<running, armed, finished, gone>>

Arm(i) ==
    /\ i \in fresh \cap Timers
    /\ fresh' = fresh \ {i}
    /\ armed' = armed \cup {i}
    /\ UNCHANGED <<waiting, running, finished, gone>>

Expire(i) ==
    /\ i \in armed
    /\ armed' = armed \ {i}
    /\ waiting' = waiting \cup {i}
    /\ UNCHANGED <<fresh, running, finished, gone>>

Begin(i) ==
    /\ i \in waiting
    /\ waiting' = waiting \ {i}
    /\ running' = running \cup {i}
    /\ UNCHANGED <<fresh, armed, finished, gone>>

Finish(i) ==
    /\ i \in running
    /\ running' = running \ {i}
    /\ finished' = finished \cup {i}
    /\ UNCHANGED <<fresh, waiting, armed, gone>>

Rearm(i) ==
    /\ i \in running \cap Intervals
    /\ running' = running \ {i}
    /\ armed' = armed \cup {i}
    /\ UNCHANGED <<fresh, waiting, finished, gone>>

Discard(S) ==
    /\ S \subseteq armed
    /\ armed' = armed \ S
    /\ gone' = gone \cup S
    /\ UNCHANGED <<fresh, waiting, running, finished>>

Next ==
    \/ \E i \in Items : \/ Accept(i) \/ Arm(i) \/ Expire(i)
                        \/ Begin(i) \/ Finish(i) \/ Rearm(i)
    \/ \E S \in SUBSET armed : Discard(S)

Spec == Init /\ [][Next]_vars
=============================================================================
