------------------------------ MODULE MCCore -------------------------------
(* Promises and coroutines for TLC. A behaviour is one of Promise, whose    *)
(* state is that of the module it extends, or one of Coroutine.             *)
EXTENDS Promise

VARIABLES
    part,  \* the component that runs in this behaviour
    s1, s2, s3, s4, s5, s6, s7, s8, s9, s10, s11, s12, s13, s14, s15, s16  \* its state

Workers == 1..2
Coroutines == 1..2

Tasks == INSTANCE Coroutine WITH
    MaxCoroutines <- 2, MaxRecycles <- 1, MaxAwaits <- 2, IdleTimeouts <- FALSE, Stops <- TRUE,
    active <- s1, asyncq <- s2, resync <- s3, local <- s4, used <- s5, current <- s6,
    visited <- s7, pc <- s8, state <- s9, future <- s10, awaiter <- s11, posted <- s12,
    awaits <- s13, fresh <- s14, dropped <- s15, dangling <- s16

Crowd == INSTANCE Coroutine WITH
    Workers <- {1}, Coroutines <- 1..3, MaxCoroutines <- 2, MaxRecycles <- 1, MaxAwaits <- 1,
    IdleTimeouts <- TRUE, Stops <- TRUE,
    active <- s1, asyncq <- s2, resync <- s3, local <- s4, used <- s5, current <- s6,
    visited <- s7, pc <- s8, state <- s9, future <- s10, awaiter <- s11, posted <- s12,
    awaits <- s13, fresh <- s14, dropped <- s15, dangling <- s16

ASSUME /\ Tasks!CoroutineAssumption /\ Crowd!CoroutineAssumption

all == <<part, vars, s1, s2, s3, s4, s5, s6, s7, s8, s9, s10, s11, s12, s13, s14, s15, s16>>

-----------------------------------------------------------------------------
MCInit ==
    \/ /\ part = "promise" /\ Init /\ s1 = "off" /\ s2 = "off" /\ s3 = "off" /\ s4 = "off"
       /\ s5 = "off" /\ s6 = "off" /\ s7 = "off" /\ s8 = "off" /\ s9 = "off" /\ s10 = "off"
       /\ s11 = "off" /\ s12 = "off" /\ s13 = "off" /\ s14 = "off" /\ s15 = "off" /\ s16 = "off"
    \/ /\ part = "coroutine" /\ Init /\ Tasks!Init
    \/ /\ part = "crowd" /\ Init /\ Crowd!Init

\* A step of a component.
OfPromise(A) == /\ part = "promise" /\ A
                /\ UNCHANGED <<part, s1, s2, s3, s4, s5, s6, s7, s8, s9, s10, s11, s12, s13, s14, s15,
                      s16>>
OfTasks(A) == /\ part = "coroutine" /\ A /\ UNCHANGED <<part, vars>>
OfCrowd(A) == /\ part = "crowd" /\ A /\ UNCHANGED <<part, vars>>

MCNext ==
    \/ OfPromise(Next)
    \/ OfTasks(Tasks!Next)
    \/ OfCrowd(Crowd!Next)

(* The fairness of the modules: one of them runs in a behaviour, so that   *)
(* each condition is one of that module's.  Threads that are not blocked   *)
(* and workers run, and so do promises that are set and the scheduler.     *)
Fair ==
    /\ \A h \in Handles : SF_all(OfPromise(Runs(h)))
    /\ \A i \in 1..2 :
          /\ WF_all(OfPromise(run_queued(i)) \/ OfTasks(Tasks!Loop(i)))
          /\ WF_all(OfPromise(run_queued(3)) \/ OfTasks(Tasks!Body(i)))
          /\ WF_all(OfTasks(Tasks!set(i))) /\ WF_all(OfTasks(Tasks!activate(i)))

MCSpec == MCInit /\ [][MCNext]_all /\ Fair

-----------------------------------------------------------------------------
(* activate() of the schedule finds the routine it is meant for: no        *)
(* suspended routine is without someone who will wake it, none is woken    *)
(* that is finished or destroyed, and a costate keeps to its limit.        *)
ActivationsMeet ==
    /\ part = "coroutine" => /\ Tasks!TypeOK /\ Tasks!NoLostActivation /\ Tasks!ActivatesLive
                             /\ Tasks!Capacity /\ Tasks!DanglesOnlyAfterStop
    /\ part = "crowd" => /\ Crowd!NoLostActivation /\ Crowd!ActivatesLive
                         /\ Crowd!Capacity /\ Crowd!DanglesOnlyAfterStop

\* The i-th consumer or routine that waits, and what it waits for.
Expected(i) ==
    part = "promise" \/ (part = "coroutine" /\ i \in Coroutines /\ Tasks!Resumable(i))

Arrived(i) ==
    \/ part = "promise" /\ (Served(i) \/ i \in Lost \/ (i \in queued /\ ~available))
    \/ part = "coroutine" /\ i \in Coroutines /\ ~Tasks!Resumable(i)

(* Every consumer of a promise is served, unless its continuation is lost  *)
(* or the schedule stopped with it in its queue.  A routine that was       *)
(* activated runs again, though the wait of its worker is not bounded by a *)
(* timeout: activate() cannot miss a worker that is about to wait.         *)
ValueReachesAll == \A i \in 1..3 : Expected(i) ~> Arrived(i)
=============================================================================
