------------------------------ MODULE Scheduler ------------------------------
(***************************************************************************)
(* The parallel mode of core::schedule (core.h, core.cpp): a pool of       *)
(* `sync` worker threads and one `timeout` thread that share one global    *)
(* task queue, each sync worker with a private queue of recycled tasks,    *)
(* an ordered map of timers, and the start / stop / suspend / resume       *)
(* operations that any thread, a worker included, may call.                *)
(*                                                                         *)
(* Threads are numbered in the order in which stop() joins them: sync      *)
(* workers 1..NSync, then the timeout thread.  The lock-free global queue  *)
(* is a set: it keeps every callback until one consumer dequeues it, and   *)
(* gives no order between producers.                                       *)
(***************************************************************************)
EXTENDS Integers, Sequences, FiniteSets

CONSTANTS
    NSync,          \* policy.threads[sync]
    App,            \* threads that are not workers of the pool
    Tasks,          \* callbacks given to set_task
    Timeouts,       \* callbacks given to set_timeout
    Intervals,      \* callbacks given to set_interval
    Stoppers,       \* threads that may call stop()
    Overlap,        \* whether stop() may be called while another call is in it
    MaxRecycles,    \* policy.max_recycles
    Delay,          \* delay of each timer
    IdleTimeout,    \* policy.idle_timeout
    MaxClock,       \* bound: the clock stops here
    MaxStarts,      \* bound: calls of start()
    MaxStops,       \* bound: calls of stop()
    MaxSuspends,    \* bound: calls of suspend()
    MaxTriggers,    \* bound: calls of trigger_timers()
    None            \* no item, no thread

Timer == NSync + 1
Workers == 1..Timer
Threads == App \cup Workers
Timers == Timeouts \cup Intervals
Items == Tasks \cup Timers

ASSUME ConstantsAssumption ==
    /\ NSync \in Nat \ {0}
    /\ MaxRecycles \in Nat
    /\ Delay \in [Timers -> Nat]
    /\ IdleTimeout \in Nat \ {0}
    /\ MaxClock \in Nat
    /\ MaxStarts \in Nat
    /\ MaxStops \in Nat
    /\ MaxSuspends \in Nat
    /\ MaxTriggers \in Nat
    /\ Stoppers \subseteq Threads
    /\ Overlap \in BOOLEAN
    /\ IsFiniteSet(Items)
    /\ App \cap Workers = {}
    /\ Tasks \cap Timers = {}
    /\ Timeouts \cap Intervals = {}
    /\ None \notin Items
    /\ None \notin Threads

VARIABLES
    active, enqueue, suspended, terminate,  \* the flags of the schedule
    exclusive,      \* holder of schedule::exclusive, taken by stop()
    joining,        \* next thread that the holder joins (0: not woken up yet)
    pc,             \* where each worker is in trigger_thread
    running,        \* the callback each worker has dequeued and executes
    local,          \* thread_data::queue of each worker
    syncq,          \* sync->queue: the callbacks in it
    dummies,        \* sync->queue: the empty callbacks of wakeup() in it
    timeouts,       \* timeouts->queue: pairs <<key, timer>>
    resync,         \* timeouts->resync
    deadline,       \* until when the timeout thread waits
    rearms,         \* intervals whose callback is wrapped to re-arm itself
    clock,
    call,           \* the operation each thread is inside of
    fresh,          \* history: items not handed to the schedule yet
    finished,       \* history: items that have run for good
    cleared,        \* history: timers for which clear_timeout returned true
    dropped,        \* history: timers discarded by stop or by a refused set_task
    starts, stops, suspends, triggers  \* counters of the bounds

flags == <<active, enqueue, suspended, terminate>>
stopping == <<exclusive, joining>>
timers == <<timeouts, resync>>
history == <<fresh, finished, cleared, dropped>>
bounds == <<starts, stops, suspends, triggers>>
vars == <<flags, stopping, pc, running, local, syncq, dummies, timers,
          deadline, rearms, clock, call, history, bounds>>

-----------------------------------------------------------------------------
Idle == [op |-> "idle", item |-> None, at |-> 0]
Pushing(i) == [op |-> "push", item |-> i, at |-> 0]
Arming(i, at) == [op |-> "arm", item |-> i, at |-> at]
Triggering == [op |-> "trigger", item |-> None, at |-> 0]
Stopping == [op |-> "stop", item |-> None, at |-> 0]

Calls == [op : {"idle", "push", "arm", "trigger", "stop"}, item : Items \cup {None}, at : Nat]

PCs == {"off", "boot", "top", "sleep", "dequeue", "fire", "wait", "poll",
        "run", "rearm", "check", "exit", "done"}

Elements(s) == {s[k] : k \in 1..Len(s)}
Keys == {e[1] : e \in timeouts}
Armed == {e[2] : e \in timeouts}

(* get_timeout: the first unused key from `at` on.                         *)
get_timeout(at) ==
    LET free == {k \in at..(at + Cardinality(timeouts)) : k \notin Keys}
    IN  CHOOSE k \in free : \A m \in free : k <= m

(* The timers after queue.emplace({k, i}): a map keeps the entry it has.   *)
Emplaced(k, i) == IF k \in Keys THEN timeouts ELSE timeouts \cup {<<k, i>>}

(* timeouts->queue.begin()                                                 *)
IsFirst(e) == \A o \in timeouts : e[1] <= o[1]

(* timeouts->update is held by the timeout thread while it fires timers,   *)
(* and by trigger_timers; every other critical section on it is one step.  *)
TimersUnlocked == pc[Timer] # "fire" /\ \A p \in App : call[p] # Triggering

(* A thread makes calls when it is not inside one: application threads at  *)
(* any time, workers from the callback that they run.                      *)
CanCall(p) == call[p] = Idle /\ (p \in Workers => pc[p] = "run")

Init ==
    /\ active = FALSE /\ enqueue = TRUE /\ suspended = FALSE /\ terminate = FALSE
    /\ exclusive = None /\ joining = 0
    /\ pc = [w \in Workers |-> "off"]
    /\ running = [w \in Workers |-> None]
    /\ local = [w \in Workers |-> <<>>]
    /\ syncq = {} /\ dummies = 0
    /\ timeouts = {} /\ resync = TRUE /\ deadline = 0 /\ rearms = {} /\ clock = 0
    /\ call = [p \in Threads |-> Idle]
    /\ fresh = Items /\ finished = {} /\ cleared = {} /\ dropped = {}
    /\ starts = 0 /\ stops = 0 /\ suspends = 0 /\ triggers = 0

-----------------------------------------------------------------------------
(* Handing work to the schedule.  `enqueue` is read without a lock, and    *)
(* stop() may run between that read and the enqueue.                       *)

set_task(p, i) ==
    /\ CanCall(p) /\ i \in Tasks \cap fresh /\ enqueue
    /\ call' = [call EXCEPT ![p] = Pushing(i)]
    /\ fresh' = fresh \ {i}
    /\ UNCHANGED <<flags, stopping, pc, running, local, syncq, dummies, timers,
                   deadline, rearms, clock, finished, cleared, dropped, bounds>>

(* fast_bypass_enqueue: only a sync worker of a pool of several recycles.  *)
CanBypass(p) ==
    /\ NSync > 1 /\ p \in 1..NSync
    /\ Len(local[p]) < MaxRecycles

(* Faulty set_task_enqueue: after the bypass it also uses the global queue. *)
set_task_enqueue_twice(p, recyclable) ==
    /\ call[p].op = "push"
    /\ syncq' = syncq \cup {call[p].item}
    /\ IF recyclable /\ CanBypass(p)
       THEN local' = [local EXCEPT ![p] = Append(@, call[p].item)]
       ELSE UNCHANGED local
    /\ call' = [call EXCEPT ![p] = Idle]
    /\ UNCHANGED <<flags, stopping, pc, running, dummies, timers, deadline,
                   rearms, clock, history, bounds>>

set_task_enqueue(p, recyclable) ==
    /\ call[p].op = "push"
    /\ IF recyclable /\ CanBypass(p)
       THEN /\ local' = [local EXCEPT ![p] = Append(@, call[p].item)]
            /\ UNCHANGED syncq
       ELSE /\ syncq' = syncq \cup {call[p].item}
            /\ UNCHANGED local
    /\ call' = [call EXCEPT ![p] = Idle]
    /\ UNCHANGED <<flags, stopping, pc, running, dummies, timers, deadline,
                   rearms, clock, history, bounds>>

(* set_timeout and set_interval; the clock is read before the lock.        *)
set_timer(p, i) ==
    /\ CanCall(p) /\ i \in Timers \cap fresh /\ enqueue
    /\ call' = [call EXCEPT ![p] = Arming(i, clock + Delay[i])]
    /\ fresh' = fresh \ {i}
    /\ UNCHANGED <<flags, stopping, pc, running, local, syncq, dummies, timers,
                   deadline, rearms, clock, finished, cleared, dropped, bounds>>

(* Faulty set_timer_emplace: the timeout thread is not told.               *)
set_timer_emplace_silent(p) ==
    /\ call[p].op = "arm" /\ TimersUnlocked
    /\ timeouts' = Emplaced(get_timeout(call[p].at), call[p].item)
    /\ call' = [call EXCEPT ![p] = Idle]
    /\ UNCHANGED <<flags, stopping, pc, running, local, syncq, dummies, resync,
                   deadline, rearms, clock, history, bounds>>

set_timer_emplace(p) ==
    /\ call[p].op = "arm" /\ TimersUnlocked
    /\ timeouts' = Emplaced(get_timeout(call[p].at), call[p].item)
    /\ resync' = TRUE
    /\ call' = [call EXCEPT ![p] = Idle]
    /\ UNCHANGED <<flags, stopping, pc, running, local, syncq, dummies,
                   deadline, rearms, clock, history, bounds>>

clear_timeout(p, i) ==
    /\ CanCall(p) /\ TimersUnlocked
    /\ \E e \in timeouts : e[2] = i /\ timeouts' = timeouts \ {e}
    /\ resync' = TRUE
    /\ cleared' = cleared \cup {i}
    /\ UNCHANGED <<flags, stopping, pc, running, local, syncq, dummies, deadline,
                   rearms, clock, call, fresh, finished, dropped, bounds>>

(* trigger_timers, called from an application thread: every callback goes  *)
(* to the queue as it is, so that an interval runs once and is not re-armed. *)
(* set_task reads `enqueue` anew for each of them.                         *)
trigger_timers(p) ==
    /\ p \in App /\ CanCall(p) /\ TimersUnlocked /\ triggers < MaxTriggers
    /\ call' = [call EXCEPT ![p] = Triggering]
    /\ triggers' = triggers + 1
    /\ UNCHANGED <<flags, stopping, pc, running, local, syncq, dummies, timers,
                   deadline, rearms, clock, history, starts, stops, suspends>>

trigger_timers_next(p) ==
    /\ call[p] = Triggering
    /\ \E e \in timeouts :
        /\ IsFirst(e)
        /\ timeouts' = timeouts \ {e}
        /\ IF enqueue
           THEN syncq' = syncq \cup {e[2]} /\ UNCHANGED dropped
           ELSE dropped' = dropped \cup {e[2]} /\ UNCHANGED syncq
    /\ UNCHANGED <<flags, stopping, pc, running, local, dummies, resync, deadline,
                   rearms, clock, call, fresh, finished, cleared, bounds>>

trigger_timers_done(p) ==
    /\ call[p] = Triggering /\ timeouts = {}
    /\ resync' = TRUE
    /\ call' = [call EXCEPT ![p] = Idle]
    /\ UNCHANGED <<flags, stopping, pc, running, local, syncq, dummies, timeouts,
                   deadline, rearms, clock, history, bounds>>

-----------------------------------------------------------------------------
(* trigger_thread: the parts common to both kinds of worker.               *)

boot(w) ==
    /\ pc[w] = "boot"
    /\ pc' = [pc EXCEPT ![w] = IF active THEN "top" ELSE "done"]
    /\ UNCHANGED <<flags, stopping, running, local, syncq, dummies, timers,
                   deadline, rearms, clock, call, history, bounds>>

(* Faulty sleep_thread: a worker that sleeps does not wake up.             *)
sleep_thread_forever(w) ==
    /\ pc[w] = "top" /\ suspended /\ pc' = [pc EXCEPT ![w] = "sleep"]
    /\ UNCHANGED <<flags, stopping, running, local, syncq, dummies, timers,
                   deadline, rearms, clock, call, history, bounds>>

(* sleep_thread; the wait is bounded by idle_timeout, so it may always end. *)
sleep_thread(w) ==
    /\ \/ pc[w] = "top" /\ suspended /\ pc' = [pc EXCEPT ![w] = "sleep"]
       \/ pc[w] = "sleep" /\ pc' = [pc EXCEPT ![w] = "check"]
    /\ UNCHANGED <<flags, stopping, running, local, syncq, dummies, timers,
                   deadline, rearms, clock, call, history, bounds>>

(* Faulty dequeue: it takes an empty callback that is not there.           *)
dequeue_unguarded(w) ==
    /\ pc[w] \in {"dequeue", "poll"}
    /\ dummies' = dummies - 1
    /\ pc' = [pc EXCEPT ![w] = "check"]
    /\ UNCHANGED <<flags, stopping, running, local, syncq, timers, deadline, rearms,
                   clock, call, history, bounds>>

(* try_dequeue of the timeout thread, wait_dequeue_timed of a sync worker: *)
(* a callback, an empty callback of wakeup(), or nothing.                  *)
dequeue(w) ==
    /\ pc[w] \in {"dequeue", "poll"}
    /\ \/ \E i \in syncq : /\ syncq' = syncq \ {i}
                           /\ running' = [running EXCEPT ![w] = i]
                           /\ pc' = [pc EXCEPT ![w] = "run"]
                           /\ UNCHANGED dummies
       \/ /\ dummies > 0 /\ dummies' = dummies - 1
          /\ pc' = [pc EXCEPT ![w] = "check"]
          /\ UNCHANGED <<syncq, running>>
       \/ /\ syncq = {} /\ dummies = 0
          /\ pc' = [pc EXCEPT ![w] = "check"]
          /\ UNCHANGED <<syncq, running, dummies>>
    /\ UNCHANGED <<flags, stopping, local, timers, deadline, rearms, clock, call,
                   history, bounds>>

(* The callback returns.  That of an interval goes on to re-arm itself.    *)
return_task(w) ==
    /\ pc[w] = "run" /\ call[w] = Idle
    /\ IF running[w] \in rearms
       THEN /\ pc' = [pc EXCEPT ![w] = "rearm"]
            /\ UNCHANGED <<running, finished>>
       ELSE /\ pc' = [pc EXCEPT ![w] = "check"]
            /\ running' = [running EXCEPT ![w] = None]
            /\ finished' = finished \cup {running[w]}
    /\ UNCHANGED <<flags, stopping, local, syncq, dummies, timers, deadline,
                   rearms, clock, call, fresh, cleared, dropped, bounds>>

rearm(w) ==
    /\ pc[w] = "rearm" /\ TimersUnlocked
    /\ timeouts' = Emplaced(get_timeout(clock + Delay[running[w]]), running[w])
    /\ resync' = TRUE
    /\ rearms' = rearms \ {running[w]}
    /\ running' = [running EXCEPT ![w] = None]
    /\ pc' = [pc EXCEPT ![w] = "check"]
    /\ UNCHANGED <<flags, stopping, local, syncq, dummies, deadline, clock, call,
                   history, bounds>>

thread_active(w) ==
    /\ pc[w] = "check"
    /\ pc' = [pc EXCEPT ![w] = IF active THEN "top"
                               ELSE IF w = Timer THEN "done" ELSE "exit"]
    /\ UNCHANGED <<flags, stopping, running, local, syncq, dummies, timers,
                   deadline, rearms, clock, call, history, bounds>>

-----------------------------------------------------------------------------
(* trigger_thread(difficulty::sync)                                        *)

take_local(w) ==
    /\ w # Timer /\ pc[w] = "top" /\ ~suspended
    /\ IF local[w] # <<>>
       THEN /\ running' = [running EXCEPT ![w] = Head(local[w])]
            /\ local' = [local EXCEPT ![w] = Tail(@)]
            /\ pc' = [pc EXCEPT ![w] = "run"]
       ELSE /\ pc' = [pc EXCEPT ![w] = "dequeue"]
            /\ UNCHANGED <<running, local>>
    /\ UNCHANGED <<flags, stopping, syncq, dummies, timers, deadline, rearms,
                   clock, call, history, bounds>>

(* Faulty flush_local: a worker exits with its private queue.              *)
flush_local_never(w) ==
    /\ pc[w] = "exit"
    /\ pc' = [pc EXCEPT ![w] = "done"]
    /\ UNCHANGED <<flags, stopping, running, local, syncq, dummies, timers, deadline,
                   rearms, clock, call, history, bounds>>

(* After its loop a worker gives its recycled tasks back.                  *)
flush_local(w) ==
    /\ pc[w] = "exit"
    /\ IF local[w] # <<>>
       THEN /\ syncq' = syncq \cup {Head(local[w])}
            /\ local' = [local EXCEPT ![w] = Tail(@)]
            /\ UNCHANGED pc
       ELSE /\ pc' = [pc EXCEPT ![w] = "done"]
            /\ UNCHANGED <<syncq, local>>
    /\ UNCHANGED <<flags, stopping, running, dummies, timers, deadline, rearms,
                   clock, call, history, bounds>>

-----------------------------------------------------------------------------
(* trigger_thread(difficulty::timeout)                                     *)

lock_timers(w) ==
    /\ w = Timer /\ pc[w] = "top" /\ ~suspended /\ TimersUnlocked
    /\ pc' = [pc EXCEPT ![w] = "fire"]
    /\ UNCHANGED <<flags, stopping, running, local, syncq, dummies, timers,
                   deadline, rearms, clock, call, history, bounds>>

(* Faulty fire: the expired timer stays in the map.                        *)
fire_keeps(w) ==
    /\ pc[w] = "fire"
    /\ \E e \in timeouts :
        /\ IsFirst(e) /\ e[1] <= clock
        /\ syncq' = syncq \cup {e[2]}
        /\ rearms' = rearms \cup ({e[2]} \cap Intervals)
    /\ UNCHANGED <<flags, stopping, pc, running, local, dummies, timers, deadline,
                   clock, call, history, bounds>>

(* An expired timer leaves the map whether or not set_task accepts it.     *)
fire(w) ==
    /\ pc[w] = "fire"
    /\ \E e \in timeouts :
        /\ IsFirst(e) /\ e[1] <= clock
        /\ timeouts' = timeouts \ {e}
        /\ IF enqueue
           THEN /\ syncq' = syncq \cup {e[2]}
                /\ rearms' = rearms \cup ({e[2]} \cap Intervals)
                /\ UNCHANGED dropped
           ELSE /\ dropped' = dropped \cup {e[2]}
                /\ UNCHANGED <<syncq, rearms>>
    /\ UNCHANGED <<flags, stopping, pc, running, local, dummies, resync, deadline,
                   clock, call, fresh, finished, cleared, bounds>>

wait_timers(w) ==
    /\ pc[w] = "fire" /\ \A k \in Keys : k > clock
    /\ \E k \in Keys \cup {clock + IdleTimeout} :
        /\ \A m \in Keys \cup {clock + IdleTimeout} : k <= m
        /\ deadline' = k
    /\ pc' = [pc EXCEPT ![w] = "wait"]
    /\ UNCHANGED <<flags, stopping, running, local, syncq, dummies, timers, rearms,
                   clock, call, history, bounds>>

wake_timers(w) ==
    /\ pc[w] = "wait"
    /\ ~active \/ resync \/ syncq # {} \/ dummies > 0 \/ clock >= deadline
    /\ resync' = FALSE
    /\ pc' = [pc EXCEPT ![w] = "poll"]
    /\ UNCHANGED <<flags, stopping, running, local, syncq, dummies, timeouts,
                   deadline, rearms, clock, call, history, bounds>>

-----------------------------------------------------------------------------
(* start, stop, suspend, resume.                                           *)

(* wakeup: two empty callbacks for every thread, and resync.               *)
wakeup(threads) ==
    /\ dummies' = dummies + 2 * threads
    /\ resync' = TRUE

(* start is only called when no earlier stop() is left incomplete.         *)
start(p) ==
    /\ p \in App /\ CanCall(p) /\ starts < MaxStarts
    /\ ~active /\ ~terminate /\ exclusive = None
    /\ active' = TRUE
    /\ pc' = [w \in Workers |-> "boot"]
    /\ starts' = starts + 1
    /\ UNCHANGED <<enqueue, suspended, terminate, stopping, running, local, syncq,
                   dummies, timers, deadline, rearms, clock, call, history, stops,
                   suspends, triggers>>

stop(p) ==
    /\ p \in Stoppers /\ CanCall(p) /\ stops < MaxStops
    /\ Overlap \/ \A q \in Threads : call[q] # Stopping
    /\ call' = [call EXCEPT ![p] = Stopping]
    /\ stops' = stops + 1
    /\ UNCHANGED <<flags, stopping, pc, running, local, syncq, dummies, timers,
                   deadline, rearms, clock, history, starts, suspends,
                   triggers>>

stop_lock(p) ==
    /\ call[p] = Stopping /\ exclusive = None
    /\ IF active \/ terminate
       THEN /\ active' = FALSE /\ enqueue' = FALSE
            /\ exclusive' = p
            /\ UNCHANGED call
       ELSE /\ call' = [call EXCEPT ![p] = Idle]
            /\ UNCHANGED <<active, enqueue, exclusive>>
    /\ UNCHANGED <<suspended, terminate, joining, pc, running, local, syncq,
                   dummies, timers, deadline, rearms, clock, history, bounds>>

stop_wakeup(p) ==
    /\ exclusive = p /\ joining = 0 /\ TimersUnlocked
    /\ wakeup(Timer)
    /\ joining' = 1
    /\ UNCHANGED <<flags, exclusive, pc, running, local, syncq, timeouts, deadline,
                   rearms, clock, call, history, bounds>>

(* pop_thread; a worker that reaches itself gives up and leaves the rest.  *)
stop_join(p) ==
    /\ exclusive = p /\ joining \in Workers
    /\ \/ /\ joining = p
          /\ terminate' = TRUE
          /\ exclusive' = None /\ joining' = 0
          /\ call' = [call EXCEPT ![p] = Idle]
       \/ /\ joining # p /\ pc[joining] = "done"
          /\ joining' = joining + 1
          /\ UNCHANGED <<terminate, exclusive, call>>
    /\ UNCHANGED <<active, enqueue, suspended, pc, running, local, syncq, dummies,
                   timers, deadline, rearms, clock, history, bounds>>

stop_finish(p) ==
    /\ exclusive = p /\ joining = Timer + 1
    /\ timeouts' = {} /\ dropped' = dropped \cup Armed
    /\ terminate' = FALSE /\ enqueue' = TRUE
    /\ pc' = [w \in Workers |-> "off"]
    /\ exclusive' = None /\ joining' = 0
    /\ call' = [call EXCEPT ![p] = Idle]
    /\ UNCHANGED <<active, suspended, running, local, syncq, dummies, resync,
                   deadline, rearms, clock, fresh, finished, cleared, bounds>>

suspend(p) ==
    /\ CanCall(p) /\ ~suspended /\ suspends < MaxSuspends
    /\ suspended' = TRUE
    /\ suspends' = suspends + 1
    /\ UNCHANGED <<active, enqueue, terminate, stopping, pc, running, local, syncq,
                   dummies, timers, deadline, rearms, clock, call, history, starts,
                   stops, triggers>>

resume(p) ==
    /\ CanCall(p) /\ suspended /\ TimersUnlocked
    /\ suspended' = FALSE
    /\ wakeup(IF pc[Timer] = "off" THEN 0 ELSE Timer)
    /\ UNCHANGED <<active, enqueue, terminate, stopping, pc, running, local, syncq,
                   timeouts, deadline, rearms, clock, call, history, bounds>>

tick ==
    /\ clock < MaxClock
    /\ clock' = clock + 1
    /\ UNCHANGED <<flags, stopping, pc, running, local, syncq, dummies, timers,
                   deadline, rearms, call, history, bounds>>

-----------------------------------------------------------------------------
trigger_thread(w) ==
    \/ boot(w) \/ sleep_thread(w) \/ dequeue(w) \/ return_task(w) \/ rearm(w)
    \/ thread_active(w) \/ take_local(w) \/ flush_local(w)
    \/ lock_timers(w) \/ fire(w) \/ wait_timers(w) \/ wake_timers(w)

Submit(p) ==
    \/ \E i \in Tasks : set_task(p, i)
    \/ \E i \in Timers : set_timer(p, i) \/ clear_timeout(p, i)
    \/ trigger_timers(p)

Submitting(p) ==
    \/ \E recyclable \in BOOLEAN : set_task_enqueue(p, recyclable)
    \/ set_timer_emplace(p) \/ trigger_timers_next(p) \/ trigger_timers_done(p)

StopSteps(p) == stop_lock(p) \/ stop_wakeup(p) \/ stop_join(p) \/ stop_finish(p)

Control(p) == start(p) \/ stop(p) \/ suspend(p) \/ resume(p)

Next ==
    \/ \E w \in Workers : trigger_thread(w)
    \/ \E p \in Threads : Submit(p) \/ Submitting(p) \/ StopSteps(p) \/ Control(p)
    \/ tick

Spec == Init /\ [][Next]_vars

(* Threads keep running and time passes; callbacks return; the timeout     *)
(* thread takes its mutex again and again, and a worker that waits for it  *)
(* gets it in the end.  Which calls the program makes is up to it.         *)
Fairness ==
    /\ \A w \in Workers : WF_vars(trigger_thread(w)) /\ SF_vars(rearm(w))
    /\ \A p \in Threads : WF_vars(Submitting(p)) /\ WF_vars(StopSteps(p))
    /\ WF_vars(tick)

FairSpec == Spec /\ Fairness

-----------------------------------------------------------------------------
(* Properties.                                                             *)

FlagsOK ==
    /\ active \in BOOLEAN /\ enqueue \in BOOLEAN
    /\ suspended \in BOOLEAN /\ terminate \in BOOLEAN

StoppingOK == exclusive \in Threads \cup {None} /\ joining \in 0..(Timer + 1)

ThreadsOK ==
    /\ pc \in [Workers -> PCs]
    /\ running \in [Workers -> Items \cup {None}]
    /\ local \in [Workers -> Seq(Items)]

QueueOK == syncq \subseteq Items /\ dummies \in Nat /\ rearms \subseteq Intervals

TimersOK ==
    /\ timeouts \subseteq Nat \X Timers /\ IsFiniteSet(timeouts)
    /\ resync \in BOOLEAN /\ deadline \in Nat /\ clock \in Nat

CallsOK == call \in [Threads -> Calls]

HistoryOK ==
    /\ fresh \subseteq Items /\ finished \subseteq Items
    /\ cleared \subseteq Timers /\ dropped \subseteq Timers

BoundsOK == starts \in Nat /\ stops \in Nat /\ suspends \in Nat /\ triggers \in Nat

(* The type of the state.  A key is a time; an empty callback of wakeup()  *)
(* is only counted.                                                        *)
TypeOK ==
    /\ FlagsOK /\ StoppingOK /\ ThreadsOK /\ QueueOK /\ TimersOK
    /\ CallsOK /\ HistoryOK /\ BoundsOK

(* Every place in which an item is: its kind, the thread that holds it and *)
(* the index or key at which it does.                                      *)
Places(i) ==
    {x \in {<<"fresh", None, 0>>} : i \in fresh}
    \cup {x \in {<<"finished", None, 0>>} : i \in finished}
    \cup {x \in {<<"cleared", None, 0>>} : i \in cleared}
    \cup {x \in {<<"dropped", None, 0>>} : i \in dropped}
    \cup {x \in {<<"sync", None, 0>>} : i \in syncq}
    \cup {<<"call", p, 0>> : p \in {q \in Threads : call[q].item = i}}
    \cup {<<"run", w, 0>> : w \in {v \in Workers : running[v] = i}}
    \cup {<<"timer", None, e[1]>> : e \in {o \in timeouts : o[2] = i}}
    \cup UNION {{<<"local", w, n>> : n \in {m \in 1..Len(local[w]) : local[w][m] = i}} :
                    w \in Workers}

(* No callback is lost and none is duplicated, whatever start, stop,       *)
(* suspend, recycling, the flush of a worker that exits and the timers do: *)
(* an item is in exactly one place.  In particular an interval never runs  *)
(* on two workers at once, a timer that clear_timeout removed never runs   *)
(* again, and what set_task accepted is never dropped.                     *)
Conservation == \A i \in Items : \E x \in Places(i) : Places(i) = {x}

(* stop() has returned true, or start() was not called: no worker holds a  *)
(* callback, and every accepted task is in the global queue, where the     *)
(* next start() finds it.                                                  *)
StoppedIsQuiet ==
    pc[Timer] = "off" => \A w \in Workers : running[w] = None /\ local[w] = <<>>

(* The schedule refuses work from the moment a stop() takes effect until   *)
(* it is complete, which may take a second stop() when the first one was   *)
(* called from a worker; a schedule that runs always accepts work.         *)
RefusesUntilStopped ==
    /\ active => enqueue
    /\ enqueue <=> exclusive = None /\ ~terminate

(* What a stop() promises, both during it and when it is complete: work is *)
(* refused until then, and nothing is left in the hands of a worker.       *)
StopIsComplete == StoppedIsQuiet /\ RefusesUntilStopped

(* The timeout thread never oversleeps: while it waits, either it has been *)
(* told to look again or it wakes up no later than the earliest timer.     *)
NeverOversleeps ==
    pc[Timer] = "wait" /\ ~resync => \A e \in timeouts : deadline <= e[1]

(* A call in stop(), a task in the queues of a schedule that runs, and a   *)
(* timer that is due.                                                      *)
Queued(i) == i \in syncq \/ \E w \in Workers : i \in Elements(local[w])

Due(i) == \E e \in timeouts : e[2] = i /\ e[1] <= clock

(* stop() returns when callbacks do, unless two calls of it overlap; a     *)
(* task in the queues runs and a timer that is due leaves the map, unless  *)
(* the schedule is stopped or suspended.                                   *)
WorkGetsDone ==
    /\ \A p \in Stoppers : call[p] = Stopping ~> call[p] # Stopping
    /\ \A i \in Tasks : active /\ Queued(i) ~> i \in finished \/ ~active \/ suspended
    /\ \A i \in Timers : active /\ Due(i) ~> i \notin Armed \/ ~active \/ suspended

-----------------------------------------------------------------------------
(* The inductive invariant: what relates the flags of the schedule, the    *)
(* call that is in stop(), the place of every thread in its loop and the   *)
(* callbacks that are in its hands.                                        *)

(* A call holds an item exactly while it submits it, and a worker makes    *)
(* calls only from the callback that it runs.                              *)
CallsHold ==
    \A p \in Threads :
        /\ call[p].op = "push" => call[p].item \in Tasks
        /\ call[p].op = "arm" => call[p].item \in Timers
        /\ call[p].op \notin {"push", "arm"} => call[p] \in {Idle, Triggering, Stopping}
        /\ p \in Workers /\ call[p] # Idle => pc[p] = "run"

(* A worker has a callback in its hands exactly while it executes it, and  *)
(* recycled tasks only inside its loop; only the timeout thread waits for  *)
(* timers.                                                                 *)
WorkersHold ==
    \A w \in Workers :
        /\ running[w] # None <=> pc[w] \in {"run", "rearm"}
        /\ pc[w] = "rearm" => running[w] \in Intervals
        /\ local[w] # <<>> => w # Timer /\ pc[w] \notin {"off", "boot", "done"}
        /\ pc[w] \in {"fire", "wait", "poll"} => w = Timer

(* The life of the pool.  The threads exist from start() until a stop()    *)
(* has joined all of them; the thread that holds `exclusive` is inside     *)
(* stop() and has joined the workers before `joining`; work is refused     *)
(* from the moment stop() takes effect until it is complete.               *)
Lifecycle ==
    /\ active => ~terminate /\ exclusive = None
    /\ enqueue <=> active \/ (~terminate /\ exclusive = None)
    /\ exclusive = None => joining = 0
    /\ exclusive # None => call[exclusive] = Stopping
    /\ exclusive # None => \A w \in Workers : w < joining => pc[w] = "done"
    /\ \A w \in Workers : pc[w] = "off" <=> ~active /\ ~terminate /\ exclusive = None

Consistent == CallsHold /\ WorkersHold /\ Lifecycle

(* The state is well typed, and what the calls, the workers and the flags  *)
(* say of each other agrees, whatever threads call start, stop and suspend *)
(* at the same time.                                                       *)
Coherent == TypeOK /\ Consistent

-----------------------------------------------------------------------------
(* Whether an item is submitted by a call, executed by a worker, armed in  *)
(* the map of timers, or recycled to the private queue of a worker.        *)
InCall(i) == \E p \in Threads : call[p].item = i
InRun(i) == \E w \in Workers : running[w] = i
InTimers(i) == \E e \in timeouts : e[2] = i
InLocal(i) == \E w \in Workers : \E n \in 1..Len(local[w]) : local[w][n] = i

(* What an item can be in ...                                              *)
Containers == {"fresh", "finished", "cleared", "dropped", "sync", "call", "run",
               "timers", "local"}

In(i, c) ==
    \/ c = "fresh" /\ i \in fresh
    \/ c = "finished" /\ i \in finished
    \/ c = "cleared" /\ i \in cleared
    \/ c = "dropped" /\ i \in dropped
    \/ c = "sync" /\ i \in syncq
    \/ c = "call" /\ InCall(i)
    \/ c = "run" /\ InRun(i)
    \/ c = "timers" /\ InTimers(i)
    \/ c = "local" /\ InLocal(i)

(* ... and it is in one of them ...                                        *)
OneContainer ==
    \A i \in Items : \E c \in Containers : \A d \in Containers : In(i, d) <=> c = d

(* ... at one place.                                                       *)
OneCall ==
    \A p, q \in Threads : call[p].item = call[q].item /\ call[p].item # None => p = q

OneRun ==
    \A v, w \in Workers : running[v] = running[w] /\ running[v] # None => v = w

OneTimer == \A d, e \in timeouts : d[2] = e[2] => d = e

OneLocal ==
    \A v, w \in Workers : \A m \in 1..Len(local[v]), n \in 1..Len(local[w]) :
        local[v][m] = local[w][n] => v = w /\ m = n

OnePlace == OneCall /\ OneRun /\ OneTimer /\ OneLocal

-----------------------------------------------------------------------------
(* The schedule as an implementation of TaskPool.  A task waits from the   *)
(* moment set_task has read `enqueue` until a worker dequeues it: while    *)
(* its producer has not stored it yet, in the global queue, or in the      *)
(* private queue of a worker.  A timer is armed from the moment            *)
(* set_timeout or set_interval has read `enqueue`.                         *)
Submitted(op) == {call[p].item : p \in {q \in Threads : call[q].op = op}}

Waiting == syncq \cup Submitted("push") \cup UNION {Elements(local[w]) : w \in Workers}
Running == {running[w] : w \in Workers} \ {None}

Pool == INSTANCE TaskPool WITH
    waiting <- Waiting,
    running <- Running,
    armed <- Armed \cup Submitted("arm"),
    gone <- cleared \cup dropped

(* Every step of the schedule is a step of the pool, or changes nothing    *)
(* that the pool promises: no interleaving of producers, workers, timers,  *)
(* start and stop loses, repeats or revives a callback.                    *)
ImplementsPool == Pool!Spec

-----------------------------------------------------------------------------
(* Delays of the timers for TLC. *)
AllZero == [i \in Timers |-> 0]
Delays == [i \in Timers |-> IF i \in Intervals THEN 1 ELSE 2]
=============================================================================
