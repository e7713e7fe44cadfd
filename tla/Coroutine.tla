------------------------------ MODULE Coroutine ------------------------------
(***************************************************************************)
(* Stackful coroutines: the async loop of schedule::trigger_thread, the    *)
(* costate that each async worker owns (core.cpp) and coawait / coasync    *)
(* (core.h).  A coroutine awaits a promise that another thread sets; the   *)
(* continuation of that promise activates the coroutine again.             *)
(*                                                                         *)
(* Promise is the detailed model of the promises; here a coroutine awaits  *)
(* one at a time, so a promise is its code and its single continuation.    *)
(* Scheduler has the details of start and stop; here `active` stands for   *)
(* `enqueue` too, which stop() clears with it, and the empty callbacks of  *)
(* wakeup(), coroutines that return at once, are left out.                 *)
(***************************************************************************)
EXTENDS Integers, Sequences, FiniteSets

CONSTANTS
    Workers,        \* threads[async]
    Coroutines,     \* callbacks given to set_coroutine
    MaxCoroutines,  \* policy.max_coroutines
    MaxRecycles,    \* policy.max_recycles
    MaxAwaits,      \* bound: promises a coroutine awaits
    IdleTimeouts,   \* whether idle_timeout ends the wait of a worker
    Stops,          \* whether the schedule is stopped
    None

CoroutineAssumption ==
    /\ MaxCoroutines \in Nat \ {0}
    /\ MaxRecycles \in Nat /\ MaxAwaits \in Nat
    /\ IdleTimeouts \in BOOLEAN /\ Stops \in BOOLEAN
    /\ None \notin Coroutines

VARIABLES
    active,         \* schedule::active
    asyncq,         \* async->queue
    resync,         \* async->resync
    local,          \* thread_data::queue of each worker
    used,           \* costate::used of each worker
    current,        \* costate::current of each worker
    visited,        \* routines the loop of dispatch() has passed
    pc,             \* where each worker is
    state,          \* coroutine::state
    future,         \* code of the promise that each coroutine awaits
    awaiter,        \* coroutines whose activation is stored in that promise
    posted,         \* activations handed to the scheduler by set()
    awaits,         \* bound: promises awaited so far
    fresh, dropped, dangling  \* history

worker == <<local, used, current, visited, pc>>
promise == <<future, awaiter, posted, awaits>>
vars == <<active, asyncq, resync, worker, state, promise, fresh, dropped, dangling>>

Init ==
    /\ active = TRUE /\ asyncq = {} /\ resync = TRUE
    /\ local = [w \in Workers |-> <<>>]
    /\ used = [w \in Workers |-> {}]
    /\ current = [w \in Workers |-> None]
    /\ visited = [w \in Workers |-> {}]
    /\ pc = [w \in Workers |-> "fill"]
    /\ state = [c \in Coroutines |-> "active"]
    /\ future = [c \in Coroutines |-> "none"]
    /\ awaiter = {} /\ posted = {}
    /\ awaits = [c \in Coroutines |-> 0]
    /\ fresh = Coroutines /\ dropped = {} /\ dangling = {}

Goto(w, l) == pc' = [pc EXCEPT ![w] = l]

-----------------------------------------------------------------------------
(* set_coroutine from a thread that is not an async worker.                *)
set_coroutine(c) ==
    /\ c \in fresh /\ active
    /\ fresh' = fresh \ {c}
    /\ asyncq' = asyncq \cup {c}
    /\ UNCHANGED <<active, resync, worker, state, promise, dropped, dangling>>

(* set_coroutine, or coasync, from a coroutine; fast_bypass_enqueue.       *)
spawn(w, c, recyclable) ==
    /\ pc[w] = "run" /\ c \in fresh /\ active
    /\ fresh' = fresh \ {c}
    /\ IF recyclable /\ Cardinality(Workers) > 1 /\ Len(local[w]) < MaxRecycles
       THEN local' = [local EXCEPT ![w] = Append(@, c)] /\ UNCHANGED asyncq
       ELSE asyncq' = asyncq \cup {c} /\ UNCHANGED local
    /\ UNCHANGED <<active, resync, used, current, visited, pc, state, promise,
                   dropped, dangling>>

-----------------------------------------------------------------------------
(* trigger_thread(difficulty::async)                                       *)

(* Fill up to max_coroutines, the private queue first; costate::pop.       *)
fill(w) ==
    /\ pc[w] = "fill" /\ Cardinality(used[w]) < MaxCoroutines
    /\ \/ /\ local[w] # <<>>
          /\ used' = [used EXCEPT ![w] = @ \cup {Head(local[w])}]
          /\ local' = [local EXCEPT ![w] = Tail(@)]
          /\ UNCHANGED asyncq
       \/ /\ local[w] = <<>>
          /\ \E c \in asyncq : /\ asyncq' = asyncq \ {c}
                               /\ used' = [used EXCEPT ![w] = @ \cup {c}]
          /\ UNCHANGED local
    /\ UNCHANGED <<active, resync, current, visited, pc, state, promise, fresh,
                   dropped, dangling>>

filled(w) ==
    /\ pc[w] = "fill"
    /\ Cardinality(used[w]) = MaxCoroutines \/ (local[w] = <<>> /\ asyncq = {})
    /\ visited' = [visited EXCEPT ![w] = {}]
    /\ Goto(w, "dispatch")
    /\ UNCHANGED <<active, asyncq, resync, local, used, current, state, promise,
                   fresh, dropped, dangling>>

(* costate::execute of the next routine: a suspended one is passed over,   *)
(* a resumable one becomes active and runs.                                *)
execute(w, c) ==
    /\ pc[w] = "dispatch" /\ c \in used[w] \ visited[w]
    /\ visited' = [visited EXCEPT ![w] = @ \cup {c}]
    /\ IF state[c] = "suspended"
       THEN UNCHANGED <<state, current, pc>>
       ELSE /\ state' = [state EXCEPT ![c] = "active"]
            /\ current' = [current EXCEPT ![w] = c]
            /\ Goto(w, "run")
    /\ UNCHANGED <<active, asyncq, resync, local, used, promise, fresh, dropped,
                   dangling>>

(* The routine calls an asynchronous operation and awaits its promise.     *)
call_async(w) ==
    /\ pc[w] = "run" /\ future[current[w]] = "none" /\ awaits[current[w]] < MaxAwaits
    /\ future' = [future EXCEPT ![current[w]] = "pending"]
    /\ awaits' = [awaits EXCEPT ![current[w]] = @ + 1]
    /\ UNCHANGED <<active, asyncq, resync, worker, state, awaiter, posted, fresh,
                   dropped, dangling>>

(* coawait: a promise that is ready is read at once, else deactivate()     *)
(* suspends the routine and switches back; the continuation is not stored  *)
(* before that, but by the deferred callback of execute().                 *)
coawait(w) ==
    /\ pc[w] = "run"
    /\ \/ /\ future[current[w]] = "ready"
          /\ future' = [future EXCEPT ![current[w]] = "none"]
          /\ UNCHANGED <<state, pc>>
       \/ /\ future[current[w]] = "pending"
          /\ state' = [state EXCEPT ![current[w]] = "suspended"]
          /\ Goto(w, "defer")
          /\ UNCHANGED future
    /\ UNCHANGED <<active, asyncq, resync, local, used, current, visited, awaiter,
                   posted, awaits, fresh, dropped, dangling>>

Resumed(s) == IF s = "suspended" THEN "resumable" ELSE s

(* routine->defer, called by execute() once the routine has switched back; *)
(* `current` still names it here, to say whose callback it is.             *)
(* future.when() activates in place if the promise has been set since, and *)
(* stores the activation otherwise.                                        *)
defer(w) ==
    /\ pc[w] = "defer"
    /\ LET c == current[w]
       IN  IF future[c] = "ready"
           THEN state' = [state EXCEPT ![c] = Resumed(@)] /\ UNCHANGED awaiter
           ELSE awaiter' = awaiter \cup {c} /\ UNCHANGED state
    /\ current' = [current EXCEPT ![w] = None]
    /\ Goto(w, "dispatch")
    /\ UNCHANGED <<active, asyncq, resync, local, used, visited, future, posted,
                   awaits, fresh, dropped, dangling>>

(* The callback of the routine returns: execution_entry, costate::reuse.   *)
(* dispatch() then starts over.                                            *)
finish(w) ==
    /\ pc[w] = "run" /\ future[current[w]] = "none"
    /\ state' = [state EXCEPT ![current[w]] = "finished"]
    /\ used' = [used EXCEPT ![w] = @ \ {current[w]}]
    /\ current' = [current EXCEPT ![w] = None]
    /\ visited' = [visited EXCEPT ![w] = {}]
    /\ Goto(w, "dispatch")
    /\ UNCHANGED <<active, asyncq, resync, local, promise, fresh, dropped, dangling>>

dispatched(w) ==
    /\ pc[w] = "dispatch" /\ used[w] \subseteq visited[w]
    /\ Goto(w, "wait")
    /\ UNCHANGED <<active, asyncq, resync, local, used, current, visited, state,
                   promise, fresh, dropped, dangling>>

has_resumable_coroutines(w) == \E c \in used[w] : state[c] \in {"active", "resumable"}

(* The wait of the async loop under thread->update, and its predicate.     *)
wake(w) ==
    /\ pc[w] = "wait"
    /\ \/ IdleTimeouts
       \/ ~active \/ has_resumable_coroutines(w) \/ resync
       \/ asyncq # {} /\ Cardinality(used[w]) + 1 < MaxCoroutines
    /\ resync' = FALSE
    /\ Goto(w, IF active THEN "fill" ELSE "exit")
    /\ UNCHANGED <<active, asyncq, local, used, current, visited, state, promise,
                   fresh, dropped, dangling>>

(* A worker that exits gives its private queue back and destroys its       *)
(* costate, with the routines that are still suspended in it.              *)
exit(w) ==
    /\ pc[w] = "exit"
    /\ asyncq' = asyncq \cup {local[w][k] : k \in 1..Len(local[w])}
    /\ local' = [local EXCEPT ![w] = <<>>]
    /\ dropped' = dropped \cup used[w]
    /\ used' = [used EXCEPT ![w] = {}]
    /\ Goto(w, "off")
    /\ UNCHANGED <<active, resync, current, visited, state, promise, fresh, dangling>>

-----------------------------------------------------------------------------
(* Faulty set: it posts an activation that nobody stored.                  *)
set_always_posts(c) ==
    /\ future[c] = "pending"
    /\ future' = [future EXCEPT ![c] = "ready"]
    /\ awaiter' = awaiter \ {c}
    /\ posted' = posted \cup {c}
    /\ UNCHANGED <<active, asyncq, resync, worker, state, awaits, fresh, dropped,
                   dangling>>

(* Another thread sets the promise: basic_promise::set, which hands a      *)
(* stored continuation to the scheduler.                                   *)
set(c) ==
    /\ future[c] = "pending"
    /\ future' = [future EXCEPT ![c] = "ready"]
    /\ awaiter' = awaiter \ {c}
    /\ posted' = posted \cup ({c} \cap awaiter)
    /\ UNCHANGED <<active, asyncq, resync, worker, state, awaits, fresh, dropped,
                   dangling>>

(* costate::activate on another thread than the one of the costate.        *)
activate(c) ==
    /\ c \in posted
    /\ posted' = posted \ {c}
    /\ state' = [state EXCEPT ![c] = Resumed(@)]
    /\ dangling' = dangling \cup ({c} \cap dropped)
    /\ UNCHANGED <<active, asyncq, resync, worker, future, awaiter, awaits, fresh,
                   dropped>>

(* schedule::stop, as far as an async worker sees it; wakeup().            *)
stop ==
    /\ Stops /\ active
    /\ active' = FALSE /\ resync' = TRUE
    /\ UNCHANGED <<asyncq, worker, state, promise, fresh, dropped, dangling>>

-----------------------------------------------------------------------------
Loop(w) ==
    \/ fill(w) \/ filled(w) \/ dispatched(w) \/ wake(w) \/ exit(w)
    \/ \E c \in Coroutines : execute(w, c)

Body(w) == coawait(w) \/ defer(w) \/ finish(w)

Next ==
    \/ \E w \in Workers :
        \/ Loop(w) \/ Body(w) \/ call_async(w)
        \/ \E c \in Coroutines, recyclable \in BOOLEAN : spawn(w, c, recyclable)
    \/ \E c \in Coroutines : set_coroutine(c) \/ set(c) \/ activate(c)
    \/ stop

Spec == Init /\ [][Next]_vars

(* Workers run, promises are set and the scheduler runs what it was given. *)
Fairness ==
    /\ \A w \in Workers : WF_vars(Loop(w)) /\ WF_vars(Body(w))
    /\ \A c \in Coroutines : WF_vars(set(c)) /\ WF_vars(activate(c))

FairSpec == Spec /\ Fairness

-----------------------------------------------------------------------------
(* The type of the state; a costate has a current routine exactly while    *)
(* its worker runs one or takes care of its deferred callback.             *)
TypeOK ==
    /\ active \in BOOLEAN /\ resync \in BOOLEAN
    /\ asyncq \subseteq Coroutines
    /\ local \in [Workers -> Seq(Coroutines)]
    /\ used \in [Workers -> SUBSET Coroutines]
    /\ current \in [Workers -> Coroutines \cup {None}]
    /\ visited \in [Workers -> SUBSET Coroutines]
    /\ pc \in [Workers -> {"fill", "dispatch", "run", "defer", "wait", "exit", "off"}]
    /\ state \in [Coroutines -> {"active", "suspended", "resumable", "finished"}]
    /\ future \in [Coroutines -> {"none", "pending", "ready"}]
    /\ awaiter \subseteq Coroutines /\ posted \subseteq Coroutines
    /\ awaits \in [Coroutines -> Nat]
    /\ fresh \subseteq Coroutines /\ dropped \subseteq Coroutines
    /\ dangling \subseteq Coroutines
    /\ \A w \in Workers : current[w] # None <=> pc[w] \in {"run", "defer"}

Deferring(c) == \E w \in Workers : pc[w] = "defer" /\ current[w] = c

(* No activation is lost: a routine that is suspended has its activation   *)
(* stored in a promise still to be set, posted to the scheduler, or about  *)
(* to be stored by the worker that suspended it.  Exactly one of the three *)
(* holds, so no routine is activated twice either.                         *)
NoLostActivation ==
    \A c \in Coroutines \ dropped :
        /\ state[c] = "suspended" =>
            \/ c \in awaiter /\ future[c] = "pending"
            \/ c \in posted \/ Deferring(c)
        /\ c \in awaiter \cup posted =>
            /\ state[c] = "suspended" /\ ~Deferring(c)
            /\ ~(c \in awaiter /\ c \in posted)

(* activate() asserts that the routine it is given is not finished.        *)
ActivatesLive == \A c \in posted : state[c] # "finished"

(* A costate never has more than max_coroutines routines, and a routine    *)
(* belongs to one costate only.                                            *)
Capacity ==
    /\ \A w \in Workers : Cardinality(used[w]) <= MaxCoroutines
    /\ \A v, w \in Workers : v # w => used[v] \cap used[w] = {}

(* No activation reaches the stack of a routine that was destroyed, unless *)
(* the schedule was stopped while the routine was suspended.               *)
DanglesOnlyAfterStop == dangling # {} => ~active

(* A routine that was activated runs again, also if the wait of its worker *)
(* were not bounded by idle_timeout: activate() cannot miss a worker that  *)
(* is about to wait.                                                       *)
Resumable(c) == state[c] = "resumable" /\ c \notin dropped
=============================================================================
