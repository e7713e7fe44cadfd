--------------------------- MODULE ScriptPromise ---------------------------
(***************************************************************************)
(* How a script waits for native code: bindings::promise, the suspension   *)
(* of an immediate_context, the callbacks it runs when Execute returns     *)
(* (stop_executions) and the event_loop of the thread that runs it.        *)
(*                                                                         *)
(* One context runs a script that calls asynchronous native operations,    *)
(* each returning a promise, and awaits them with yield().unwrap(), which  *)
(* is what co_await expands to.  Native threads settle the promises.       *)
(* AngelScript's Suspend() only asks for a suspension: the context counts  *)
(* as suspended once Execute has returned, and a store() that runs in      *)
(* between does not see it.                                                *)
(***************************************************************************)
EXTENDS Naturals, FiniteSets

CONSTANTS
    Promises,   \* the asynchronous calls the script makes
    Await,      \* TRUE: every call is awaited at once (co_await f())
    Subcalls,   \* TRUE: native code may call back into the script (execute_subcall)
    None

VARIABLES
    state,      \* of the context: idle, active, suspending, suspended, finished
    phase,      \* of its thread: "run", or "stops" after an Execute returned
    deny,       \* executor.deny_suspends: a subcall is running
    user,       \* the promise_ud user data: the promise that suspended it
    stops,      \* callbacks.stop_executions, one per dispatched promise
    deferred,   \* executor.deferred_exception: whose failure it holds
    expr,       \* the call being awaited: <<step, promise>> or None
    value,      \* of each promise: none, pending, set
    native,     \* of each operation: none, running, ok, fail
    link,       \* awaitable.when has been attached
    storing,    \* promise::store: no, due, notify, done
    callback,   \* promise::when: none, set, sent
    got,        \* what unwrap gave: None, "ok", "early" or whose failure
    apart,      \* promises whose failure need not meet their own unwrap
    queue,      \* notifications in event_loop::queue
    loop        \* the thread of the loop: polling, exited

ctx == <<state, phase, deny, user, stops, deferred>>
fut == <<value, native, link, storing, callback>>
vars == <<ctx, fut, expr, got, apart, queue, loop>>

Init ==
    /\ state = "idle" /\ phase = "run" /\ deny = FALSE /\ user = None
    /\ stops = {} /\ deferred = None /\ expr = None /\ apart = {} /\ queue = 0 /\ loop = "polling"
    /\ value = [p \in Promises |-> "none"]
    /\ native = [p \in Promises |-> "none"]
    /\ link = [p \in Promises |-> FALSE]
    /\ storing = [p \in Promises |-> "no"]
    /\ callback = [p \in Promises |-> "none"]
    /\ got = [p \in Promises |-> None]

Script == state = "active" /\ phase = "run"

\* execute_call: Prepare, a fresh future, resume
execute_call ==
    /\ state = "idle"
    /\ state' = "active"
    /\ UNCHANGED <<phase, deny, user, stops, deferred, fut, expr, got, apart, queue, loop>>

\* The native call and dispatch_awaitable: the promise learns of the result
\* only through a callback that runs when Execute returns.  Exceptions are
\* deferred while the operation starts, so that one that fails at once
\* throws at its unwrap.
Dispatch_now(p) ==
    /\ link' = [link EXCEPT ![p] = TRUE]
    /\ stops' = stops

dispatch_awaitable(p) ==
    /\ stops' = stops \union {p}
    /\ link' = link

\* The script has not got the outcome of the call yet.
Outstanding(p) == value[p] # "none" /\ (got[p] \in {None, "early"} \/ native[p] = "running")

Call(p) ==
    /\ Script /\ expr = None /\ value[p] = "none"
    /\ value' = [value EXCEPT ![p] = "pending"]
    /\ \E r \in {"running", "ok", "fail"} :
          /\ native' = [native EXCEPT ![p] = r]
          /\ deferred' = IF r = "fail" THEN p ELSE deferred
    /\ dispatch_awaitable(p)
    /\ expr' = IF Await THEN <<"yield", p>> ELSE None
    /\ LET others == {q \in Promises : Outstanding(q)}
       IN  apart' = IF others = {} THEN apart ELSE apart \union others \union {p}
    /\ UNCHANGED <<state, phase, deny, user, storing, callback, got, queue, loop>>

\* context->suspend(): not inside a subcall
is_suspendable == state # "suspended" /\ ~deny

\* promise::yield_if, under update; a yield that is not allowed throws
yield_if(p) ==
    /\ Script /\ value[p] # "none" /\ got[p] = None
    /\ IF Await THEN expr = <<"yield", p>> ELSE expr = None
    /\ IF value[p] = "pending"
       THEN IF is_suspendable
            THEN state' = "suspending" /\ user' = p /\ expr' = <<"unwrap", p>> /\ got' = got
            ELSE UNCHANGED <<state, user>> /\ expr' = None /\ got' = [got EXCEPT ![p] = "early"]
       ELSE UNCHANGED <<state, user, got>> /\ expr' = <<"unwrap", p>>
    /\ UNCHANGED <<phase, deny, stops, deferred, fut, apart, queue, loop>>

\* retrieve_void: a deferred exception is rethrown before the value is looked at
retrieve_void(p) ==
    /\ Script /\ expr = <<"unwrap", p>>
    /\ got' = [got EXCEPT ![p] = IF deferred # None THEN deferred
                                 ELSE IF value[p] = "pending" THEN "early" ELSE "ok"]
    /\ deferred' = None
    /\ expr' = None
    /\ UNCHANGED <<state, phase, deny, user, stops, fut, apart, queue, loop>>

\* promise::when with a script callback: a settled promise calls it now
when(p) ==
    /\ Script /\ expr = None /\ value[p] # "none" /\ callback[p] = "none"
    /\ callback' = [callback EXCEPT ![p] = IF value[p] = "set" THEN "sent" ELSE "set"]
    /\ UNCHANGED <<ctx, value, native, link, storing, expr, got, apart, queue, loop>>

\* execute_subcall around a callback of the script, and its return: the
\* nested execute_next runs the stop callbacks while the outer call is active
SubcallBegin ==
    /\ Subcalls /\ Script /\ expr = None /\ ~deny
    /\ deny' = TRUE
    /\ UNCHANGED <<state, phase, user, stops, deferred, fut, expr, got, apart, queue, loop>>

Stopped == IF stops = {} THEN "run" ELSE "stops"

execute_subcall ==
    /\ deny /\ Script /\ expr = None
    /\ deny' = FALSE
    /\ phase' = Stopped
    /\ UNCHANGED <<state, user, stops, deferred, fut, expr, got, apart, queue, loop>>

\* Execute returns: suspended, or finished
ExecuteSuspended ==
    /\ state = "suspending" /\ phase = "run"
    /\ state' = "suspended"
    /\ phase' = Stopped
    /\ UNCHANGED <<deny, user, stops, deferred, fut, expr, got, apart, queue, loop>>

ExecuteFinished ==
    /\ Script /\ expr = None /\ ~deny
    /\ state' = "finished"
    /\ phase' = Stopped
    /\ UNCHANGED <<deny, user, stops, deferred, fut, expr, got, apart, queue, loop>>

\* execute_next: one callback of the swapped queue, which attaches
\* awaitable.when; a result that is already there is stored at once
RunStop(p) ==
    /\ phase = "stops" /\ p \in stops
    /\ stops' = stops \ {p}
    /\ phase' = IF stops' = {} THEN "run" ELSE "stops"
    /\ link' = [link EXCEPT ![p] = TRUE]
    /\ storing' = IF native[p] = "running" THEN storing ELSE [storing EXCEPT ![p] = "due"]
    /\ UNCHANGED <<state, deny, user, deferred, value, native, callback, expr, got, apart, queue, loop>>

\* set_exception: kept for the next unwrap when the context is suspended,
\* raised in the running script otherwise.  An exception the script does
\* not catch ends the call.
set_exception(p) ==
    \/ /\ state = "suspended"
       /\ deferred' = p
       /\ UNCHANGED <<state, phase, expr, got, apart>>
    \/ /\ state \in {"active", "suspending"}
       /\ got' = IF expr = None THEN got ELSE [got EXCEPT ![expr[2]] = p]
       /\ expr' = None
       /\ apart' = IF expr = None THEN apart \union {p} ELSE apart
       /\ \/ UNCHANGED <<state, phase, deferred>>
          \/ ~deny /\ phase = "run" /\ state' = "finished" /\ phase' = Stopped /\ UNCHANGED deferred
    \/ /\ state = "finished"
       /\ UNCHANGED <<state, phase, deferred, expr, got, apart>>

\* A native operation ends; a failure is thrown into the context first
NativeEnds(p) ==
    /\ native[p] = "running"
    /\ \/ /\ native' = [native EXCEPT ![p] = "ok"]
          /\ UNCHANGED <<state, phase, deferred, expr, got, apart>>
       \/ /\ native' = [native EXCEPT ![p] = "fail"]
          /\ set_exception(p)
    /\ storing' = IF link[p] THEN [storing EXCEPT ![p] = "due"] ELSE storing
    /\ UNCHANGED <<deny, user, stops, value, link, callback, queue, loop>>

\* promise::store: the part under update, then the notification
Store_drops(p) ==
    /\ storing[p] = "due"
    /\ value' = [value EXCEPT ![p] = "set"]
    /\ user' = IF user = p THEN None ELSE user
    /\ storing' = [storing EXCEPT ![p] = IF state = "suspended" /\ user = p THEN "notify" ELSE "done"]
    /\ UNCHANGED <<state, phase, deny, stops, deferred, native, link, callback, expr, got, apart, queue, loop>>

store(p) ==
    /\ storing[p] = "due"
    /\ value' = [value EXCEPT ![p] = "set"]
    /\ user' = IF user = p THEN None ELSE user
    /\ callback' = [callback EXCEPT ![p] = IF @ = "set" THEN "sent" ELSE @]
    /\ storing' = [storing EXCEPT ![p] = IF state = "suspended" /\ user = p THEN "notify" ELSE "done"]
    /\ UNCHANGED <<state, phase, deny, stops, deferred, native, link, expr, got, apart, queue, loop>>

\* resolve_notification: event_loop::on_notification
resolve_notification(p) ==
    /\ storing[p] = "notify"
    /\ storing' = [storing EXCEPT ![p] = "done"]
    /\ queue' = queue + 1
    /\ UNCHANGED <<ctx, value, native, link, callback, expr, got, apart, loop>>

Idle == state \in {"suspended", "finished"} /\ phase = "run" /\ loop = "polling"

\* event_loop::dequeue: a suspended context is resumed
dequeue ==
    /\ Idle /\ queue > 0
    /\ queue' = queue - 1
    /\ state' = IF state = "suspended" THEN "active" ELSE state
    /\ UNCHANGED <<phase, deny, user, stops, deferred, fut, expr, got, apart, loop>>

\* event_loop::poll gives up on a context that is not busy
is_context_busy == user # None \/ state \in {"active", "suspending", "suspended"}

poll ==
    /\ Idle /\ ~is_context_busy /\ queue = 0
    /\ loop' = "exited"
    /\ UNCHANGED <<ctx, fut, expr, got, apart, queue>>

\* A poll that times out is followed by another
Waits == loop = "exited" \/ (Idle /\ queue = 0 /\ is_context_busy)

Thread == execute_call \/ execute_subcall \/ ExecuteSuspended \/ ExecuteFinished \/ dequeue \/ poll
Steps(p) == Call(p) \/ yield_if(p) \/ retrieve_void(p) \/ when(p)
Native(p) == NativeEnds(p) \/ store(p) \/ resolve_notification(p)

Next ==
    \/ Thread
    \/ SubcallBegin
    \/ \E p \in Promises : Steps(p) \/ RunStop(p) \/ Native(p)
    \/ Waits /\ UNCHANGED vars

\* The thread of the context keeps running the script it was given, the
\* schedule runs every native operation to its end
Spec ==
    /\ Init /\ [][Next]_vars
    /\ WF_vars(Thread)
    /\ \A p \in Promises : WF_vars(yield_if(p) \/ retrieve_void(p)) /\ WF_vars(RunStop(p)) /\ WF_vars(Native(p))

-----------------------------------------------------------------------------
(* Values of the right kind; a thread that runs stop callbacks has some. *)
TypeOK ==
    /\ state \in {"idle", "active", "suspending", "suspended", "finished"}
    /\ phase \in {"run", "stops"} /\ (phase = "stops") => stops # {}
    /\ deny \in BOOLEAN /\ user \in Promises \union {None}
    /\ stops \subseteq Promises /\ deferred \in Promises \union {None}
    /\ value \in [Promises -> {"none", "pending", "set"}]
    /\ native \in [Promises -> {"none", "running", "ok", "fail"}]
    /\ link \in [Promises -> BOOLEAN]
    /\ storing \in [Promises -> {"no", "due", "notify", "done"}]
    /\ callback \in [Promises -> {"none", "set", "sent"}]
    /\ queue \in 0..Cardinality(Promises)

(* An await that throws reports the failure of the operation it awaited,   *)
(* and one that returns normally awaited an operation that succeeded.      *)
(* This is so for a call that is the only one outstanding and fails before *)
(* or while it is awaited: a failure is raised in whatever the script runs *)
(* otherwise, and all calls share one slot for deferred exceptions         *)
(* (scripting.cpp 5904-5908).                                              *)
OwnError == \A p \in Promises :
    /\ got[p] \in Promises \ apart => got[p] = p
    /\ got[p] = "ok" => native[p] = "ok" \/ p \in apart

(* A failure that was deferred for the script is rethrown before the call  *)
(* it belongs to has ended, unless the script did not await that call, was *)
(* refused to in a subcall, or had two outstanding.                        *)
NoDroppedError ==
    (state = "finished" /\ deferred # None) =>
        ~Await /\ (got[deferred] \in {None, "early"} \/ deferred \in apart)

(* A callback given to when() is called exactly when the promise has been  *)
(* settled, whichever of when and store came first.                        *)
CallbackRuns == \A p \in Promises : value[p] = "set" => callback[p] # "set"

(* A context that waits for a promise is resumed: the store that settles   *)
(* the promise never misses the suspension.                                *)
Asleep == state = "suspended"

Awake == state = "active"

(* Every promise handed to a script is settled, also one that the script   *)
(* never awaits.                                                           *)
Unsettled(p) == value[p] = "pending"

(* The loop of a script thread ends once its script has. *)
LoopEnded == loop = "exited"
=============================================================================
