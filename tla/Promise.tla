------------------------------- MODULE Promise -------------------------------
(***************************************************************************)
(* core::basic_promise (core.h): one shared promise_state, the thread that *)
(* sets it and the threads that consume it with when() / then() or block   *)
(* in wait().  The state has room for one continuation only, a reference   *)
(* count that frees it, and a code that tells set() how to execute that    *)
(* continuation: on the scheduler, or in place for a thread that waits.    *)
(***************************************************************************)
EXTENDS Integers, FiniteSets, FiniteSetTheorems, TLAPS

CONSTANTS
    Setter,         \* the thread that calls set()
    Whens,          \* threads that call when() or then()
    Waits,          \* threads that call wait() or get()
    Stops,          \* whether the schedule may be stopped meanwhile
    Spurious,       \* whether a condition variable may wake without a reason
    None

Consumers == Whens \cup Waits
Handles == {Setter} \cup Consumers

ASSUME PromiseAssumption ==
    /\ Whens \cap Waits = {}
    /\ Setter \notin Consumers
    /\ None \notin Handles
    /\ IsFiniteSet(Consumers)
    /\ Stops \in BOOLEAN /\ Spurious \in BOOLEAN

VARIABLES
    code,           \* promise_state::code
    event,          \* promise_state::event: whose continuation it holds
    update,         \* holder of promise_state::update
    count,          \* promise_state::count
    pc,             \* where each handle's owner is
    taken,          \* the continuation moved out of `event`, and by whom
    queued,         \* continuations handed to schedule::set_task
    available,      \* schedule::is_available()
    notified,       \* waiters whose condition variable was notified
    ran,            \* history: how often each continuation ran
    replaced,       \* history: continuations overwritten in `event`
    refused         \* history: continuations that set_task did not accept

history == <<ran, replaced, refused>>
vars == <<code, event, update, count, pc, taken, queued, available, notified, history>>

Init ==
    /\ code = "pending" /\ event = None /\ update = None
    /\ count = Cardinality(Handles)
    /\ pc = [h \in Handles |-> "start"]
    /\ taken = [h \in Handles |-> None]
    /\ queued = {} /\ notified = {}
    /\ ran = [h \in Handles |-> 0]
    /\ replaced = {} /\ refused = {}
    /\ available \in BOOLEAN

Goto(h, l) == pc' = [pc EXCEPT ![h] = l]
Lock(h) == update = None /\ update' = h

(* Assigning `event` destroys the continuation that it held.               *)
Store(h) ==
    /\ event' = h
    /\ replaced' = replaced \cup ({event} \ {None})

(* execute(): move the continuation out and unlock, or just unlock.        *)
TakeEvent(h) ==
    /\ taken' = [taken EXCEPT ![h] = event]
    /\ event' = None /\ update' = None

-----------------------------------------------------------------------------
set(h) ==
    /\ h = Setter /\ pc[h] = "start" /\ Lock(h)
    /\ Goto(h, "set")
    /\ UNCHANGED <<code, event, count, taken, queued, available, notified, history>>

(* `async` is false when a thread has announced that it waits.             *)
set_ready(h) ==
    /\ pc[h] = "set"
    /\ code' = "ready"
    /\ TakeEvent(h)
    /\ Goto(h, IF event = None THEN "release"
               ELSE IF code # "waiting" THEN "execute" ELSE "inline")
    /\ UNCHANGED <<count, queued, available, notified, history>>

execute(h) ==
    /\ pc[h] = "execute"
    /\ Goto(h, IF available THEN "enqueue" ELSE "inline")
    /\ UNCHANGED <<code, event, update, count, taken, queued, available, notified,
                   history>>

(* parallel_executor: schedule::set_task after is_available(); its result  *)
(* is ignored, so a schedule that stops in between discards the callback.  *)
enqueue(h) ==
    /\ pc[h] = "enqueue"
    /\ IF available
       THEN queued' = queued \cup {taken[h]} /\ UNCHANGED refused
       ELSE refused' = refused \cup {taken[h]} /\ UNCHANGED queued
    /\ taken' = [taken EXCEPT ![h] = None]
    /\ Goto(h, "release")
    /\ UNCHANGED <<code, event, update, count, available, notified, ran, replaced>>

(* What a continuation does: that of when() uses the value and drops its   *)
(* reference, that of wait() notifies.                                     *)
Continuation(c) ==
    /\ ran' = [ran EXCEPT ![c] = @ + 1]
    /\ IF c \in Waits
       THEN notified' = notified \cup {c} /\ UNCHANGED count
       ELSE count' = count - 1 /\ UNCHANGED notified

inline(h) ==
    /\ pc[h] = "inline"
    /\ Continuation(taken[h])
    /\ taken' = [taken EXCEPT ![h] = None]
    /\ Goto(h, "release")
    /\ UNCHANGED <<code, event, update, queued, available, replaced, refused>>

(* A worker of the scheduler runs a queued continuation.                   *)
run_queued(c) ==
    /\ available /\ c \in queued
    /\ queued' = queued \ {c}
    /\ Continuation(c)
    /\ UNCHANGED <<code, event, update, pc, taken, available, replaced, refused>>

(* schedule::stop()                                                        *)
stop_schedule ==
    /\ Stops /\ available
    /\ available' = FALSE
    /\ UNCHANGED <<code, event, update, count, pc, taken, queued, notified, history>>

(* ~basic_promise: the owner of a handle lets go of it.                    *)
release(h) ==
    /\ pc[h] = "release"
    /\ count' = count - 1
    /\ Goto(h, "done")
    /\ UNCHANGED <<code, event, update, taken, queued, available, notified, history>>

-----------------------------------------------------------------------------
(* Faulty when: the state is not referenced for the continuation.          *)
when_unreferenced(h) ==
    /\ h \in Whens /\ pc[h] = "start"
    /\ IF code = "ready"
       THEN /\ ran' = [ran EXCEPT ![h] = @ + 1]
            /\ Goto(h, "release")
       ELSE Goto(h, "store") /\ UNCHANGED ran
    /\ UNCHANGED <<code, event, update, count, taken, queued, available, notified,
                   replaced, refused>>

(* when(): a value that is there is used at once, else the state is        *)
(* referenced and the continuation stored.                                 *)
when(h) ==
    /\ h \in Whens /\ pc[h] = "start"
    /\ IF code = "ready"
       THEN /\ ran' = [ran EXCEPT ![h] = @ + 1]
            /\ Goto(h, "release")
            /\ UNCHANGED count
       ELSE /\ count' = count + 1
            /\ Goto(h, "store")
            /\ UNCHANGED ran
    /\ UNCHANGED <<code, event, update, taken, queued, available, notified, replaced,
                   refused>>

(* then() stores its continuation without a look at the value.             *)
then(h) ==
    /\ h \in Whens /\ pc[h] = "start"
    /\ count' = count + 1
    /\ Goto(h, "store")
    /\ UNCHANGED <<code, event, update, taken, queued, available, notified, history>>

store(h) ==
    /\ pc[h] = "store" /\ Lock(h)
    /\ Store(h)
    /\ Goto(h, "stored")
    /\ UNCHANGED <<code, count, taken, queued, available, notified, ran, refused>>

(* Faulty stored: the code is not read again under the lock.               *)
stored_unchecked(h) ==
    /\ pc[h] = "stored"
    /\ update' = None /\ Goto(h, "release")
    /\ UNCHANGED <<code, event, taken, count, queued, available, notified, history>>

(* The value may have arrived between the test of when() and the lock.     *)
stored(h) ==
    /\ pc[h] = "stored"
    /\ IF code = "ready"
       THEN TakeEvent(h) /\ Goto(h, "inline")
       ELSE update' = None /\ Goto(h, "release") /\ UNCHANGED <<event, taken>>
    /\ UNCHANGED <<code, count, queued, available, notified, history>>

wait(h) ==
    /\ h \in Waits /\ pc[h] = "start"
    /\ Goto(h, IF code = "ready" THEN "release" ELSE "waiting")
    /\ UNCHANGED <<code, event, update, count, taken, queued, available, notified,
                   history>>

(* Announce the waiter, store its notification and block, which unlocks.   *)
Block(h) ==
    /\ code' = "waiting"
    /\ count' = count + 1
    /\ Store(h)
    /\ Goto(h, "blocked")

(* Faulty waiting: the code is not read again under the lock.              *)
waiting_unchecked(h) ==
    /\ pc[h] = "waiting" /\ update = None
    /\ Block(h)
    /\ UNCHANGED <<update, taken, queued, available, notified, ran, refused>>

(* Under the lock: return if the value has arrived since, else block.      *)
waiting(h) ==
    /\ pc[h] = "waiting" /\ update = None
    /\ IF code = "ready"
       THEN Goto(h, "release") /\ UNCHANGED <<code, event, count, replaced>>
       ELSE Block(h)
    /\ UNCHANGED <<update, taken, queued, available, notified, ran, refused>>

(* The notified waiter reacquires the lock, sees the value, and drops the  *)
(* reference that it took.                                                 *)
wake(h) ==
    /\ pc[h] = "blocked" /\ code = "ready" /\ update = None
    /\ h \in notified \/ Spurious
    /\ count' = count - 1
    /\ Goto(h, "release")
    /\ UNCHANGED <<code, event, update, taken, queued, available, notified, history>>

-----------------------------------------------------------------------------
Step(h) ==
    \/ set(h) \/ set_ready(h) \/ execute(h) \/ enqueue(h) \/ inline(h)
    \/ when(h) \/ then(h) \/ store(h) \/ stored(h)
    \/ wait(h) \/ waiting(h) \/ wake(h) \/ release(h)

Next == \/ \E h \in Handles : Step(h)
        \/ \E c \in Consumers : run_queued(c)
        \/ stop_schedule

Spec == Init /\ [][Next]_vars

(* Threads that are not blocked go on, and so does the scheduler.  Nothing *)
(* forces a condition variable to wake up that was not notified.           *)
Runs(h) == (pc[h] = "blocked" => h \in notified) /\ Step(h)

Fairness ==
    /\ \A h \in Handles : SF_vars(Runs(h))
    /\ \A c \in Consumers : WF_vars(run_queued(c))

FairSpec == Spec /\ Fairness

-----------------------------------------------------------------------------
PCs == {"start", "set", "execute", "enqueue", "inline", "release", "done",
        "store", "stored", "waiting", "blocked"}

(* The type of the state.  The count, of type uint32_t, never wraps.       *)
TypeOK ==
    /\ code \in {"pending", "waiting", "ready"}
    /\ event \in Consumers \cup {None}
    /\ update \in Handles \cup {None}
    /\ count \in Nat
    /\ pc \in [Handles -> PCs]
    /\ taken \in [Handles -> Consumers \cup {None}]
    /\ queued \subseteq Consumers /\ notified \subseteq Waits /\ available \in BOOLEAN
    /\ ran \in [Handles -> Nat]
    /\ replaced \subseteq Consumers /\ refused \subseteq Whens

(* Where a continuation that was stored can be.                            *)
Pending(c) == event = c \/ c \in queued \/ \E h \in Handles : taken[h] = c

(* Continuations that the code gives up: overwritten by a later one, or    *)
(* refused by a schedule that was stopped after it was seen available.     *)
Lost == replaced \cup refused

\* No continuation runs twice, and none that runs was lost or is still to run.
OnceEach ==
    \A c \in Consumers :
        /\ ran[c] <= 1
        /\ ran[c] = 1 => ~Pending(c) /\ c \notin Lost

\* One that is still in the state when the value is there belongs to the
\* thread that holds the lock.
NothingLeftBehind ==
    code = "ready" /\ event # None => update = event /\ pc[event] = "stored"

(* No continuation runs twice, none runs that set() or when() gave up, and *)
(* a value that has arrived leaves none behind in the state, whatever the  *)
(* order of set(), when(), wait() and the schedule.                        *)
ExactlyOnce == OnceEach /\ NothingLeftBehind

(* References.  A thread refers to the state through its handle until it   *)
(* releases it; a continuation of when() and a blocked waiter refer to it  *)
(* once more, and a lost continuation never drops its reference.           *)
Referring == {h \in Handles : pc[h] # "done"}
Extra == {c \in Whens : pc[c] = "store" \/ Pending(c)}
             \cup {c \in Waits : pc[c] = "blocked"}
Leaked == Whens \cap Lost

(* The count is exact, so the state is freed when its last user is gone,   *)
(* never while a thread or a continuation can still touch it, and it leaks *)
(* only if a continuation was lost.                                        *)
CountExact ==
    count = Cardinality(Referring) + Cardinality(Extra) + Cardinality(Leaked)

Served(c) == pc[c] = "done" /\ (c \in Whens => ran[c] = 1)

(***************************************************************************)
(* basic_promise for any number of consumers: no continuation runs twice,  *)
(* none is left in the state after the value has come, and the reference   *)
(* count is the number of those that still refer to the state.             *)
(***************************************************************************)

Types ==
    /\ code \in {"pending", "waiting", "ready"}
    /\ event \in Consumers \cup {None}
    /\ update \in Handles \cup {None}
    /\ pc \in [Handles -> PCs]
    /\ taken \in [Handles -> Consumers \cup {None}]
    /\ queued \subseteq Whens /\ notified \subseteq Waits /\ available \in BOOLEAN
    /\ ran \in [Handles -> Nat]
    /\ replaced \subseteq Consumers /\ refused \subseteq Whens

\* What each kind of thread can be doing.
Roles ==
    /\ pc[Setter] \in {"start", "set", "execute", "enqueue", "inline", "release", "done"}
    /\ \A c \in Whens : pc[c] \in {"start", "store", "stored", "inline", "release", "done"}
    /\ \A c \in Waits : pc[c] \in {"start", "waiting", "blocked", "release", "done"}

\* The lock belongs to the thread that is between two of its steps, and a
\* continuation stays where it was stored until its thread unlocks.
Locked ==
    /\ \A h \in Handles : pc[h] \in {"set", "stored"} => update = h
    /\ \A h \in Handles : pc[h] = "stored" => event = h
    /\ event \in Waits => code = "waiting"

\* Who has moved a continuation out of the state.
Moved ==
    \A h \in Handles :
        /\ taken[h] # None <=> pc[h] \in {"execute", "enqueue", "inline"}
        /\ pc[h] \in {"execute", "enqueue"} => taken[h] \in Whens

\* A thread that has not stored its continuation has none anywhere.
Fresh ==
    \A c \in Consumers :
        pc[c] \in {"start", "store", "waiting"} => ran[c] = 0 /\ ~Pending(c) /\ c \notin Lost

\* A continuation is in one place.
Single ==
    /\ event \notin queued \cup Lost
    /\ queued \cap Lost = {}
    /\ \A h \in Handles :
           /\ taken[h] # None => taken[h] # event /\ taken[h] \notin queued \cup Lost
           /\ \A g \in Handles : taken[g] = taken[h] /\ taken[h] # None => g = h

Inv ==
    /\ Types /\ Roles /\ Locked /\ Moved /\ Fresh /\ Single
    /\ OnceEach /\ NothingLeftBehind

(* Nobody has done anything yet.                                           *)
LEMMA InvInit == Init => Inv
<1> SUFFICES ASSUME Init PROVE Inv
  BY Zenon
<1> USE DEF Consumers, Handles
<1>1. Types /\ Roles /\ Locked /\ Moved
  BY PromiseAssumption, Zenon DEF Init, Types, Roles, Locked, Moved, PCs
<1>2. Fresh /\ OnceEach
  BY PromiseAssumption DEF Init, Fresh, OnceEach, Pending, Lost
<1>3. Single /\ NothingLeftBehind
  BY PromiseAssumption, Zenon DEF Init, Single, NothingLeftBehind, Lost
<1> QED BY <1>1, <1>2, <1>3, Zenon DEF Inv

(* Every step of a thread or of a worker keeps Inv.                        *)
LEMMA InvNext == Inv /\ [Next]_vars => Inv'
<1> SUFFICES ASSUME Inv, [Next]_vars PROVE Inv'
  BY Zenon
<1> USE PromiseAssumption DEF Consumers, Handles
<1> DEFINE Where == Types /\ Roles /\ Locked /\ Moved /\ NothingLeftBehind
           Once == Fresh /\ Single /\ OnceEach
<1>0. SUFFICES Where' /\ Once'
  BY Zenon DEF Inv
<1>a. ASSUME NEW h \in Handles, set(h) PROVE Inv'
  <2>1. Where'
    BY <1>a DEF Inv, set, Lock, Goto, history, Types, Roles, Locked, Moved, NothingLeftBehind, PCs
  <2>2. Once'
    BY <1>a, Zenon DEF Inv, set, Lock, Goto, history, Types, Fresh, Single, OnceEach, Pending, Lost
  <2> QED BY <2>1, <2>2, Zenon DEF Inv
<1>b. ASSUME NEW h \in Handles, set_ready(h) PROVE Inv'
  <2>1. Where'
    BY <1>b DEF Inv, set_ready, TakeEvent, Goto, history, Types, Roles, Locked, Moved, NothingLeftBehind, PCs
  <2>2. Once'
    BY <1>b DEF Inv, set_ready, TakeEvent, Goto, history, Types, Roles, Moved, Fresh, Single, OnceEach, Pending, Lost
  <2> QED BY <2>1, <2>2, Zenon DEF Inv
<1>c. ASSUME NEW h \in Handles, execute(h) PROVE Inv'
  <2>1. Where'
    BY <1>c, Zenon DEF Inv, execute, Goto, history, Types, Roles, Locked, Moved, NothingLeftBehind, PCs
  <2>2. Once'
    BY <1>c, Zenon DEF Inv, execute, Goto, history, Types, Fresh, Single, OnceEach, Pending, Lost
  <2> QED BY <2>1, <2>2, Zenon DEF Inv
<1>d. ASSUME NEW h \in Handles, enqueue(h) PROVE Inv'
  <2>1. Where'
    BY <1>d DEF Inv, enqueue, Goto, history, Types, Roles, Locked, Moved, NothingLeftBehind, PCs
  <2>2. Once'
    BY <1>d DEF Inv, enqueue, Goto, history, Types, Moved, Fresh, Single, OnceEach, Pending, Lost
  <2> QED BY <2>1, <2>2, Zenon DEF Inv
<1>e. ASSUME NEW h \in Handles, inline(h) PROVE Inv'
  <2>1. Where'
    BY <1>e DEF Inv, inline, Continuation, Goto, history, Types, Roles, Locked, Moved, NothingLeftBehind, PCs
  <2>2. Once'
    BY <1>e DEF Inv, inline, Continuation, Goto, history, Types, Moved, Fresh, Single, OnceEach, Pending, Lost
  <2> QED BY <2>1, <2>2, Zenon DEF Inv
<1>f. ASSUME NEW h \in Handles, when(h) PROVE Inv'
  <2>1. Where'
    BY <1>f DEF Inv, when, Goto, history, Types, Roles, Locked, Moved, NothingLeftBehind, PCs
  <2>2. Once'
    BY <1>f DEF Inv, when, Goto, history, Types, Fresh, Single, OnceEach, Pending, Lost
  <2> QED BY <2>1, <2>2, Zenon DEF Inv
<1>g. ASSUME NEW h \in Handles, then(h) PROVE Inv'
  <2>1. Where'
    BY <1>g DEF Inv, then, Goto, history, Types, Roles, Locked, Moved, NothingLeftBehind, PCs
  <2>2. Once'
    BY <1>g, Zenon DEF Inv, then, Goto, history, Types, Fresh, Single, OnceEach, Pending, Lost
  <2> QED BY <2>1, <2>2, Zenon DEF Inv
<1>h. ASSUME NEW h \in Handles, store(h) PROVE Inv'
  <2>1. Where'
    BY <1>h DEF Inv, store, Store, Lock, Goto, history, Types, Roles, Locked, Moved, NothingLeftBehind, PCs
  <2>2. Once'
    BY <1>h DEF Inv, store, Store, Lock, Goto, history, Types, Roles, Fresh, Single, OnceEach, Pending, Lost
  <2> QED BY <2>1, <2>2, Zenon DEF Inv
<1>i. ASSUME NEW h \in Handles, stored(h) PROVE Inv'
  <2>1. Where'
    BY <1>i DEF Inv, stored, TakeEvent, Goto, history, Types, Roles, Locked, Moved, NothingLeftBehind, PCs
  <2>2. Once'
    BY <1>i DEF Inv, stored, TakeEvent, Goto, history, Types, Roles, Moved, Fresh, Single, OnceEach, Pending, Lost
  <2> QED BY <2>1, <2>2, Zenon DEF Inv
<1>j. ASSUME NEW h \in Handles, wait(h) PROVE Inv'
  <2>1. Where'
    BY <1>j DEF Inv, wait, Goto, history, Types, Roles, Locked, Moved, NothingLeftBehind, PCs
  <2>2. Once'
    BY <1>j, Zenon DEF Inv, wait, Goto, history, Types, Fresh, Single, OnceEach, Pending, Lost
  <2> QED BY <2>1, <2>2, Zenon DEF Inv
<1>k. ASSUME NEW h \in Handles, waiting(h) PROVE Inv'
  <2>1. Where'
    BY <1>k DEF Inv, waiting, Block, Store, Goto, history, Types, Roles, Locked, Moved, NothingLeftBehind, PCs
  <2>2. Once'
    BY <1>k DEF Inv, waiting, Block, Store, Goto, history, Types, Roles, Fresh, Single, OnceEach, Pending, Lost
  <2> QED BY <2>1, <2>2, Zenon DEF Inv
<1>l. ASSUME NEW h \in Handles, wake(h) PROVE Inv'
  <2>1. Where'
    BY <1>l, Zenon DEF Inv, wake, Goto, history, Types, Roles, Locked, Moved, NothingLeftBehind, PCs
  <2>2. Once'
    BY <1>l, Zenon DEF Inv, wake, Goto, history, Types, Fresh, Single, OnceEach, Pending, Lost
  <2> QED BY <2>1, <2>2, Zenon DEF Inv
<1>m. ASSUME NEW h \in Handles, release(h) PROVE Inv'
  <2>1. Where'
    BY <1>m, Zenon DEF Inv, release, Goto, history, Types, Roles, Locked, Moved, NothingLeftBehind, PCs
  <2>2. Once'
    BY <1>m, Zenon DEF Inv, release, Goto, history, Types, Fresh, Single, OnceEach, Pending, Lost
  <2> QED BY <2>1, <2>2, Zenon DEF Inv
<1>n. ASSUME NEW c \in Consumers, run_queued(c) PROVE Inv'
  <2>1. Where'
    BY <1>n DEF Inv, run_queued, Continuation, history, Types, Roles, Locked, Moved, NothingLeftBehind, PCs
  <2>2. Once'
    BY <1>n DEF Inv, run_queued, Continuation, history, Types, Moved, Fresh, Single, OnceEach, Pending, Lost
  <2> QED BY <2>1, <2>2, Zenon DEF Inv
<1>o. CASE stop_schedule
  <2>1. Where'
    BY <1>o, Zenon DEF Inv, stop_schedule, history, Types, Roles, Locked, Moved, NothingLeftBehind
  <2>2. Once'
    BY <1>o, Zenon DEF Inv, stop_schedule, history, Fresh, Single, OnceEach, Pending, Lost
  <2> QED BY <2>1, <2>2, Zenon
<1>p. CASE UNCHANGED vars
  <2>1. Where'
    BY <1>p, Zenon DEF Inv, vars, history, Types, Roles, Locked, Moved, NothingLeftBehind
  <2>2. Once'
    BY <1>p, Zenon DEF Inv, vars, history, Fresh, Single, OnceEach, Pending, Lost
  <2> QED BY <2>1, <2>2, Zenon
<1> QED BY <1>0, <1>a, <1>b, <1>c, <1>d, <1>e, <1>f, <1>g, <1>h, <1>i, <1>j, <1>k, <1>l, <1>m, <1>n, <1>o, <1>p, Zenon DEF Inv, Next, Step

(* No continuation runs twice or after it was given up, and the value that *)
(* set() brings leaves none behind in the state, for any number of threads *)
(* and whenever the schedule stops.                                        *)
THEOREM ContinuationsOnce == Spec => []ExactlyOnce
<1>1. Inv => ExactlyOnce
  BY Zenon DEF Inv, ExactlyOnce
<1> QED BY <1>1, InvInit, InvNext, PTL DEF Spec

-----------------------------------------------------------------------------
(* The sets that are counted are finite, and one more or one less handle   *)
(* changes their cardinality by one.                                       *)
LEMMA Counting ==
    /\ Referring \subseteq Handles
    /\ Extra \subseteq Handles /\ Leaked \subseteq Handles
    /\ \A S : S \subseteq Handles =>
          /\ Cardinality(S) \in Nat
          /\ \A h \in Handles \ S : Cardinality(S \cup {h}) = Cardinality(S) + 1
          /\ \A h \in S : Cardinality(S \ {h}) = Cardinality(S) - 1
<1>1. IsFiniteSet(Handles)
  <2>1. IsFiniteSet(Consumers \cup {Setter}) BY PromiseAssumption, FS_AddElement, Zenon
  <2> QED BY <2>1, Zenon DEF Handles
<1>2. ASSUME NEW S, S \subseteq Handles
      PROVE  /\ Cardinality(S) \in Nat
             /\ \A h \in Handles \ S : Cardinality(S \cup {h}) = Cardinality(S) + 1
             /\ \A h \in S : Cardinality(S \ {h}) = Cardinality(S) - 1
  <2>1. IsFiniteSet(S)
    BY <1>1, <1>2, FS_Subset, Zenon
  <2>2. Cardinality(S) \in Nat
    BY <2>1, FS_CardinalityType, Zenon
  <2>3. \A h : h \notin S => Cardinality(S \cup {h}) = Cardinality(S) + 1
    BY <2>1, FS_AddElement, Zenon
  <2>4. \A h \in S : Cardinality(S \ {h}) = Cardinality(S) - 1
    BY <2>1, FS_RemoveElement, Zenon
  <2> QED BY <2>2, <2>3, <2>4, Zenon
<1>3. Referring \subseteq Handles /\ Extra \subseteq Handles /\ Leaked \subseteq Handles
  BY Zenon DEF Referring, Extra, Leaked, Handles, Consumers
<1> QED BY <1>2, <1>3, Zenon

(* Every handle refers to the state, and nothing else does.                *)
LEMMA CountInit == Init => CountExact
<1> SUFFICES ASSUME Init PROVE CountExact
  BY Zenon
<1>1. Referring = Handles
  BY Zenon DEF Init, Referring
<1>2. Extra = {} /\ Leaked = {}
  BY PromiseAssumption, Zenon DEF Init, Extra, Leaked, Pending, Lost, Consumers, Handles
<1> QED BY <1>1, <1>2, FS_EmptySet, Counting DEF Init, CountExact

(* One more or one less of those that refer to the state; and what is      *)
(* overwritten in it, or was moved out of it and is not accepted, leaves   *)
(* Extra and is in Leaked from then on.                                    *)
LEMMA Changes ==
    /\ Cardinality(Referring) \in Nat /\ Cardinality(Extra) \in Nat /\ Cardinality(Leaked) \in Nat
    /\ \A h \in Referring : Cardinality(Referring \ {h}) = Cardinality(Referring) - 1
    /\ \A h \in Extra : Cardinality(Extra \ {h}) = Cardinality(Extra) - 1
    /\ \A h \in Handles \ Extra : Cardinality(Extra \cup {h}) = Cardinality(Extra) + 1
    /\ \A h \in Handles \ Leaked : Cardinality(Leaked \cup {h}) = Cardinality(Leaked) + 1
    /\ \A h \in Handles \ Extra : \A e \in Extra :
          Cardinality((Extra \ {e}) \cup {h}) = Cardinality(Extra)
<1>1. \A h \in Handles \ Extra : \A e \in Extra :
          Cardinality((Extra \ {e}) \cup {h}) = Cardinality(Extra)
  <2> TAKE h \in Handles \ Extra
  <2> TAKE e \in Extra
  <2>1. Extra \ {e} \subseteq Handles /\ h \in Handles \ (Extra \ {e})
    BY Counting, Zenon
  <2>2. Cardinality((Extra \ {e}) \cup {h}) = Cardinality(Extra \ {e}) + 1
    BY <2>1, Counting, Zenon
  <2> QED BY <2>2, Counting
<1> QED BY <1>1, Counting, Zenon

(* Every step of a thread or of a worker counts what it does.              *)
LEMMA CountNext == Inv /\ CountExact /\ [Next]_vars => CountExact'
<1> SUFFICES ASSUME Inv, CountExact, [Next]_vars PROVE CountExact'
  BY Zenon
<1> USE PromiseAssumption DEF Consumers, Handles
<1> DEFINE Same == UNCHANGED <<count, Referring, Extra, Leaked>>
<1>0. ASSUME Same PROVE CountExact'
  BY <1>0, Zenon DEF CountExact
<1>a. ASSUME NEW h \in Handles, set(h) PROVE CountExact'
  <2>1. UNCHANGED <<count, Leaked>>
    BY <1>a, Zenon DEF set, Lock, history, Leaked, Lost
  <2>2. Referring' = Referring
    BY <1>a, Zenon DEF Inv, set, Lock, Goto, Types, Referring
  <2>3. Extra' = Extra
    BY <1>a, Zenon DEF Inv, set, Lock, Goto, Types, Roles, Locked, Moved, Extra, Pending
  <2> QED BY <1>0, <2>1, <2>2, <2>3, Zenon
<1>b. ASSUME NEW h \in Handles, set_ready(h) PROVE CountExact'
  <2>1. UNCHANGED <<count, Leaked>>
    BY <1>b, Zenon DEF set_ready, TakeEvent, history, Leaked, Lost
  <2>2. Referring' = Referring
    BY <1>b, Zenon DEF Inv, set_ready, TakeEvent, Goto, Types, Referring
  <2>3. Extra' = Extra
    BY <1>b, Zenon DEF Inv, set_ready, TakeEvent, Goto, Types, Roles, Locked, Moved, Extra, Pending
  <2> QED BY <1>0, <2>1, <2>2, <2>3, Zenon
<1>c. ASSUME NEW h \in Handles, execute(h) PROVE CountExact'
  <2>1. UNCHANGED <<count, Leaked>>
    BY <1>c, Zenon DEF execute, history, Leaked, Lost
  <2>2. Referring' = Referring
    BY <1>c, Zenon DEF Inv, execute, Goto, Types, Referring
  <2>3. Extra' = Extra
    BY <1>c, Zenon DEF Inv, execute, Goto, Types, Roles, Locked, Moved, Extra, Pending
  <2> QED BY <1>0, <2>1, <2>2, <2>3, Zenon
<1>d. ASSUME NEW h \in Handles, stored(h) PROVE CountExact'
  <2>1. UNCHANGED <<count, Leaked>>
    BY <1>d, Zenon DEF stored, TakeEvent, history, Leaked, Lost
  <2>2. Referring' = Referring
    BY <1>d, Zenon DEF Inv, stored, TakeEvent, Goto, Types, Referring
  <2>3. Extra' = Extra
    BY <1>d DEF Inv, stored, TakeEvent, Goto, Types, Roles, Locked, Moved, Extra, Pending
  <2> QED BY <1>0, <2>1, <2>2, <2>3, Zenon
<1>e. ASSUME NEW h \in Handles, wait(h) PROVE CountExact'
  <2>1. UNCHANGED <<count, Leaked>>
    BY <1>e, Zenon DEF wait, history, Leaked, Lost
  <2>2. Referring' = Referring
    BY <1>e, Zenon DEF Inv, wait, Goto, Types, Referring
  <2>3. Extra' = Extra
    BY <1>e, Zenon DEF Inv, wait, Goto, Types, Roles, Locked, Moved, Extra, Pending
  <2> QED BY <1>0, <2>1, <2>2, <2>3, Zenon
<1>f. ASSUME NEW h \in Handles, enqueue(h) PROVE CountExact'
  <2>1. count' = count /\ Referring' = Referring
    BY <1>f, Zenon DEF Inv, enqueue, Goto, Types, Referring
  <2>2. CASE available
    <3>1. Extra' = Extra /\ Leaked' = Leaked
      BY <1>f, <2>2 DEF Inv, enqueue, Goto, Types, Roles, Moved, Extra, Pending, Leaked, Lost
    <3> QED BY <1>0, <2>1, <3>1, Zenon
  <2>3. CASE ~available
    <3>1. taken[h] \in Extra /\ taken[h] \notin Leaked
      BY <1>f, Zenon DEF Inv, enqueue, Types, Moved, Single, Extra, Pending, Leaked
    <3>2. Extra' = Extra \ {taken[h]}
      BY <1>f, <2>3 DEF Inv, enqueue, Goto, Types, Roles, Moved, Single, Fresh, Extra, Pending
    <3>3. Leaked' = Leaked \cup {taken[h]}
      BY <1>f, <2>3, Zenon DEF Inv, enqueue, Moved, Leaked, Lost
    <3>4. Cardinality(Extra') = Cardinality(Extra) - 1
      BY <3>1, <3>2, Changes, Zenon
    <3>5. Cardinality(Leaked') = Cardinality(Leaked) + 1
      BY <3>1, <3>3, Changes, Zenon DEF Extra
    <3> QED BY <2>1, <3>4, <3>5, Changes DEF CountExact
  <2> QED BY <2>2, <2>3, Zenon
<1>g. ASSUME NEW h \in Handles, inline(h) PROVE CountExact'
  <2>1. Referring' = Referring /\ Leaked' = Leaked
    BY <1>g, Zenon DEF Inv, inline, Continuation, Goto, Types, Referring, Leaked, Lost
  <2>2. CASE taken[h] \in Waits
    <3>1. count' = count /\ Extra' = Extra
      BY <1>g, <2>2 DEF Inv, inline, Continuation, Goto, Types, Roles, Moved, Extra, Pending
    <3> QED BY <1>0, <2>1, <3>1, Zenon
  <2>3. CASE taken[h] \in Whens
    <3>1. count' = count - 1
      BY <1>g, <2>3, Zenon DEF inline, Continuation, Goto
    <3>2. taken[h] \in Extra /\ Extra' = Extra \ {taken[h]}
      BY <1>g, <2>3 DEF Inv, inline, Continuation, Goto, Types, Roles, Moved, Single, Fresh, Extra, Pending
    <3>3. Cardinality(Extra') = Cardinality(Extra) - 1
      BY <3>2, Changes, Zenon
    <3> QED BY <2>1, <3>1, <3>3, Changes DEF CountExact
  <2> QED BY <1>g, <2>2, <2>3, Zenon DEF Inv, inline, Continuation, Goto, Types, Moved
<1>h. ASSUME NEW c \in Consumers, run_queued(c) PROVE CountExact'
  <2>1. Referring' = Referring /\ Leaked' = Leaked
    BY <1>h, Zenon DEF Inv, run_queued, Continuation, Types, Referring, Leaked, Lost
  <2>2. CASE c \in Waits
    <3>1. count' = count /\ Extra' = Extra
      BY <1>h, <2>2, Zenon DEF Inv, run_queued, Continuation, Types, Roles, Moved, Extra, Pending
    <3> QED BY <1>0, <2>1, <3>1, Zenon
  <2>3. CASE c \in Whens
    <3>1. count' = count - 1
      BY <1>h, <2>3, Zenon DEF run_queued, Continuation
    <3>2. c \in Extra /\ Extra' = Extra \ {c}
      BY <1>h, <2>3 DEF Inv, run_queued, Continuation, Types, Roles, Moved, Single, Fresh, Extra, Pending
    <3>3. Cardinality(Extra') = Cardinality(Extra) - 1
      BY <3>2, Changes, Zenon
    <3> QED BY <2>1, <3>1, <3>3, Changes DEF CountExact
  <2> QED BY <1>h, <2>2, <2>3, Zenon DEF Inv, run_queued, Continuation, Types, Moved
<1>i. ASSUME NEW h \in Handles, when(h) PROVE CountExact'
  <2>1. Referring' = Referring /\ Leaked' = Leaked
    BY <1>i, Zenon DEF Inv, when, Goto, history, Types, Referring, Leaked, Lost
  <2>2. CASE code = "ready"
    <3>1. count' = count /\ Extra' = Extra
      BY <1>i, <2>2, Zenon DEF Inv, when, Goto, Types, Extra, Pending
    <3> QED BY <1>0, <2>1, <3>1, Zenon
  <2>3. CASE code # "ready"
    <3>1. count' = count + 1
      BY <1>i, <2>3, Zenon DEF when
    <3>2. h \notin Extra /\ Extra' = Extra \cup {h}
      BY <1>i, <2>3 DEF Inv, when, Goto, Types, Fresh, Extra, Pending
    <3>3. Cardinality(Extra') = Cardinality(Extra) + 1
      BY <3>2, Changes, Zenon
    <3> QED BY <2>1, <3>1, <3>3, Changes DEF CountExact
  <2> QED BY <2>2, <2>3, Zenon
<1>j. ASSUME NEW h \in Handles, then(h) PROVE CountExact'
  <2>1. Referring' = Referring /\ Leaked' = Leaked
    BY <1>j, Zenon DEF Inv, then, Goto, history, Types, Referring, Leaked, Lost
  <2>2. count' = count + 1
    BY <1>j, Zenon DEF then
  <2>3. h \notin Extra /\ Extra' = Extra \cup {h}
    BY <1>j DEF Inv, then, Goto, Types, Fresh, Extra, Pending
  <2>4. Cardinality(Extra') = Cardinality(Extra) + 1
    BY <2>3, Changes, Zenon
  <2> QED BY <2>1, <2>2, <2>4, Changes DEF CountExact
<1>k. ASSUME NEW h \in Handles, store(h) PROVE CountExact'
  <2>1. count' = count /\ Referring' = Referring
    BY <1>k, Zenon DEF Inv, store, Goto, Types, Referring
  <2>2. CASE event \in Whens
    <3>1. event \in Extra /\ event \notin Leaked
      BY <2>2, Zenon DEF Inv, Single, Extra, Pending, Leaked
    <3>2. Extra' = Extra \ {event}
      BY <1>k, <2>2 DEF Inv, store, Store, Goto, Types, Roles, Single, Fresh, Extra, Pending
    <3>3. Leaked' = Leaked \cup {event}
      BY <1>k, <2>2, Zenon DEF Inv, store, Store, Types, Leaked, Lost
    <3>4. Cardinality(Extra') = Cardinality(Extra) - 1
      BY <3>1, <3>2, Changes, Zenon
    <3>5. Cardinality(Leaked') = Cardinality(Leaked) + 1
      BY <2>2, <3>1, <3>3, Changes, Zenon
    <3> QED BY <2>1, <3>4, <3>5, Changes DEF CountExact
  <2>3. CASE event \notin Whens
    <3>1. Extra' = Extra
      BY <1>k, <2>3 DEF Inv, store, Store, Goto, Types, Roles, Fresh, Extra, Pending
    <3>2. Leaked' = Leaked
      BY <1>k, <2>3, Zenon DEF Inv, store, Store, Types, Leaked, Lost
    <3> QED BY <1>0, <2>1, <3>1, <3>2, Zenon
  <2> QED BY <2>2, <2>3, Zenon
<1>l. ASSUME NEW h \in Handles, waiting(h) PROVE CountExact'
  <2>1. Referring' = Referring
    BY <1>l, Zenon DEF Inv, waiting, Block, Goto, Types, Referring
  <2>2. CASE code = "ready"
    <3>1. count' = count /\ Extra' = Extra /\ Leaked' = Leaked
      BY <1>l, <2>2, Zenon DEF Inv, waiting, Goto, Types, Extra, Pending, Leaked, Lost
    <3> QED BY <1>0, <2>1, <3>1, Zenon
  <2>3. CASE code # "ready"
    <3>0. count' = count + 1
      BY <1>l, <2>3, Zenon DEF waiting, Block
    <3>1. h \in Waits /\ h \notin Extra
      BY <1>l, Zenon DEF Inv, waiting, Roles, Fresh, Extra, Pending
    <3>2. CASE event \in Whens
      <4>1. event \in Extra /\ event \notin Leaked
        BY <3>2, Zenon DEF Inv, Single, Extra, Pending, Leaked
      <4>2. Extra' = (Extra \ {event}) \cup {h}
        BY <1>l, <2>3, <3>1, <3>2 DEF Inv, waiting, Block, Store, Goto, Types, Roles, Single, Fresh, Extra, Pending
      <4>3. Leaked' = Leaked \cup {event}
        BY <1>l, <2>3, <3>2, Zenon DEF Inv, waiting, Block, Store, Types, Leaked, Lost
      <4>4. Cardinality(Extra') = Cardinality(Extra)
        BY <3>1, <4>1, <4>2, Changes, Zenon
      <4>5. Cardinality(Leaked') = Cardinality(Leaked) + 1
        BY <3>2, <4>1, <4>3, Changes, Zenon
      <4> QED BY <2>1, <3>0, <4>4, <4>5, Changes DEF CountExact
    <3>3. CASE event \notin Whens
      <4>1. Extra' = Extra \cup {h}
        BY <1>l, <2>3, <3>1, <3>3 DEF Inv, waiting, Block, Store, Goto, Types, Roles, Fresh, Extra, Pending
      <4>2. Leaked' = Leaked
        BY <1>l, <2>3, <3>3 DEF Inv, waiting, Block, Store, Types, Leaked, Lost
      <4>3. Cardinality(Extra') = Cardinality(Extra) + 1
        BY <3>1, <4>1, Changes, Zenon
      <4> QED BY <2>1, <3>0, <4>2, <4>3, Changes DEF CountExact
    <3> QED BY <3>2, <3>3, Zenon
  <2> QED BY <2>2, <2>3, Zenon
<1>m. ASSUME NEW h \in Handles, wake(h) PROVE CountExact'
  <2>1. count' = count - 1 /\ Referring' = Referring /\ Leaked' = Leaked
    BY <1>m, Zenon DEF Inv, wake, Goto, history, Types, Referring, Leaked, Lost
  <2>2. h \in Extra /\ Extra' = Extra \ {h}
    BY <1>m, Zenon DEF Inv, wake, Goto, Types, Roles, Extra, Pending
  <2>3. Cardinality(Extra') = Cardinality(Extra) - 1
    BY <2>2, Changes, Zenon
  <2> QED BY <2>1, <2>3, Changes DEF CountExact
<1>n. ASSUME NEW h \in Handles, release(h) PROVE CountExact'
  <2>1. count' = count - 1 /\ Extra' = Extra /\ Leaked' = Leaked
    BY <1>n, Zenon DEF Inv, release, Goto, history, Types, Extra, Pending, Leaked, Lost
  <2>2. h \in Referring /\ Referring' = Referring \ {h}
    BY <1>n, Zenon DEF Inv, release, Goto, Types, Referring
  <2>3. Cardinality(Referring') = Cardinality(Referring) - 1
    BY <2>2, Changes, Zenon
  <2> QED BY <2>1, <2>3, Changes DEF CountExact
<1>o. CASE stop_schedule
  BY <1>0, <1>o, Zenon DEF stop_schedule, history, Referring, Extra, Pending, Leaked, Lost
<1>p. CASE UNCHANGED vars
  BY <1>0, <1>p, Zenon DEF vars, history, Referring, Extra, Pending, Leaked, Lost
<1> QED BY <1>a, <1>b, <1>c, <1>d, <1>e, <1>f, <1>g, <1>h, <1>i, <1>j, <1>k, <1>l, <1>m, <1>n, <1>o, <1>p DEF Next, Step

(* promise_state is freed exactly when the last handle, continuation and   *)
(* blocked waiter is through with it: the count is never short, and is too *)
(* high only by the continuations that were given up.                      *)
THEOREM ReferencesExact == Spec => []CountExact
BY InvInit, InvNext, CountInit, CountNext, PTL DEF Spec
=============================================================================
