------------------------------ MODULE Runtime ------------------------------
(* The life of the library: the constructor and destructor of             *)
(* vitex::runtime, the singletons every other component reaches through    *)
(* X::get(), the teardown in runtime::cleanup_instances, which the         *)
(* application's own destructor also runs, and what the destructors of the *)
(* singletons call while the others are going down.  A teardown is a list  *)
(* of calls still to make (todo); a destructor puts its calls in front.    *)
EXTENDS Integers, Sequences, FiniteSets

CONSTANTS
    Types,      \* the singletons a program of this instance may create
    Touched,    \* the singletons a socket callback reaches through get()
    MaxMade,    \* bound on the objects of one type
    MaxEvents   \* bound on listening sockets and on queued acquisitions

\* runtime::cleanup_instances: who is released, and in which order.
Order == <<"application", "hrm_cache", "sqlite", "pq", "mongo", "uplinks", "transport_layer",
           "dns", "multiplexer", "schedule", "console">>
Names == {Order[i] : i \in 1..Len(Order)}

\* Types need a multiplexer below uplinks and pq, and a schedule below that.
RuntimeAssumption ==
    /\ Types \subseteq Names /\ {"multiplexer", "schedule"} \subseteq Types
    /\ Touched \subseteq {"schedule", "console"} \cap Types
    /\ MaxMade \in Nat \ {0} /\ MaxEvents \in Nat

VARIABLES
    phase,      \* "off", "up", "down" (the destructor runs) or "ended"
    modes,      \* the use_* bits the runtime was built with
    ptr,        \* the static instance pointer of each type, 0 for nullptr
    made,       \* how many objects of each type were constructed
    alive,      \* the objects constructed and not yet deleted
    dying,      \* the objects whose destructor has begun
    active,     \* the schedule's objects that run and accept tasks
    acts,       \* multiplexer::activations of the newest multiplexer
    events,     \* sockets listening, their callbacks pending
    requests,   \* acquisitions queued in the uplinks
    libs,       \* the libraries below: "none", "up" or "freed"
    allocator,  \* "none", "set", "reset" (no longer global) or "deleted"
    async,      \* log_option::async
    shown,      \* the console was attached or allocated
    todo,       \* calls the running destructors have still to make
    fault       \* what a call found destroyed

vars == <<phase, modes, ptr, made, alive, dying, active, acts, events, requests, libs, allocator,
          async, shown, todo, fault>>
world == <<phase, modes, libs, allocator, async, todo>>

Modes == SUBSET {"use_cryptography", "use_networking"}
Libraries == {"network", "cryptography", "scripting", "composer"}
Init ==
    /\ phase = "off" /\ modes \in Modes
    /\ ptr = [t \in Names |-> 0] /\ made = [t \in Names |-> 0]
    /\ alive = {} /\ dying = {} /\ active = {} /\ acts = 0 /\ events = 0 /\ requests = 0
    /\ libs = [l \in Libraries |-> "none"] /\ allocator = "none" /\ async = FALSE /\ shown = FALSE
    /\ todo = <<>> /\ fault = {}

----------------------------------------------------------------------------
\* runtime::runtime: the allocator is made global, then what the modes ask for.
initialize_allocator == allocator' = "set"
initialize_network == IF "use_networking" \in modes THEN {"network"} ELSE {}
initialize_cryptography == IF "use_cryptography" \in modes THEN {"cryptography"} ELSE {}
initialize_scripting == {"scripting"}
runtime_new ==
    /\ phase = "off"
    /\ initialize_allocator
    /\ LET up == initialize_network \cup initialize_cryptography \cup initialize_scripting IN
       libs' = [l \in Libraries |-> IF l \in up THEN "up" ELSE "none"]
    /\ phase' = "up"
    /\ UNCHANGED <<modes, ptr, made, alive, dying, active, acts, events, requests, async, shown, todo, fault>>

----------------------------------------------------------------------------
\* What X::get() needs: its own object and the ones its constructor gets.
\* uplinks and the pq driver activate the multiplexer, whose first
\* activation posts the dispatch on the schedule.
base(t) ==
    IF t \in {"uplinks", "pq"} THEN {t, "multiplexer", "schedule"} ELSE {t}
missing(t) == {u \in base(t) : ptr[u] = 0}
activates(t) == t \in {"uplinks", "pq"} /\ ptr[t] = 0

create_instance(t) ==
    LET new == missing(t) IN
    /\ made' = [u \in Names |-> IF u \in new THEN made[u] + 1 ELSE made[u]]
    /\ ptr' = [u \in Names |-> IF u \in new THEN made[u] + 1 ELSE ptr[u]]
    /\ alive' = alive \cup {<<u, made[u] + 1>> : u \in new}
    /\ acts' = (IF "multiplexer" \in new THEN 0 ELSE acts) + (IF activates(t) THEN 1 ELSE 0)
    /\ fault' = fault \cup {u \in base(t) : <<u, ptr[u]>> \in dying}
    /\ shown' = (shown /\ "console" \notin new)

\* The program: any singleton, a socket that listens, an acquisition that
\* waits, the schedule started or stopped, the console shown, async logging.
Running == phase = "up" /\ todo = <<>>
get(t) ==
    /\ Running /\ ptr[t] = 0 /\ \A u \in missing(t) : made[u] < MaxMade
    /\ create_instance(t)
    /\ UNCHANGED <<world, dying, active, events, requests>>
listen ==
    /\ Running /\ ptr["multiplexer"] # 0 /\ events < MaxEvents /\ events' = events + 1
    /\ UNCHANGED <<world, ptr, made, alive, dying, active, acts, requests, shown, fault>>
acquire ==
    /\ Running /\ ptr["uplinks"] # 0 /\ requests < MaxEvents /\ requests' = requests + 1
    /\ UNCHANGED <<world, ptr, made, alive, dying, active, acts, events, shown, fault>>
Scheduler == <<"schedule", ptr["schedule"]>>
start ==
    /\ Running /\ ptr["schedule"] # 0 /\ Scheduler \notin active /\ active' = active \cup {Scheduler}
    /\ UNCHANGED <<world, ptr, made, alive, dying, acts, events, requests, shown, fault>>
stop ==
    /\ Running /\ Scheduler \in active /\ active' = active \ {Scheduler}
    /\ UNCHANGED <<world, ptr, made, alive, dying, acts, events, requests, shown, fault>>
show ==
    /\ Running /\ ptr["console"] # 0 /\ ~shown /\ shown' = TRUE
    /\ UNCHANGED <<world, ptr, made, alive, dying, active, acts, events, requests, fault>>
set_flag ==
    /\ Running /\ ~async /\ async' = TRUE
    /\ UNCHANGED <<phase, modes, libs, allocator, todo, ptr, made, alive, dying, active, acts, events,
                   requests, shown, fault>>

----------------------------------------------------------------------------
\* The destructors, as the calls they make.
Calls(op, t) == <<<<op, t>>>>
cleanup_instances == [i \in 1..Len(Order) |-> <<"cleanup_instance", Order[i]>>]
application_delete == <<<<"release_vm", "application">>, <<"unlink_instance", "application">>>> \o cleanup_instances
uplinks_delete == <<<<"cancel_events", "uplinks">>, <<"deactivate", "uplinks">>, <<"refuse", "uplinks">>>>
pq_driver_delete == Calls("deactivate", "pq")
transport_layer_delete == Calls("free_contexts", "transport_layer")
multiplexer_delete == Calls("shutdown", "multiplexer")
schedule_delete == Calls("stop", "schedule")
console_delete == Calls("deallocate", "console")
body(t) ==
    CASE t = "application" -> application_delete
      [] t = "uplinks" -> uplinks_delete
      [] t = "pq" -> pq_driver_delete
      [] t = "transport_layer" -> transport_layer_delete
      [] t = "multiplexer" -> multiplexer_delete
      [] t = "schedule" -> schedule_delete
      [] t = "console" -> console_delete
      [] OTHER -> <<>>
\* runtime::~runtime.
runtime_delete ==
    Calls("async_off", "runtime") \o cleanup_instances
        \o (IF "use_cryptography" \in modes THEN Calls("cleanup_library", "cryptography") ELSE <<>>)
        \o (IF "use_networking" \in modes THEN Calls("cleanup_library", "network") ELSE <<>>)
        \o <<<<"cleanup_library", "scripting">>, <<"cleanup_library", "composer">>,
             <<"cleanup_error_handling", "runtime">>, <<"cleanup_memory", "runtime">>,
             <<"cleanup_allocator", "runtime">>>>

\* The program lets its application go, or its runtime.
release ==
    /\ Running /\ ptr["application"] # 0
    /\ todo' = application_delete \o <<<<"gone", "application", ptr["application"]>>>>
    /\ dying' = dying \cup {<<"application", ptr["application"]>>}
    /\ UNCHANGED <<phase, modes, ptr, made, alive, active, acts, events, requests, libs, allocator, async,
                   shown, fault>>
runtime_end ==
    /\ Running /\ phase' = "down" /\ todo' = runtime_delete
    /\ UNCHANGED <<modes, ptr, made, alive, dying, active, acts, events, requests, libs, allocator, async,
                   shown, fault>>

----------------------------------------------------------------------------
\* One call of a destructor.
Next_(op) == todo # <<>> /\ Head(todo)[1] = op
Arg == Head(todo)[2]
same == <<phase, modes, libs, allocator, async>>

\* singleton::cleanup_instance: release what the pointer names, which begins
\* its destructor; ~singleton and the assignment after it clear the pointer.
cleanup_instance ==
    /\ Next_("cleanup_instance")
    /\ LET t == Arg  o == <<t, ptr[t]>> IN
       IF ptr[t] = 0 THEN todo' = Tail(todo) /\ UNCHANGED <<dying, fault>>
       ELSE /\ fault' = fault \cup (IF o \in dying \/ o \notin alive THEN {t} ELSE {})
            /\ dying' = dying \cup {o}
            /\ todo' = (IF o \in dying THEN <<>> ELSE body(t)) \o <<<<"gone", t, ptr[t]>>>> \o Tail(todo)
    /\ UNCHANGED <<same, ptr, made, alive, active, acts, events, requests, shown>>

\* The end of a destructor: ~singleton clears the pointer if it is still this
\* object's.
gone ==
    /\ Next_("gone")
    /\ LET t == Arg  o == <<t, Head(todo)[3]>> IN
       /\ ptr' = [ptr EXCEPT ![t] = IF ptr[t] = o[2] THEN 0 ELSE @]
       /\ alive' = alive \ {o} /\ dying' = dying \ {o} /\ active' = active \ {o}
       /\ shown' = (shown /\ t # "console")
       /\ requests' = IF t = "uplinks" THEN 0 ELSE requests
       /\ events' = IF t = "multiplexer" THEN 0 ELSE events
    /\ todo' = Tail(todo)
    /\ UNCHANGED <<same, made, acts, fault>>

unlink_instance ==
    /\ Next_("unlink_instance")
    /\ ptr' = [ptr EXCEPT ![Arg] = 0] /\ todo' = Tail(todo)
    /\ UNCHANGED <<same, made, alive, dying, active, acts, events, requests, shown, fault>>

\* ~uplinks and ~driver call multiplexer::get(), which would build another
\* one if the multiplexer were gone, and deactivate it.
cancel_events ==
    /\ Next_("cancel_events") /\ create_instance("multiplexer")
    /\ todo' = Tail(todo)
    /\ UNCHANGED <<same, dying, active, events, requests>>
deactivate ==
    /\ Next_("deactivate")
    /\ LET new == missing("multiplexer") IN
       /\ made' = [u \in Names |-> IF u \in new THEN made[u] + 1 ELSE made[u]]
       /\ ptr' = [u \in Names |-> IF u \in new THEN made[u] + 1 ELSE ptr[u]]
       /\ alive' = alive \cup {<<u, made[u] + 1>> : u \in new}
       /\ acts' = (IF new = {} THEN acts ELSE 0) - 1
    /\ todo' = Tail(todo) /\ UNCHANGED <<shown, fault>>
    /\ UNCHANGED <<same, dying, active, events, requests>>

\* schedule::is_available: cospawn posts, or runs the callback at once.
is_available == ptr["schedule"] # 0 /\ Scheduler \in active
\* A callback that is run here reaches what it touches through get().
callback(n) ==
    \E t \in IF is_available \/ n = 0 THEN {} ELSE Touched : create_instance(t)
quiet(n) == is_available \/ n = 0 \/ Touched = {}
refuse ==
    /\ Next_("refuse") /\ requests' = 0
    /\ \/ requests # 0 /\ Touched # {} /\ \E t \in Touched : create_instance(t)
       \/ (requests = 0 \/ Touched = {}) /\ UNCHANGED <<ptr, made, alive, acts, shown, fault>>
    /\ todo' = Tail(todo)
    /\ UNCHANGED <<same, dying, active, events>>
shutdown ==
    /\ Next_("shutdown") /\ events' = 0
    /\ \/ callback(events)
       \/ quiet(events) /\ UNCHANGED <<ptr, made, alive, acts, shown, fault>>
    /\ todo' = Tail(todo)
    /\ UNCHANGED <<same, dying, active, requests>>

\* A destructor that needs a library: ~transport_layer frees its contexts,
\* ~application its virtual machine.
Needs(library) ==
    /\ fault' = fault \cup (IF libs[library] = "freed" THEN {library} ELSE {})
    /\ todo' = Tail(todo)
    /\ UNCHANGED <<same, ptr, made, alive, dying, active, acts, events, requests, shown>>
free_contexts == Next_("free_contexts") /\ Needs("cryptography")
release_vm == Next_("release_vm") /\ Needs("scripting")
schedule_stop ==
    /\ Next_("stop")
    /\ active' = {o \in active : o \notin dying} /\ todo' = Tail(todo)
    /\ UNCHANGED <<same, ptr, made, alive, dying, acts, events, requests, shown, fault>>
deallocate ==
    /\ Next_("deallocate") /\ shown' = FALSE /\ todo' = Tail(todo)
    /\ UNCHANGED <<same, ptr, made, alive, dying, active, acts, events, requests, fault>>

----------------------------------------------------------------------------
\* The rest of ~runtime.
objects == <<ptr, made, alive, dying, active, acts, events, requests, shown>>
async_off ==
    /\ Next_("async_off") /\ async' = FALSE /\ todo' = Tail(todo)
    /\ UNCHANGED <<phase, modes, libs, allocator, objects, fault>>
\* cleanup_cryptography, cleanup_network, cleanup_scripting, cleanup_composer
cleanup_library ==
    /\ Next_("cleanup_library") /\ libs' = [libs EXCEPT ![Arg] = "freed"] /\ todo' = Tail(todo)
    /\ UNCHANGED <<phase, modes, allocator, async, objects, fault>>
cleanup_error_handling ==
    /\ Next_("cleanup_error_handling") /\ async' = FALSE /\ todo' = Tail(todo)
    /\ UNCHANGED <<phase, modes, libs, allocator, objects, fault>>
\* Without a global allocator a block goes back to the C library.
cleanup_memory ==
    /\ Next_("cleanup_memory")
    /\ allocator' = "reset" /\ todo' = Tail(todo)
    /\ UNCHANGED <<phase, modes, libs, async, objects, fault>>
cleanup_allocator ==
    /\ Next_("cleanup_allocator")
    /\ fault' = fault \cup (IF allocator = "set" THEN {"allocator"} ELSE {})
    /\ allocator' = "deleted" /\ todo' = Tail(todo) /\ phase' = "ended"
    /\ UNCHANGED <<modes, libs, async, objects>>

\* error_handling::message, from any destructor: with async it is deferred
\* to a schedule that is available, else dispatched; dispatch writes to a
\* console that is available and never creates one.
console_available == ptr["console"] # 0 /\ shown
dispatch ==
    /\ fault' = fault \cup (IF console_available /\ <<"console", ptr["console"]>> \notin alive THEN {"console"} ELSE {})
    /\ UNCHANGED <<same, todo, objects>>
message ==
    /\ todo # <<>> /\ ~(async /\ is_available)
    /\ dispatch

Ended == phase = "ended" /\ UNCHANGED vars

Step ==
    \/ cleanup_instance \/ gone \/ unlink_instance \/ cancel_events \/ deactivate \/ refuse \/ shutdown
    \/ free_contexts \/ release_vm \/ schedule_stop \/ deallocate
    \/ async_off \/ cleanup_library \/ cleanup_error_handling \/ cleanup_memory \/ cleanup_allocator
Next ==
    \/ runtime_new
    \/ \E t \in Types : get(t)
    \/ listen \/ acquire \/ start \/ stop \/ show \/ set_flag \/ release \/ runtime_end
    \/ Step \/ message \/ Ended
Spec == Init /\ [][Next]_vars
----------------------------------------------------------------------------
TypeOK ==
    /\ phase \in {"off", "up", "down", "ended"} /\ modes \in Modes
    /\ made \in [Names -> Nat] /\ \A t \in Names : ptr[t] \in 0..made[t]
    /\ dying \subseteq alive /\ active \subseteq alive
    /\ acts \in Int /\ events \in 0..MaxEvents /\ requests \in 0..MaxEvents

\* What the static pointer names is an object that was not deleted, and no
\* destructor reaches an object that is being destroyed, a library that was
\* cleaned or an allocator that was deleted under a block: the order
\* of runtime::~runtime, cleanup_instances and the nested teardown of the
\* application.
NothingDeadUsed ==
    fault = {} /\ \A t \in Names : ptr[t] # 0 => <<t, ptr[t]>> \in alive

\* multiplexer::activations is the number of uplinks and pq drivers that
\* still have to deactivate it, so it never falls below zero.
Waiting(t) ==
    /\ ptr[t] # 0
    /\ <<t, ptr[t]>> \in dying => \E i \in 1..Len(todo) : todo[i][1] = "deactivate" /\ todo[i][2] = t
ActivationsBalanced ==
    ptr["multiplexer"] # 0 => acts = Cardinality({t \in {"uplinks", "pq"} : Waiting(t)})

\* When the runtime is gone no singleton is left, and none was built anew by
\* the destructor of another one.
AllDown == phase = "ended" => alive = {} /\ \A t \in Names : ptr[t] = 0
============================================================================
