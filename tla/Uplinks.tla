------------------------------ MODULE Uplinks ------------------------------
(***************************************************************************)
(* network::uplinks (network.cpp): the pool of idle client connections.    *)
(* Clients take a stream of an address, create one when they are told to,  *)
(* or wait; later they give it back or disconnect.  A pooled stream is     *)
(* watched by a callback of the multiplexer, which owns a reference; the   *)
(* callback may be queued already when a client takes the stream.          *)
(***************************************************************************)
EXTENDS Integers, Sequences, FiniteSets, SequencesExt

CONSTANTS
    Clients, Streams, Addresses,
    MaxDuplicates,      \* max_duplicates, at least 1
    Stale,              \* whether a stream is taken while its callback is queued
    Reconnects,         \* whether a client connects again without disconnecting
    MaxPending,         \* bound: queued callbacks of a stream that is given back
    None

UplinksAssumption ==
    /\ MaxDuplicates \in Nat \ {0} /\ MaxPending \in Nat
    /\ Stale \in BOOLEAN /\ Reconnects \in BOOLEAN
    /\ None \notin Clients /\ None \notin Streams

VARIABLES
    pool,       \* connections: the queue of each address, or None
    refs,       \* reference count of each stream; 0 before it exists and after
    armed,      \* the address whose callback the multiplexer holds for a stream
    fired,      \* callbacks queued for a stream: address and event -> number
    closed,     \* streams whose peer has gone
    pc, held, address,
    over        \* history: a stream was released that had no reference left

client == <<pc, held, address>>
vars == <<pool, refs, armed, fired, closed, client, over>>

Events == {"finish", "reset", "cancel"}
NoQueue == [streams |-> {}, requests |-> <<>>, duplicates |-> 0]

Pending(s) == {x \in Addresses \X Events : fired[s][x] > 0}
Pendings(s) == FoldSet(LAMBDA x, n : n + fired[s][x], 0, Pending(s))

Init ==
    /\ pool = [a \in Addresses |-> None]
    /\ refs = [s \in Streams |-> 0]
    /\ armed = [s \in Streams |-> None]
    /\ fired = [s \in Streams |-> [x \in Addresses \X Events |-> 0]]
    /\ closed = {}
    /\ pc = [c \in Clients |-> "idle"] /\ held = [c \in Clients |-> None]
    /\ address = [c \in Clients |-> None]
    /\ over = FALSE

(* reference::release: n references of a stream are given up.             *)
Release(s, n) ==
    /\ refs' = [refs EXCEPT ![s] = IF @ >= n THEN @ - n ELSE 0]
    /\ over' = (over \/ refs[s] < n)

(* The clients C are called back with nullptr, and will create a stream.   *)
Refused(C) == [c \in Clients |-> IF c \in C THEN "create" ELSE pc[c]]

(* Faulty pop: the stream stays in the pool.                               *)
pop_shared(c, a) ==
    /\ IF pool[a] = None \/ pool[a].streams = {}
       THEN /\ pool' = [pool EXCEPT ![a] = IF @ = None THEN NoQueue ELSE @]
            /\ pc' = Refused({c}) /\ UNCHANGED held
       ELSE \E s \in pool[a].streams :
                held' = [held EXCEPT ![c] = s] /\ pc' = [pc EXCEPT ![c] = "taking"] /\ UNCHANGED pool
    /\ address' = [address EXCEPT ![c] = a]

(* pop_connection_queued: a new connection while duplicates are left, an   *)
(* idle stream, or a place in the queue.                                   *)
pop(c, a) ==
    /\ \/ /\ pool[a] = None
          /\ pool' = [pool EXCEPT ![a] = [NoQueue EXCEPT !.duplicates = MaxDuplicates - 1]]
          /\ pc' = Refused({c}) /\ UNCHANGED held
       \/ /\ pool[a] # None /\ pool[a].streams = {} /\ pool[a].duplicates > 0
          /\ pool' = [pool EXCEPT ![a].duplicates = @ - 1]
          /\ pc' = Refused({c}) /\ UNCHANGED held
       \/ /\ pool[a] # None /\ pool[a].streams = {} /\ pool[a].duplicates = 0
          /\ pool' = [pool EXCEPT ![a].requests = Append(@, c)]
          /\ pc' = [pc EXCEPT ![c] = "waiting"] /\ UNCHANGED held
       \/ /\ pool[a] # None
          /\ \E s \in pool[a].streams :
                /\ Stale \/ Pending(s) \cap {<<a, "finish">>, <<a, "reset">>} = {}
                /\ pool' = [pool EXCEPT ![a].streams = @ \ {s}]
                /\ held' = [held EXCEPT ![c] = s]
                /\ pc' = [pc EXCEPT ![c] = "taking"]
    /\ address' = [address EXCEPT ![c] = a]

pop_connection(c, a) ==
    /\ pc[c] = "idle" /\ pop(c, a)
    /\ UNCHANGED <<refs, armed, fired, closed, over>>

(* multiplexer::cancel_events: the callback is queued with `cancel`.       *)
cancel_events(s) ==
    /\ armed' = [armed EXCEPT ![s] = None]
    /\ fired' = IF armed[s] = None THEN fired
                ELSE [fired EXCEPT ![s][<<armed[s], "cancel">>] = @ + 1]

(* The rest of pop_connection_queued, after the lock: the callback of the  *)
(* pool is cancelled and the client is given the stream.                   *)
pop_cancel(c) ==
    /\ pc[c] = "taking"
    /\ cancel_events(held[c])
    /\ pc' = [pc EXCEPT ![c] = "holds"]
    /\ UNCHANGED <<pool, refs, closed, held, address, over>>

(* socket_client::create_stream and the connection of the new stream.      *)
create_stream(c) ==
    /\ pc[c] = "create"
    /\ \E s \in Streams :
        /\ refs[s] = 0 /\ armed[s] = None /\ Pending(s) = {} /\ \A d \in Clients : held[d] # s
        /\ refs' = [refs EXCEPT ![s] = 1]
        /\ closed' = closed \ {s}
        /\ held' = [held EXCEPT ![c] = s]
    /\ pc' = [pc EXCEPT ![c] = "holds"]
    /\ UNCHANGED <<pool, armed, fired, address, over>>

(* listen_connection: a reference for the callback.  A callback that is    *)
(* already registered is replaced and called with `cancel`.                *)
listen_connection(a, s, released) ==
    /\ refs' = [refs EXCEPT ![s] = @ + 1 - released]
    /\ armed' = [armed EXCEPT ![s] = a]

(* push_connection with a stream.                                          *)
push(c, s) ==
    LET a == address[c]
    IN  \/ /\ pool[a] = None
           /\ pool' = [pool EXCEPT ![a] = [NoQueue EXCEPT !.streams = {s}]]
           /\ listen_connection(a, s, 0)
           /\ pc' = [pc EXCEPT ![c] = "idle"] /\ held' = [held EXCEPT ![c] = None]
           /\ UNCHANGED <<fired, over>>
        \/ /\ pool[a] # None /\ pool[a].requests # <<>>
           /\ \E r \in {Head(pool[a].requests)} :
                /\ pool' = [pool EXCEPT ![a].requests = Tail(@)]
                /\ pc' = [pc EXCEPT ![c] = "idle", ![r] = "holds"]
                /\ held' = [held EXCEPT ![c] = None, ![r] = s]
           /\ UNCHANGED <<refs, armed, fired, over>>
        \/ /\ pool[a] # None /\ pool[a].requests = <<>>
           /\ Cardinality(pool[a].streams) < MaxDuplicates
           /\ pool' = [pool EXCEPT ![a].streams = @ \cup {s}]
           /\ listen_connection(a, s, 0)
           /\ pc' = [pc EXCEPT ![c] = "idle"] /\ held' = [held EXCEPT ![c] = None]
           /\ UNCHANGED <<fired, over>>
        \/ /\ pool[a] # None /\ pool[a].requests = <<>>
           /\ Cardinality(pool[a].streams) >= MaxDuplicates
           /\ Release(s, 1)
           /\ pc' = [pc EXCEPT ![c] = "idle"] /\ held' = [held EXCEPT ![c] = None]
           /\ UNCHANGED <<pool, armed, fired>>

(* push_connection with nullptr: the first request is answered with        *)
(* nullptr; the entry of the address goes with its last stream.            *)
push_null(c) ==
    LET a == address[c]
    IN  \/ /\ pool[a] = None
           /\ pc' = [pc EXCEPT ![c] = "idle"] /\ UNCHANGED pool
        \/ /\ pool[a] # None /\ pool[a].requests # <<>>
           /\ pool' = [pool EXCEPT ![a].requests = Tail(@)]
           /\ pc' = [Refused({Head(pool[a].requests)}) EXCEPT ![c] = "idle"]
        \/ /\ pool[a] # None /\ pool[a].requests = <<>>
           /\ pool' = [pool EXCEPT ![a] = IF @.streams = {} THEN None ELSE @]
           /\ pc' = [pc EXCEPT ![c] = "idle"]

(* socket_client::try_store_stream with a stream to keep.                  *)
give_back(c) ==
    /\ pc[c] = "holds" /\ Pendings(held[c]) <= MaxPending
    /\ push(c, held[c])
    /\ UNCHANGED <<closed, address>>

(* try_store_stream without one, and destroy_stream.                       *)
disconnect(c) ==
    /\ pc[c] = "holds"
    /\ push_null(c)
    /\ Release(held[c], 1)
    /\ held' = [held EXCEPT ![c] = None]
    /\ UNCHANGED <<armed, fired, closed, address>>

(* connect_queued of a client that is connected: try_reuse_stream destroys *)
(* the stream and then asks for one, and the pool is not told.             *)
reconnect(c) ==
    /\ Reconnects /\ pc[c] = "holds"
    /\ Release(held[c], 1)
    /\ held' = [held EXCEPT ![c] = None]
    /\ pc' = [pc EXCEPT ![c] = "idle"]
    /\ UNCHANGED <<pool, armed, fired, closed, address>>

-----------------------------------------------------------------------------
(* The multiplexer takes the callback of a stream out and queues it.       *)
fire(s, event) ==
    /\ armed[s] # None
    /\ event = "reset" => s \in closed
    /\ Stale \/ \A c \in Clients : held[c] # s
    /\ armed' = [armed EXCEPT ![s] = None]
    /\ fired' = [fired EXCEPT ![s][<<armed[s], event>>] = @ + 1]
    /\ UNCHANGED <<pool, refs, closed, client, over>>

Ran(s, x) == [fired EXCEPT ![s][x] = @ - 1]

(* Faulty expire: the reference of the pool is not given up.               *)
expire_leaks(s, a) ==
    /\ Release(s, 1)
    /\ pool' = [pool EXCEPT ![a] = None]
    /\ pc' = IF pool[a] = None THEN pc ELSE Refused(ToSet(pool[a].requests))

(* The label `expire` of listen_connection: the stream leaves the pool,    *)
(* which owned a reference, and everybody who waits gets nullptr.  The     *)
(* code does not ask whether the stream is still in the pool.              *)
expire(s, a) ==
    IF pool[a] = None
    THEN Release(s, 1) /\ UNCHANGED <<pool, pc>>
    ELSE /\ Release(s, 2)
         /\ pool' = [pool EXCEPT ![a] = IF @.streams \subseteq {s} THEN None
                         ELSE [@ EXCEPT !.streams = @ \ {s}, !.requests = <<>>]]
         /\ pc' = Refused(ToSet(pool[a].requests))

(* The callback runs with an error, or reads from a stream whose peer has  *)
(* gone.                                                                   *)
expired(s, a, event) ==
    /\ fired[s][<<a, event>>] > 0
    /\ event = "reset" \/ (event = "finish" /\ s \in closed)
    /\ expire(s, a)
    /\ armed' = IF pool[a] = None THEN armed ELSE [armed EXCEPT ![s] = None]
    /\ fired' = IF pool[a] = None \/ armed[s] = None THEN Ran(s, <<a, event>>)
                ELSE [Ran(s, <<a, event>>) EXCEPT ![s][<<armed[s], "cancel">>] = @ + 1]
    /\ UNCHANGED <<closed, held, address>>

(* It reads what there is and listens again.                               *)
drained(s, a) ==
    /\ fired[s][<<a, "finish">>] > 0 /\ s \notin closed
    /\ listen_connection(a, s, 1)
    /\ fired' = IF armed[s] = None THEN Ran(s, <<a, "finish">>)
                ELSE [Ran(s, <<a, "finish">>) EXCEPT ![s][<<armed[s], "cancel">>] = @ + 1]
    /\ UNCHANGED <<pool, closed, client, over>>

cancelled(s, a) ==
    /\ fired[s][<<a, "cancel">>] > 0
    /\ fired' = Ran(s, <<a, "cancel">>)
    /\ Release(s, 1)
    /\ UNCHANGED <<pool, armed, closed, client>>

(* The peer of a stream goes away.                                         *)
peer_closes(s) ==
    /\ refs[s] > 0 /\ s \notin closed
    /\ closed' = closed \cup {s}
    /\ UNCHANGED <<pool, refs, armed, fired, client, over>>

-----------------------------------------------------------------------------
Step(c) == pop_cancel(c) \/ create_stream(c)
Leave(c) == give_back(c) \/ disconnect(c)
Callback(s) ==
    \E a \in Addresses :
        \/ \E event \in {"finish", "reset"} : expired(s, a, event)
        \/ drained(s, a) \/ cancelled(s, a)

Next ==
    \/ \E c \in Clients :
        \/ Step(c) \/ Leave(c) \/ reconnect(c)
        \/ \E a \in Addresses : pop_connection(c, a)
    \/ \E s \in Streams :
        \/ \E event \in {"finish", "reset"} : fire(s, event)
        \/ Callback(s) \/ peer_closes(s)

Spec == Init /\ [][Next]_vars

(* Queued callbacks run; a client that has a stream is done with it some   *)
(* day, and gives it back or disconnects.                                  *)
Fairness ==
    /\ \A c \in Clients : WF_vars(Step(c)) /\ WF_vars(Leave(c))
    /\ \A s \in Streams : WF_vars(Callback(s))

FairSpec == Spec /\ Fairness

-----------------------------------------------------------------------------
Holders(a) == {c \in Clients : address[c] = a /\ pc[c] \in {"create", "taking", "holds"}}

(* The type of the state.                                                  *)
TypeOK ==
    /\ pool \in [Addresses -> [streams : SUBSET Streams, requests : Seq(Clients),
                               duplicates : 0..(MaxDuplicates - 1)] \cup {None}]
    /\ refs \in [Streams -> Nat] /\ armed \in [Streams -> Addresses \cup {None}]
    /\ fired \in [Streams -> [Addresses \X Events -> Nat]]
    /\ closed \subseteq Streams /\ over \in BOOLEAN
    /\ pc \in [Clients -> {"idle", "waiting", "create", "taking", "holds"}]
    /\ held \in [Clients -> Streams \cup {None}]
    /\ address \in [Clients -> Addresses \cup {None}]

(* The reference count of a stream is the number of those who have it: one *)
(* client or one queue of the pool, the callback of the multiplexer, and   *)
(* the callbacks that are queued.  So it is freed by the last of them, and *)
(* the pool and a client never have it together.                           *)
RefsExact ==
    \A s \in Streams :
        LET owners == Cardinality({c \in Clients : held[c] = s}) +
                      Cardinality({a \in Addresses : pool[a] # None /\ s \in pool[a].streams})
        IN  /\ refs[s] = owners + Pendings(s) + (IF armed[s] # None THEN 1 ELSE 0)
            /\ owners <= 1

(* A request waits only while no stream of its address is idle and another *)
(* client has one, or is about to get one, that it will give back.         *)
WaitsForHolder ==
    \A a \in Addresses : pool[a] # None =>
        /\ pool[a].requests # <<>> => pool[a].streams = {} /\ Holders(a) # {}
        /\ ToSet(pool[a].requests) = {c \in Clients : pc[c] = "waiting" /\ address[c] = a}
        /\ Cardinality(pool[a].streams) <= MaxDuplicates

(* Every request is answered, with a stream or with nullptr.               *)
Waiting(c) == pc[c] = "waiting"

\* Who has a stream.
Lent == [s \in Streams |-> {c \in Clients : held[c] = s}]

Lease == INSTANCE Leases WITH Resources <- Streams, Users <- Clients, holders <- Lent

(* The uplinks are a pool of leases: pop_connection, push_connection and   *)
(* the callbacks of pooled streams lend, take back and pass on one stream  *)
(* at a time.                                                              *)
ImplementsLeases == Lease!Spec
=============================================================================
