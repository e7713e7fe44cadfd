----------------------------- MODULE SocketServer -----------------------------
(***************************************************************************)
(* network::socket_server and socket_connection (network.cpp): configure,  *)
(* listen, the tasks that accept a connection, perform the handshake and   *)
(* serve requests, the pool of connections, and unlisten, which runs in    *)
(* another thread.  A connection is a model value; it is in `active` while *)
(* it is used and in `inactive` while it may be reused.                    *)
(***************************************************************************)
EXTENDS Integers, FiniteSets

CONSTANTS
    Connections,
    Secure,             \* socket_listener::is_secure
    MaxConnections,     \* router->max_connections, 0 for no limit
    KeepAlive,          \* router->keep_alive_max_count
    Backlog,            \* inactive connections that are kept
    LateAccepts,        \* whether a task stops between the look at `state` and
                        \* the insertion into `active`
    GivesUp,            \* whether unlisten() may reach shutdown_timeout
    Restarts            \* bound: how often the server is started

SocketServerAssumption ==
    /\ IsFiniteSet(Connections) /\ Secure \in BOOLEAN
    /\ {MaxConnections, KeepAlive, Backlog, Restarts} \subseteq Nat
    /\ LateAccepts \in BOOLEAN /\ GivesUp \in BOOLEAN

VARIABLES
    state,      \* server_state
    router,     \* whether there is a router (and listeners)
    active, inactive,
    pc,         \* what is done with each connection
    reuses, abort,
    waits,      \* connections whose socket waits for an event
    checked,    \* accept tasks that have seen state = working, not yet inserted
    unlistener, \* where unlisten() is
    starts

vars == <<state, router, active, inactive, pc, reuses, abort, waits, checked, unlistener, starts>>
pool == <<active, inactive>>
server == <<state, router, unlistener, starts>>

Init ==
    /\ state = "idle" /\ router = FALSE /\ unlistener = "none" /\ starts = 0
    /\ active = {} /\ inactive = {} /\ waits = {} /\ checked = 0
    /\ pc = [c \in Connections |-> "free"]
    /\ reuses = [c \in Connections |-> 0] /\ abort = [c \in Connections |-> FALSE]

Go(c, where) == pc' = [pc EXCEPT ![c] = where]

-----------------------------------------------------------------------------
configure ==
    /\ state = "idle" /\ ~router /\ unlistener = "none" /\ starts < Restarts
    /\ router' = TRUE /\ starts' = starts + 1
    /\ UNCHANGED <<state, pool, pc, reuses, abort, waits, checked, unlistener>>

listen ==
    /\ router /\ state = "idle" /\ unlistener = "none"
    /\ state' = "working"
    /\ UNCHANGED <<router, pool, pc, reuses, abort, waits, checked, unlistener, starts>>

(* The callback of accept_queued spawns accept(), which begins with the    *)
(* look at `state` in pop().                                               *)
accept_check ==
    /\ LateAccepts /\ state = "working" /\ checked = 0
    /\ checked' = 1
    /\ UNCHANGED <<server, pool, pc, reuses, abort, waits>>

(* The rest of pop(): a connection that is inactive, or a new one.         *)
pop(c) ==
    /\ IF inactive # {} THEN c \in inactive ELSE pc[c] = "free"
    /\ active' = active \cup {c} /\ inactive' = inactive \ {c}
    /\ reuses' = [reuses EXCEPT ![c] = IF KeepAlive > 0 THEN KeepAlive ELSE 1]
    /\ Go(c, "accepting")

accept(c) ==
    /\ \/ LateAccepts /\ checked = 1 /\ checked' = 0
       \/ ~LateAccepts /\ state = "working" /\ UNCHANGED checked
    /\ pop(c)
    /\ UNCHANGED <<server, abort, waits>>

(* More connections than max_connections allows: the new one counts.       *)
Full == MaxConnections > 0 /\ Cardinality(active) >= MaxConnections

(* The rest of accept(): a connection too many is refused, the others are  *)
(* opened, after a handshake if the listener is secure.                    *)
accept_open(c) ==
    /\ pc[c] = "accepting"
    /\ IF Full THEN Go(c, "closing")
       ELSE \/ ~Secure /\ Go(c, "open")
            \/ Secure /\ pc' \in {[pc EXCEPT ![c] = p] : p \in {"handshake", "closing"}}
    /\ UNCHANGED <<server, pool, reuses, abort, waits, checked>>

(* try_handshake_then_begin, or on_request_open and on_request_cleanup of  *)
(* the server that is built on this one: it waits for the peer,            *)
wait(c) ==
    /\ pc[c] \in {"handshake", "open", "cleanup"} /\ c \notin waits
    /\ waits' = waits \cup {c}
    /\ UNCHANGED <<server, pool, pc, reuses, abort, checked>>

(* the handshake succeeds or fails,                                        *)
handshake(c) ==
    /\ pc[c] = "handshake" /\ c \notin waits
    /\ \E p \in {"open", "closing"} : Go(c, p)
    /\ UNCHANGED <<server, pool, reuses, abort, waits, checked>>

(* the request is served and next() is called, or what was left of it has  *)
(* been skipped and finalize() is called.                                  *)
serve(c) ==
    /\ pc[c] \in {"open", "cleanup"} /\ c \notin waits
    /\ Go(c, IF pc[c] = "open" THEN "next" ELSE "final")
    /\ UNCHANGED <<server, pool, reuses, abort, waits, checked>>

(* Where a callback leads that is called with an error.                    *)
Woken(p) == [handshake |-> "closing", open |-> "next", cleanup |-> "final"][p]

(* The multiplexer answers a socket that waits.                            *)
answer(c) ==
    /\ c \in waits
    /\ waits' = waits \ {c}
    /\ \E p \in {pc[c], Woken(pc[c])} : Go(c, p)
    /\ UNCHANGED <<server, pool, reuses, abort, checked>>

Released(c) == Go(c, "free")

(* push(): out of active; kept if there is room, released otherwise.       *)
push(c) ==
    /\ active' = active \ {c}
    /\ IF Cardinality(inactive) < Backlog
       THEN inactive' = inactive \cup {c} /\ Go(c, "pooled")
       ELSE UNCHANGED inactive /\ Released(c)
    /\ abort' = [abort EXCEPT ![c] = FALSE]

closable(c) == abort[c] \/ (reuses[c] <= 1 /\ KeepAlive # 0)

(* next(): on_request_cleanup may have to read what is left of the request *)
(* of a connection that goes on, and then calls finalize() itself.         *)
next(c) ==
    /\ pc[c] = "next"
    /\ \/ Go(c, "final")
       \/ ~closable(c) /\ Go(c, "cleanup")
    /\ UNCHANGED <<server, pool, reuses, abort, waits, checked>>

(* finalize(): aborted or used up connections are closed, a valid one is   *)
(* opened again, one that is not valid is given back.                      *)
finalize(c) ==
    /\ pc[c] = "final"
    /\ LET left == IF KeepAlive # 0 /\ reuses[c] > 0 THEN reuses[c] - 1 ELSE reuses[c]
       IN  IF abort[c] \/ left = 0
           THEN /\ reuses' = [reuses EXCEPT ![c] = left]
                /\ Go(c, "closing") /\ UNCHANGED <<pool, abort>>
           ELSE \/ /\ reuses' = [reuses EXCEPT ![c] = left]
                   /\ Go(c, "open") /\ UNCHANGED <<pool, abort>>
                \/ push(c) /\ reuses' = [reuses EXCEPT ![c] = 1]
    /\ UNCHANGED <<server, waits, checked>>

(* The callback of close_queued.                                           *)
closed(c) ==
    /\ pc[c] = "closing"
    /\ push(c)
    /\ reuses' = [reuses EXCEPT ![c] = 1]
    /\ UNCHANGED <<server, waits, checked>>

-----------------------------------------------------------------------------
(* unlisten(): everybody is aborted, and whoever waits is called back.     *)
unlisten ==
    /\ unlistener = "none" /\ (router \/ state # "idle")
    /\ state' = "stopping" /\ unlistener' = "waiting"
    /\ abort' = [c \in Connections |-> abort[c] \/ c \in active]
    /\ waits' = {} /\ pc' = [c \in Connections |->
           IF c \in waits THEN Woken(pc[c]) ELSE pc[c]]
    /\ UNCHANGED <<router, pool, reuses, checked, starts>>

(* Faulty free_all: connections that are in use are released, too.         *)
free_all_active ==
    /\ unlistener = "waiting"
    /\ inactive # {}
    /\ inactive' = {} /\ active' = {}
    /\ pc' = [c \in Connections |-> IF c \in inactive THEN "free" ELSE pc[c]]
    /\ UNCHANGED <<server, reuses, abort, waits, checked>>

free_all ==
    /\ unlistener = "waiting" /\ inactive # {}
    /\ inactive' = {} /\ UNCHANGED active
    /\ pc' = [c \in Connections |-> IF c \in inactive THEN "free" ELSE pc[c]]
    /\ UNCHANGED <<server, reuses, abort, waits, checked>>

(* The loop of unlisten() ends.                                            *)
Drained == inactive = {} /\ active = {}

(* Listeners and the router are released; inactive connections first.      *)
unlistened ==
    /\ unlistener = "waiting" /\ (Drained \/ GivesUp)
    /\ inactive' = {} /\ UNCHANGED active
    /\ pc' = [c \in Connections |-> IF c \in inactive THEN "free" ELSE pc[c]]
    /\ router' = FALSE /\ state' = "idle" /\ unlistener' = "none"
    /\ UNCHANGED <<reuses, abort, waits, checked, starts>>

Task(c) == accept_open(c) \/ next(c) \/ finalize(c) \/ closed(c)
Completes(c) == handshake(c) \/ serve(c)
Next ==
    \/ configure \/ listen \/ accept_check \/ unlisten \/ free_all \/ unlistened
    \/ \E c \in Connections : accept(c) \/ Task(c) \/ Completes(c) \/ wait(c) \/ answer(c)

Spec == Init /\ [][Next]_vars

(* Tasks run, the multiplexer answers, unlisten() goes on; a handshake and *)
(* a request do not wait for ever.                                         *)
FairSpec ==
    /\ Spec
    /\ \A c \in Connections : WF_vars(Task(c)) /\ WF_vars(answer(c)) /\ SF_vars(Completes(c))
    /\ WF_vars(free_all) /\ WF_vars(unlistened)

-----------------------------------------------------------------------------
Serving == {c \in Connections : pc[c] \in {"handshake", "open", "next", "cleanup", "final"}}
UsesRouter == {c \in Connections :
    pc[c] \in {"accepting", "handshake", "open", "next", "cleanup", "final"}}

(* The type of the state.                                                  *)
TypeOK ==
    /\ state \in {"idle", "working", "stopping"} /\ router \in BOOLEAN
    /\ active \subseteq Connections /\ inactive \subseteq Connections
    /\ pc \in [Connections -> {"free", "pooled", "accepting", "handshake", "open",
                             "next", "cleanup", "final", "closing"}]
    /\ reuses \in [Connections -> 0..(KeepAlive + 1)] /\ abort \in [Connections -> BOOLEAN]
    /\ waits \subseteq active /\ checked \in 0..1 /\ Cardinality(inactive) <= Backlog

(* A connection is owned by one party: it is active exactly while a task   *)
(* has it, inactive while nobody has it, and released only from there.     *)
OneOwner ==
    \A c \in Connections :
        /\ c \in inactive <=> pc[c] = "pooled"
        /\ c \in active <=> pc[c] \notin {"pooled", "free"}

(* max_connections is a bound on the connections that are served, however  *)
(* the insertions and the unlocked reads of active.size() interleave.      *)
Bounded == MaxConnections > 0 => Cardinality(Serving) <= MaxConnections

(* No task uses the router after unlisten() has released it.               *)
RouterAlive == UsesRouter # {} \/ checked = 1 => router

(* A connection serves at most keep_alive_max_count requests.              *)
KeptAlive == \A c \in Connections :
    pc[c] \in {"open", "handshake", "accepting", "next", "cleanup"} => reuses[c] > 0

(* unlisten() ends: every active connection sees that it is aborted.       *)
Unlistening == unlistener = "waiting"
=============================================================================
