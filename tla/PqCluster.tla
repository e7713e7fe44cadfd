------------------------------ MODULE PqCluster ------------------------------
(***************************************************************************)
(* pq::cluster: a queue of requests and a pool of connections.  query()    *)
(* queues a request and lets an idle connection consume it; dispatch()     *)
(* runs when a connection is readable, collects the result, reports it     *)
(* from a task of its own and consumes the next request; reestablish()     *)
(* replaces a lost connection.  A session is the connection a transaction  *)
(* was begun on: its requests run there, others stay out of it.            *)
(***************************************************************************)
EXTENDS Naturals, Sequences, FiniteSets, SequencesExt

CONSTANTS Connections, Clients, None,
    Scripts,     \* what a client may do: "plain", "read", "transaction", "listen"
    MaxLosses,   \* connections lost
    Disconnects  \* the cluster may be disconnected

Sys == "sys"    \* listens again after a connection was replaced
Askers == Clients \cup {Sys}

VARIABLES
    queue,       \* requests
    pool,        \* connections of the cluster
    current,     \* the request a connection executes
    lost,        \* its PGconn is finished until it is replaced
    tx,          \* who began the transaction it is in (in_transaction()), or None
    server,      \* "quiet", "work" or "done"
    at,          \* where dispatch() is: "none", "first", "input", "again"
    registered,  \* when_readable was called and did not fire
    writing,     \* flush() waits for when_writeable
    listens,     \* connection::listens is not empty
    deferred,    \* reports to be made: <<asker, "cursor" or "failure">>
    kind, session, executor,
    step,        \* "ready", "waits", "over", or "dropped": never answered
    losses,
    cached,      \* the cache has the result of the command of "read" and "peek"
    hears,       \* the server's session of a connection listens
    faults       \* "send": PQsendQuery failed; "listen": channels were not listened to again

vars == <<queue, pool, current, lost, tx, server, at, registered, writing, listens, deferred,
          kind, session, executor, step, losses, cached, hears, faults>>
counts == <<losses, cached, hears>>
conns == <<pool, current, lost, tx, server, at, registered, writing>>
asks == <<kind, session, executor, step>>

Init ==
    /\ queue = <<>> /\ pool = Connections
    /\ current = [c \in Connections |-> None] /\ lost = [c \in Connections |-> FALSE]
    /\ tx = [c \in Connections |-> None] /\ server = [c \in Connections |-> "quiet"]
    /\ at = [c \in Connections |-> "none"] /\ registered = [c \in Connections |-> TRUE]
    /\ writing = [c \in Connections |-> FALSE] /\ listens = [c \in Connections |-> FALSE]
    /\ deferred = {} /\ losses = 0 /\ cached = FALSE /\ faults = {}
    /\ hears = [c \in Connections |-> FALSE]
    /\ kind = [a \in Askers |-> "none"] /\ session = [a \in Askers |-> None]
    /\ executor = [a \in Askers |-> None]
    /\ step = [a \in Askers |-> IF a = Sys THEN "over" ELSE "ready"]

-----------------------------------------------------------------------------
\* consume: the first request of q that connection c may execute
Eligible(c, q, intx, s) ==
    {i \in DOMAIN q : s[q[i]] = c \/ (s[q[i]] = None /\ ~intx)}

\* in_transaction(): a finished PGconn is in an unknown state, not an idle one
in_transaction(c) == lost[c] \/ tx[c] # None

First(S) == CHOOSE i \in S : \A j \in S : i <= j

\* The request stays in the queue until it is answered
consume_kept(c, q, intx, s, defer, cur) ==
    LET i == First(Eligible(c, q, intx, s)) IN
    /\ queue' = q
    /\ executor' = [executor EXCEPT ![q[i]] = c]
    /\ current' = [cur EXCEPT ![c] = q[i]] /\ server' = [server EXCEPT ![c] = "work"]
    /\ deferred' = defer /\ writing' = [writing EXCEPT ![c] = FALSE] /\ UNCHANGED faults

\* consume(c), with what its caller already changed as arguments
consume(c, q, intx, s, defer, cur) ==
    LET i == First(Eligible(c, q, intx, s)) IN
    /\ queue' = RemoveAt(q, i)
    /\ executor' = [executor EXCEPT ![q[i]] = c]
    /\ \/ /\ ~lost'[c]                             \* sent; flushed or to be flushed
          /\ current' = [cur EXCEPT ![c] = q[i]]
          /\ server' = [server EXCEPT ![c] = "work"]
          /\ deferred' = defer /\ UNCHANGED faults
          /\ \E wait \in BOOLEAN : writing' = [writing EXCEPT ![c] = wait]
       \/ /\ faults' = IF lost'[c] THEN faults ELSE faults \cup {"send"}   \* PQsendQuery failed
          /\ current' = [cur EXCEPT ![c] = None]
          /\ server' = [server EXCEPT ![c] = "quiet"]
          /\ deferred' = defer \cup {<<q[i], "failure">>}
          /\ writing' = [writing EXCEPT ![c] = FALSE]

\* The commands with an option for the cache: outside of a transaction, and in one
MayCache == {"read", "peek"}

After(k) == IF k \in {"begin", "inner", "peek"} THEN "ready" ELSE "over"

\* get_cache: the result is copied, or an expired one moved out of the cache
get_cache(a, k) ==
    /\ cached /\ cached' \in BOOLEAN
    /\ kind' = [kind EXCEPT ![a] = k] /\ step' = [step EXCEPT ![a] = After(k)]
    /\ UNCHANGED <<queue, conns, listens, deferred, session, executor, losses, hears, faults>>

\* query, not answered by the cache: a connection that is free takes a
\* request, not necessarily this one
query(a, k, s) ==
    LET q == Append(queue, a)
        s2 == [session EXCEPT ![a] = s]
        free == {c \in pool : current[c] = None /\ Eligible(c, q, in_transaction(c), s2) # {}}
    IN /\ IF k \in MayCache THEN ~cached ELSE s \in pool \cup {None}   \* is_managing
       /\ kind' = [kind EXCEPT ![a] = k] /\ session' = s2
       /\ step' = [step EXCEPT ![a] = "waits"]
       /\ \/ /\ free = {}
             /\ queue' = q
             /\ UNCHANGED <<current, lost, server, deferred, executor, registered, writing, faults>>
          \/ /\ UNCHANGED lost
             /\ \E c \in free :
                   /\ consume(c, q, in_transaction(c), s2, deferred, current)
                   /\ registered' = [registered EXCEPT ![c] = @ /\ ~writing'[c]]   \* clear_events
       /\ UNCHANGED <<pool, tx, at, listens, counts>>

\* listen: a channel that some connection listens to needs no statement
listen(a) ==
    \/ (\A c \in pool : ~listens[c]) /\ query(a, "listen", None)
    \/ /\ \E c \in pool : listens[c]
       /\ step' = [step EXCEPT ![a] = "over"]
       /\ UNCHANGED <<queue, conns, listens, deferred, kind, session, executor, counts, faults>>

May(a, script) == a # Sys /\ script \in Scripts[a]

\* The clients: one statement, a transaction, or a subscription
Ask(a) ==
    /\ step[a] = "ready"
    /\ \/ kind[a] = "none" /\ May(a, "plain") /\ query(a, "plain", None)
       \/ kind[a] = "none" /\ May(a, "read") /\ (get_cache(a, "read") \/ query(a, "read", None))
       \/ kind[a] = "none" /\ May(a, "transaction") /\ query(a, "begin", None)
       \/ kind[a] = "none" /\ May(a, "listen") /\ listen(a)
       \/ kind[a] = "begin" /\ query(a, "inner", executor[a])
       \/ kind[a] = "begin" /\ May(a, "read") /\ (get_cache(a, "peek") \/ query(a, "peek", executor[a]))
       \/ kind[a] \in {"inner", "peek"} /\ query(a, "commit", executor[a])
       \/ a = Sys /\ kind[a] = "listen" /\ listen(a)

\* is_managing is false: the error is returned at once
Refused(a) ==
    /\ step[a] = "ready" /\ kind[a] \in {"begin", "inner", "peek"}
    /\ executor[a] \notin pool
    /\ step' = [step EXCEPT ![a] = "over"]
    /\ UNCHANGED <<queue, conns, listens, deferred, kind, session, executor, counts, faults>>

\* report_cursor and report_failure: the callback puts the result into the
\* cache; listen() records its channels with the connection, in the pool or
\* released, replaced meanwhile or not; a LISTEN that failed is not tried again
Report(a) ==
    \E r \in {"cursor", "failure"} :
    /\ <<a, r>> \in deferred
    /\ deferred' = deferred \ {<<a, r>>}
    /\ listens' = IF r = "cursor" /\ kind[a] = "listen"
                  THEN [listens EXCEPT ![executor[a]] = TRUE] ELSE listens
    /\ cached' = (cached \/ (r = "cursor" /\ kind[a] \in MayCache))
    /\ faults' = IF kind[a] = "listen" /\ (r = "failure" \/ ~hears[executor[a]])
                 THEN faults \cup {"listen"} ELSE faults
    /\ step' = [step EXCEPT ![a] = IF kind[a] = "begin" /\ r = "failure" THEN "over" ELSE After(kind[a])]
    /\ UNCHANGED <<queue, conns, kind, session, executor, losses, hears>>

-----------------------------------------------------------------------------
Answer(c) ==
    /\ server[c] = "work" /\ ~writing[c] /\ server' = [server EXCEPT ![c] = "done"]
    /\ UNCHANGED <<queue, pool, current, lost, tx, at, registered, writing, listens, deferred, asks, counts, faults>>

\* flush(source, true): what was not sent is sent, then the result is awaited
Writeable(c) ==
    /\ c \in pool /\ writing[c]
    /\ writing' = [writing EXCEPT ![c] = FALSE]
    /\ registered' = [registered EXCEPT ![c] = TRUE]
    /\ UNCHANGED <<queue, pool, current, lost, tx, server, at, listens, deferred, asks, counts, faults>>

Readable(c) ==
    /\ c \in pool /\ registered[c] /\ server[c] = "done" /\ at[c] = "none"
    /\ registered' = [registered EXCEPT ![c] = FALSE]
    /\ at' = [at EXCEPT ![c] = "first"]
    /\ UNCHANGED <<queue, pool, current, lost, tx, server, writing, listens, deferred, asks, counts, faults>>

dispatch(c) ==
    /\ at[c] = "first" /\ at' = [at EXCEPT ![c] = "input"]
    /\ UNCHANGED lost
    /\ \/ /\ current[c] = None /\ Eligible(c, queue, in_transaction(c), session) # {}
          /\ consume(c, queue, in_transaction(c), session, deferred, current)
       \/ /\ current[c] # None \/ Eligible(c, queue, in_transaction(c), session) = {}
          /\ UNCHANGED <<queue, current, server, deferred, executor, writing, faults>>
    /\ UNCHANGED <<pool, tx, registered, listens, kind, session, step, counts>>

\* PQisBusy: wait for more
StillBusy(c) ==
    /\ ~lost[c] /\ at[c] = "input" /\ server[c] = "work"
    /\ at' = [at EXCEPT ![c] = "none"] /\ registered' = [registered EXCEPT ![c] = TRUE]
    /\ UNCHANGED <<queue, pool, current, lost, tx, server, writing, listens, deferred, asks, counts, faults>>

Results(a) == IF a = None THEN {} ELSE {<<a, "cursor">>}

\* The result is complete: make_idle, the report is deferred, and the next
\* request is consumed in the same critical section
DispatchResult(c) ==
    /\ ~lost[c] /\ at[c] = "input" /\ server[c] # "work"
    /\ LET a == current[c]
           t == IF a = None THEN tx[c]
                ELSE IF kind[a] = "begin" THEN a
                ELSE IF kind[a] = "commit" THEN None ELSE tx[c]
       IN /\ tx' = [tx EXCEPT ![c] = t]
          /\ hears' = [hears EXCEPT ![c] = @ \/ (a # None /\ kind[a] = "listen")]
          /\ UNCHANGED lost
          /\ \/ /\ Eligible(c, queue, t # None, session) # {}
                /\ consume(c, queue, t # None, session, deferred \cup Results(a), current)
                /\ UNCHANGED <<at, registered>>
             \/ /\ Eligible(c, queue, t # None, session) = {}
                /\ at' = [at EXCEPT ![c] = "none"] /\ registered' = [registered EXCEPT ![c] = TRUE]
                /\ current' = [current EXCEPT ![c] = None]
                /\ server' = [server EXCEPT ![c] = "quiet"]
                /\ deferred' = deferred \cup Results(a)
                /\ UNCHANGED <<queue, executor, writing, faults>>
    /\ UNCHANGED <<pool, listens, kind, session, step, losses, cached>>

-----------------------------------------------------------------------------
Broken(a) == IF a = None THEN {} ELSE {<<a, "failure">>}

\* The request of a lost connection is reported as failed
make_lost(a) == Broken(a)

\* listen(channels) of a replaced connection
relisten(had) ==
    /\ kind' = IF had THEN [kind EXCEPT ![Sys] = "listen"] ELSE kind
    /\ step' = IF had THEN [step EXCEPT ![Sys] = "ready"] ELSE step

\* The connection cannot be replaced yet: reestablish is deferred
reestablish_fails(c) ==
    /\ lost' = [lost EXCEPT ![c] = TRUE]
    /\ at' = [at EXCEPT ![c] = "again"]
    /\ deferred' = deferred \cup make_lost(current[c])
    /\ current' = [current EXCEPT ![c] = None]
    /\ server' = [server EXCEPT ![c] = "quiet"]
    /\ tx' = [tx EXCEPT ![c] = None]
    /\ registered' = [registered EXCEPT ![c] = FALSE] /\ writing' = [writing EXCEPT ![c] = FALSE]
    /\ UNCHANGED <<queue, pool, listens, asks, faults>>

\* It is replaced: a request is consumed, the socket is watched, and its
\* channels are to be listened to again
reestablish_ok(c) ==
    LET defer == deferred \cup make_lost(current[c])
        cur == [current EXCEPT ![c] = None]
    IN /\ lost' = [lost EXCEPT ![c] = FALSE]
       /\ tx' = [tx EXCEPT ![c] = None]
       /\ at' = [at EXCEPT ![c] = "none"]
       /\ \/ /\ Eligible(c, queue, FALSE, session) # {}
             /\ consume(c, queue, FALSE, session, defer, cur)
          \/ /\ Eligible(c, queue, FALSE, session) = {}
             /\ current' = cur /\ deferred' = defer
             /\ server' = [server EXCEPT ![c] = "quiet"]
             /\ writing' = [writing EXCEPT ![c] = FALSE]
             /\ UNCHANGED <<queue, executor, faults>>
       /\ registered' = [registered EXCEPT ![c] = TRUE]
       /\ listens' = [listens EXCEPT ![c] = FALSE]
       /\ relisten(listens[c])
       /\ UNCHANGED <<pool, session>>

\* From an error of the socket, from a dispatch that cannot read, or deferred.
\* The last two hold a pointer, also to a connection that disconnect() has
\* released: what they do with it is undefined, and either nothing more
\* happens or the connection is replaced as if it were still there.
reestablish(c) ==
    /\ \/ /\ losses < MaxLosses /\ c \in pool
          /\ at[c] \in {"none", "input"} /\ (registered[c] \/ at[c] = "input")
          /\ losses' = losses + 1
       \/ (at[c] = "again" \/ (at[c] = "input" /\ lost[c])) /\ UNCHANGED losses
    /\ hears' = [hears EXCEPT ![c] = FALSE] /\ UNCHANGED cached
    /\ reestablish_ok(c) \/ (at[c] # "again" /\ reestablish_fails(c))

\* disconnect: connections are finished and released with the requests they
\* execute, whose futures are never set; a dispatch that runs keeps its own
disconnect ==
    /\ Disconnects /\ pool # {}
    /\ pool' = {}
    /\ LET left == {c \in pool : at[c] \in {"none", "again"}} IN
          /\ step' = [a \in Askers |-> IF \E c \in left : current[c] = a THEN "dropped" ELSE step[a]]
          /\ current' = [c \in Connections |-> IF c \in left THEN None ELSE current[c]]
    /\ lost' = [c \in Connections |-> lost[c] \/ c \in pool]
    /\ server' = [c \in Connections |-> IF c \in pool THEN "quiet" ELSE server[c]]
    /\ registered' = [c \in Connections |-> registered[c] /\ c \notin pool]
    /\ writing' = [c \in Connections |-> writing[c] /\ c \notin pool]
    /\ UNCHANGED <<queue, tx, at, listens, deferred, kind, session, executor, counts, faults>>

\* The multiplexer waits for events
Idle == deferred = {} /\ (\A c \in pool : at[c] = "none") /\ UNCHANGED vars

Next ==
    \/ \E a \in Askers : Ask(a) \/ Refused(a) \/ Report(a)
    \/ \E c \in Connections :
          \/ Answer(c) \/ Writeable(c) \/ Readable(c) \/ dispatch(c) \/ StillBusy(c) \/ DispatchResult(c)
          \/ reestablish(c)
    \/ disconnect \/ Idle

AskerSteps(a) == Ask(a) \/ Refused(a) \/ Report(a)

Dispatches(c) ==
    \/ Writeable(c) \/ Readable(c) \/ dispatch(c) \/ StillBusy(c) \/ DispatchResult(c)
    \/ (at[c] = "again" \/ lost[c]) /\ reestablish(c)

\* The server answers, sockets become ready, deferred tasks run, clients go
\* on, and a lost connection is replaced in the end
Fairness ==
    /\ \A a \in Askers : WF_vars(AskerSteps(a))
    /\ \A c \in Connections : WF_vars(Answer(c)) /\ WF_vars(Dispatches(c))

Spec == Init /\ [][Next]_vars /\ Fairness

-----------------------------------------------------------------------------
(* A request that waits is in exactly one place: the queue, one            *)
(* connection, or one report to be made.  Losses, failed sends and         *)
(* concurrent dispatches neither lose it nor answer it twice.  Only        *)
(* disconnect() drops requests, those its connections execute ("dropped"). *)
Places(a) ==
    Cardinality({i \in DOMAIN queue : queue[i] = a})
    + Cardinality({c \in Connections : current[c] = a})
    + Cardinality({r \in deferred : r[1] = a})
OnePlace == \A a \in Askers : Places(a) = IF step[a] = "waits" THEN 1 ELSE 0

(* Statements of others stay out of a transaction, and those of the       *)
(* transaction run in it: consume() sends them to their connection only.   *)
Isolated ==
    \A c \in Connections :
        /\ (current[c] # None /\ tx[c] # None) => current[c] = tx[c]
        /\ (current[c] # None /\ session[current[c]] # None) => tx[c] = current[c]

(* Every request is answered.  A send that fails on a good connection      *)
(* wakes nobody: those still queued wait for the next query or event.      *)
Unanswered(a) == step[a] = "waits"

Answered(a) == step[a] # "waits" \/ "send" \in faults

(* A subscription survives the loss of its connection, unless the LISTEN   *)
(* that reestablish() sends fails in its turn or its connection is replaced *)
(* before the answer is recorded (pq.cpp 2119-2131): nobody tries again.   *)
Subscribed == \E c \in pool : listens[c] /\ hears[c]

Forgotten == "listen" \in faults

Lent == [c \in Connections |-> {current[c]} \ {None}]

(* The cluster is a pool of leases: no query, dispatch, failed send or     *)
(* reestablish gives a connection to a second request before the first is  *)
(* through with it, or one request two connections.                        *)
Lease == INSTANCE Leases WITH Resources <- Connections, Users <- Askers, holders <- Lent
=============================================================================
