---------------------------- MODULE SqliteCluster ----------------------------
(***************************************************************************)
(* sqlite::cluster: idle and busy connections, and a queue of waiting      *)
(* requests per session.  query() acquires a connection, prepares and      *)
(* executes the statements of the command one after another, and releases  *)
(* the connection, which hands it to one request that waits.               *)
(***************************************************************************)
EXTENDS Naturals, Sequences, FiniteSets

CONSTANTS Connections, Clients, None,
    TxClients,      \* the clients that run transactions; the others run plain commands
    MaxStatements   \* statements of a plain command

ASSUME TxClientsAssumption == TxClients \subseteq Clients
ASSUME NoneAssumption == None \notin Connections

VARIABLES
    idle, busy,
    tx,        \* the client whose BEGIN the connection executed (autocommit is off), or None
    queues,    \* queues[session]
    kind,      \* the command of a client: "none", "plain", "begin", "inner", "commit"
    session,
    at,        \* "ready", "queued", "prepare", "execute", "release", "over"
    conn,      \* the connection it acquired
    left,      \* statements still to execute
    begun,     \* cursor::get_executor of its first successful command
    closed,    \* connections that were closed
    missed     \* clients whose BEGIN or COMMIT was taken for done and was not

vars == <<idle, busy, tx, queues, kind, session, at, conn, left, begun, closed, missed>>
pool == <<idle, busy, queues>>

Init ==
    /\ idle = Connections /\ busy = {} /\ closed = {} /\ missed = {}
    /\ tx = [c \in Connections |-> None]
    /\ queues = [s \in Connections \cup {None} |-> <<>>]
    /\ kind = [a \in Clients |-> "none"] /\ session = [a \in Clients |-> None]
    /\ at = [a \in Clients |-> "ready"] /\ conn = [a \in Clients |-> None]
    /\ left = [a \in Clients |-> 0] /\ begun = [a \in Clients |-> None]

-----------------------------------------------------------------------------
\* try_acquire_connection: where the loop over the idle connections may stop,
\* in whatever order they are stored
Stops(c, s, k) ==
    \/ s = c
    \/ tx[c] = None /\ k # "commit"
    \/ tx[c] # None /\ k # "begin"

\* the connections it may return, None included
try_acquire_connection(from, s, k) ==
    LET stops == {c \in from : Stops(c, s, k)}
    IN IF stops = {} THEN {None}
       ELSE {IF s = c /\ tx[c] = None THEN None ELSE c : c \in stops}

Takes(c) == idle' = idle \ {c} /\ busy' = busy \cup {c}

\* acquire_connection
acquire_connection(a, k, s) ==
    \E c \in try_acquire_connection(idle, s, k) :
    \/ /\ c # None /\ Takes(c)
       /\ conn' = [conn EXCEPT ![a] = c] /\ at' = [at EXCEPT ![a] = "prepare"]
       /\ UNCHANGED queues
    \/ /\ c = None
       /\ queues' = [queues EXCEPT ![s] = Append(@, a)]
       /\ at' = [at EXCEPT ![a] = "queued"]
       /\ UNCHANGED <<idle, busy, conn>>

\* query(), called by a client for a plain command or a step of a transaction
query(a) ==
    /\ at[a] = "ready"
    /\ \E k \in {"plain", "begin", "inner", "commit"}, n \in 1..MaxStatements :
          /\ k = "plain" => kind[a] = "none" /\ a \notin TxClients
          /\ k = "begin" => kind[a] = "none" /\ a \in TxClients
          /\ k = "inner" => kind[a] = "begin"
          /\ k = "commit" => kind[a] = "inner"
          /\ k # "plain" => n = 1
          /\ LET s == IF k \in {"inner", "commit"} THEN begun[a] ELSE None IN
                /\ kind' = [kind EXCEPT ![a] = k]
                /\ session' = [session EXCEPT ![a] = s]
                /\ left' = [left EXCEPT ![a] = n]
                /\ acquire_connection(a, k, s)
    /\ UNCHANGED <<tx, begun, closed, missed>>

\* The statement is prepared; a failure ends the command here, and its
\* connection is not released
prepare(a) ==
    /\ at[a] = "prepare"
    /\ \/ at' = [at EXCEPT ![a] = "execute"] /\ UNCHANGED conn
       \/ /\ at' = [at EXCEPT ![a] = "over"]
          /\ conn' = [conn EXCEPT ![a] = None]
    /\ UNCHANGED <<pool, tx, kind, session, left, begun, closed, missed>>

\* execute: what the statement does to the transaction of the connection
Executed(a) ==
    LET c == conn[a] IN
    CASE kind[a] = "begin" -> [tx EXCEPT ![c] = a]
      [] kind[a] = "commit" -> [tx EXCEPT ![c] = None]
      [] OTHER -> tx

execute(a) ==
    /\ at[a] = "execute"
    /\ \/ /\ tx' = Executed(a)                        \* SQLITE_DONE
          /\ left' = [left EXCEPT ![a] = @ - 1]
          /\ begun' = [begun EXCEPT ![a] = IF @ = None THEN conn[a] ELSE @] /\ UNCHANGED missed
       \/ /\ left' = [left EXCEPT ![a] = @ - 1]       \* busy or locked: slept, taken for done
          /\ begun' = [begun EXCEPT ![a] = IF @ = None THEN conn[a] ELSE @] /\ UNCHANGED tx
          /\ missed' = IF kind[a] \in {"begin", "commit"} THEN missed \cup {a} ELSE missed
       \/ /\ left' = [left EXCEPT ![a] = 0]           \* any other result stops the command
          /\ UNCHANGED <<tx, begun, missed>>
    /\ at' = [at EXCEPT ![a] = IF left'[a] = 0 THEN "release" ELSE "prepare"]
    /\ UNCHANGED <<pool, kind, session, conn, closed>>

-----------------------------------------------------------------------------
\* release_connection: to the first request that waits for this connection,
\* or else to the first one without a session
NextQueue_own(c) == c

NextQueue(c) == IF queues[c] # <<>> THEN c ELSE None

\* tx_start failed or COMMIT was tried, or the client goes on
Left(a) == IF kind[a] \in {"begin", "inner"} /\ begun[a] # None THEN "ready" ELSE "over"

\* The connection is handed over without being taken from the idle ones
release_shared(a) ==
    /\ at[a] = "release"
    /\ LET c == conn[a]
           q == NextQueue(c)
       IN /\ idle' = idle \cup {c} /\ busy' = busy \ {c}
          /\ IF queues[q] = <<>>
             THEN /\ at' = [at EXCEPT ![a] = Left(a)] /\ conn' = [conn EXCEPT ![a] = None]
                  /\ UNCHANGED queues
             ELSE /\ at' = [at EXCEPT ![a] = Left(a), ![Head(queues[q])] = "prepare"]
                  /\ conn' = [conn EXCEPT ![a] = None, ![Head(queues[q])] = c]
                  /\ queues' = [queues EXCEPT ![q] = Tail(@)]
    /\ UNCHANGED <<tx, kind, session, left, begun, closed, missed>>

release_connection(a) ==
    /\ at[a] = "release"
    /\ LET c == conn[a]
           free == idle \cup {c}
           q == NextQueue(c)
       IN IF queues[q] = <<>>
          THEN /\ idle' = free /\ busy' = busy \ {c}
               /\ at' = [at EXCEPT ![a] = Left(a)] /\ conn' = [conn EXCEPT ![a] = None]
               /\ UNCHANGED queues
          ELSE LET b == Head(queues[q]) IN
               \E n \in try_acquire_connection(free, session[b], kind[b]) :
               \/ /\ n = None
                  /\ idle' = free /\ busy' = busy \ {c}
                  /\ at' = [at EXCEPT ![a] = Left(a)] /\ conn' = [conn EXCEPT ![a] = None]
                  /\ UNCHANGED queues
               \/ /\ n # None
                  /\ idle' = free \ {n} /\ busy' = (busy \ {c}) \cup {n}
                  /\ at' = [at EXCEPT ![a] = Left(a), ![b] = "prepare"]
                  /\ conn' = [conn EXCEPT ![a] = None, ![b] = n]
                  /\ queues' = [queues EXCEPT ![q] = Tail(@)]
    /\ UNCHANGED <<tx, kind, session, left, begun, closed, missed>>

\* disconnect: every connection is closed; who waits or executes is not told
disconnect ==
    /\ idle \cup busy # {}
    /\ closed' = closed \cup idle \cup busy
    /\ idle' = {} /\ busy' = {}
    /\ UNCHANGED <<queues, tx, kind, session, at, conn, left, begun, missed>>

Waits == (\A a \in Clients : at[a] \in {"over", "queued"}) /\ UNCHANGED vars

Next ==
    \/ \E a \in Clients : query(a) \/ prepare(a) \/ execute(a) \/ release_connection(a)
    \/ disconnect \/ Waits

Moves(a) == query(a) \/ prepare(a) \/ execute(a) \/ release_connection(a)

\* A client goes on, and its statement ends
Spec == Init /\ [][Next]_vars /\ \A a \in Clients : WF_vars(Moves(a))

-----------------------------------------------------------------------------
(* A connection has one user at a time, and is not offered while it is     *)
(* used: acquire_connection and release_connection hand it from one        *)
(* command to the next without a gap.                                      *)
OneUser ==
    /\ idle \cap busy = {}
    /\ \A a \in Clients : conn[a] # None => conn[a] \notin idle
    /\ \A a, b \in Clients : (conn[a] # None /\ conn[a] = conn[b]) => a = b

(* BEGIN is never executed inside of a transaction.                        *)
BeginClean ==
    \A a \in Clients : (at[a] = "execute" /\ kind[a] = "begin") => tx[conn[a]] = None

(* Both: a connection executes one command at a time, and no transaction   *)
(* is begun in another.  A command that begins none may still come between *)
(* the commands of a transaction: try_acquire_connection stops at an idle  *)
(* connection in a transaction whoever asks (sqlite.cpp 1520).             *)
ConnectionsExclusive == OneUser /\ BeginClean

(* COMMIT ends the transaction of the client that asked for it, as long as *)
(* execute() took no BEGIN or COMMIT of a locked database for done.        *)
EndsItsOwn ==
    missed = {} =>
        \A a \in Clients : (at[a] = "execute" /\ kind[a] = "commit") => tx[conn[a]] = a

\* What the code does not recover from: a command that could not be prepared
\* kept its connection, a client ended inside of its transaction (its COMMIT
\* failed), a BEGIN or COMMIT was taken for done, or disconnect() was called
Stranded ==
    \/ \E c \in busy : \A a \in Clients : conn[a] # c
    \/ \E c \in Connections : tx[c] # None /\ at[tx[c]] = "over"
    \/ missed # {} \/ closed # {}

(* Every command is answered, unless one of these happened.                *)
Unanswered(a) == at[a] \in {"queued", "prepare"}

Told(a) == at[a] \in {"ready", "over"} \/ Stranded

(* A command with a session runs on the connection of its transaction:     *)
(* query() reports it as executed "(transaction)".  Also when every BEGIN  *)
(* and COMMIT did what it was taken to have done.                          *)
SessionKept ==
    missed = {} =>
        \A a \in Clients : (at[a] = "execute" /\ session[a] # None) => conn[a] = session[a]

Holders == [c \in Connections |-> {a \in Clients : conn[a] = c}]
Lease == INSTANCE Leases WITH Resources <- Connections, Users <- Clients, holders <- Holders

(* The cluster is a pool of leases: acquire_connection, a statement that   *)
(* cannot be prepared and release_connection lend, take back and pass on   *)
(* one connection at a time, and no other step moves one.                  *)
ImplementsLeases == Lease!Spec
=============================================================================
