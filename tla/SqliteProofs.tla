---------------------------- MODULE SqliteProofs ----------------------------
(***************************************************************************)
(* sqlite::cluster for any number of connections and clients, with every   *)
(* fault of the model: a connection has one user, and no BEGIN is executed *)
(* inside of a transaction.                                                *)
(***************************************************************************)
EXTENDS SqliteCluster, SequenceTheorems, TLAPS

Sessions == Connections \cup {None}
Using == {"prepare", "execute", "release"}

Types ==
    /\ idle \subseteq Connections /\ busy \subseteq Connections
    /\ tx \in [Connections -> Clients \cup {None}]
    /\ queues \in [Sessions -> Seq(Clients)]
    /\ kind \in [Clients -> {"none", "plain", "begin", "inner", "commit"}]
    /\ session \in [Clients -> Sessions] /\ conn \in [Clients -> Sessions]
    /\ begun \in [Clients -> Sessions]
    /\ at \in [Clients -> Using \cup {"ready", "queued", "over"}]
    /\ left \in [Clients -> Int]

\* Who works with a connection, and who has none.
Holding == \A a \in Clients : at[a] \in Using <=> conn[a] # None

\* A client waits at most once, in the queue of its session.
Queued ==
    \A s \in Sessions : \A i \in 1..Len(queues[s]) :
        /\ at[queues[s][i]] = "queued" /\ session[queues[s][i]] = s
        /\ \A j \in 1..Len(queues[s]) : queues[s][i] = queues[s][j] => i = j

\* A BEGIN has no session, is one statement, and found no transaction.
Begins ==
    \A a \in Clients : kind[a] = "begin" =>
        /\ session[a] = None
        /\ at[a] \in {"queued", "prepare", "execute"} => left[a] = 1
        /\ at[a] \in {"prepare", "execute"} => tx[conn[a]] = None

Inv == Types /\ Holding /\ OneUser /\ Queued /\ Begins

(* What try_acquire_connection returns was offered; a BEGIN without a      *)
(* session gets a connection without a transaction.                        *)
LEMMA Acquired ==
    ASSUME NEW from \in SUBSET Connections, NEW s, NEW k,
           NEW n \in try_acquire_connection(from, s, k), n # None
    PROVE  /\ n \in from
           /\ k = "begin" /\ s = None => tx[n] = None
BY NoneAssumption DEF try_acquire_connection, Stops

(* A cluster with its connections idle is in the invariant.               *)
LEMMA InvInit == Init => Inv
<1> SUFFICES ASSUME Init PROVE Inv
  OBVIOUS
<1>1. Types
  BY EmptySeq DEF Init, Types, Sessions, Using
<1>2. Holding /\ OneUser /\ Begins
  BY DEF Init, Holding, OneUser, Begins, Using
<1>3. Queued
  BY DEF Init, Queued, Sessions
<1> QED BY <1>1, <1>2, <1>3 DEF Inv
-----------------------------------------------------------------------------
(* A client with no place in the pool asks for a connection: it gets an    *)
(* idle one, or waits in the queue of its session.                         *)
LEMMA QueryKeeps ==
    ASSUME Inv, NEW a \in Clients, query(a) PROVE Inv'
<1> USE DEF Inv
<1> PICK k \in {"plain", "begin", "inner", "commit"}, n \in 1..MaxStatements :
       LET s == IF k \in {"inner", "commit"} THEN begun[a] ELSE None IN
       /\ k # "plain" => n = 1
       /\ kind' = [kind EXCEPT ![a] = k]
       /\ session' = [session EXCEPT ![a] = s]
       /\ left' = [left EXCEPT ![a] = n]
       /\ acquire_connection(a, k, s)
  BY Zenon DEF query
<1> DEFINE s == IF k \in {"inner", "commit"} THEN begun[a] ELSE None
<1>1. at[a] = "ready" /\ UNCHANGED <<tx, begun, closed, missed>>
  BY DEF query
<1>2. s \in Sessions /\ (k = "begin" => s = None)
  BY DEF Types, Sessions
<1>3. conn[a] = None
  BY Zenon, <1>1 DEF Holding, Types, Using
<1>4. \A r \in Sessions : \A i \in 1..Len(queues[r]) : queues[r][i] # a
  BY <1>1 DEF Queued
<1>7. \A r \in Sessions : \A i \in 1..Len(queues[r]) : queues[r][i] \in Clients
  BY DEF Types
<1> HIDE DEF s
<1> PICK c \in try_acquire_connection(idle, s, k) :
       \/ /\ c # None /\ Takes(c)
          /\ conn' = [conn EXCEPT ![a] = c] /\ at' = [at EXCEPT ![a] = "prepare"]
          /\ UNCHANGED queues
       \/ /\ c = None
          /\ queues' = [queues EXCEPT ![s] = Append(@, a)]
          /\ at' = [at EXCEPT ![a] = "queued"]
          /\ UNCHANGED <<idle, busy, conn>>
  BY DEF acquire_connection, s
<1>5. CASE c # None
  <2>1. c \in idle /\ (k = "begin" => tx[c] = None)
    BY <1>5, <1>2, Acquired DEF Types
  <2>2. /\ Takes(c) /\ conn' = [conn EXCEPT ![a] = c]
        /\ at' = [at EXCEPT ![a] = "prepare"] /\ UNCHANGED queues
    BY <1>5
  <2>3. Types'
    BY <1>1, <1>2, <2>1, <2>2 DEF Types, Takes, Using, Sessions, s
  <2>4. Holding' /\ OneUser'
    BY <1>5, <2>1, <2>2 DEF Types, Takes, Using, Holding, OneUser
  <2>5. Queued'
    <3>1. \A b \in Clients : b # a => at'[b] = at[b] /\ session'[b] = session[b]
      BY <2>2 DEF Types
    <3> QED BY <1>4, <1>7, <2>2, <3>1 DEF Queued
  <2>6. Begins'
    BY <1>1, <1>2, <2>1, <2>2 DEF Types, Begins, s
  <2> QED BY <2>3, <2>4, <2>5, <2>6
<1>6. CASE c = None
  <2>1. /\ queues' = [queues EXCEPT ![s] = Append(@, a)]
        /\ at' = [at EXCEPT ![a] = "queued"]
        /\ UNCHANGED <<idle, busy, conn>>
    BY <1>6
  <2>2. queues[s] \in Seq(Clients)
    BY <1>2 DEF Types
  <2>3. Types'
    BY <1>1, <1>2, <2>1, <2>2 DEF Types, Using, Sessions, s
  <2>4. Holding' /\ OneUser'
    BY <1>1, <1>3, <2>1 DEF Types, Using, Holding, OneUser
  <2>5. Queued'
    <3> SUFFICES ASSUME NEW r \in Sessions, NEW i \in 1..Len(queues'[r])
                 PROVE  /\ at'[queues'[r][i]] = "queued" /\ session'[queues'[r][i]] = r
                        /\ \A j \in 1..Len(queues'[r]) : queues'[r][i] = queues'[r][j] => i = j
      BY DEF Queued
    <3>1. CASE r # s
      <4>1. \A b \in Clients : b # a => at'[b] = at[b] /\ session'[b] = session[b]
        BY <2>1 DEF Types
      <4>2. queues'[r] = queues[r]
        BY <2>1, <3>1 DEF Types
      <4> QED BY <1>4, <1>7, <4>1, <4>2 DEF Queued
    <3>2. CASE r = s
      <4>1. /\ queues'[s] = Append(queues[s], a) /\ Len(queues'[s]) = Len(queues[s]) + 1
            /\ Len(queues[s]) \in Nat
            /\ \A j \in 1..Len(queues[s]) : queues'[s][j] = queues[s][j] /\ queues[s][j] \in Clients
            /\ queues'[s][Len(queues[s]) + 1] = a
        BY <1>2, <2>1, <2>2 DEF Types
      <4>2. at'[a] = "queued" /\ session'[a] = s
        BY <2>1 DEF Types, s
      <4>3. CASE i = Len(queues[s]) + 1
        BY <1>2, <1>4, <3>2, <4>1, <4>2, <4>3
      <4>4. CASE i \in 1..Len(queues[s])
        <5>1. queues[s][i] # a /\ at[queues[s][i]] = "queued" /\ session[queues[s][i]] = s
          BY <1>2, <1>4, <4>4 DEF Queued
        <5>2. at'[queues[s][i]] = "queued" /\ session'[queues[s][i]] = s
          BY Zenon, <2>1, <5>1, <4>1, <4>4 DEF Types
        <5>3. \A j \in 1..Len(queues[s]) : queues[s][i] = queues[s][j] => i = j
          BY <1>2, <4>4 DEF Queued
        <5> QED BY <3>2, <4>1, <4>4, <5>1, <5>2, <5>3
      <4> QED BY <3>2, <4>1, <4>3, <4>4
    <3> QED BY <3>1, <3>2
  <2>6. Begins'
    BY <1>1, <1>2, <2>1 DEF Types, Begins, s
  <2> QED BY <2>3, <2>4, <2>5, <2>6
<1> QED BY <1>5, <1>6

(* A command that goes on keeps its connection; one that cannot be         *)
(* prepared forgets it, and the connection stays busy.                     *)
LEMMA PrepareKeeps ==
    ASSUME Inv, NEW a \in Clients, prepare(a) PROVE Inv'
<1> USE DEF Inv
<1>1. /\ at[a] = "prepare" /\ UNCHANGED <<pool, tx, kind, session, left, begun, closed, missed>>
      /\ \/ at' = [at EXCEPT ![a] = "execute"] /\ UNCHANGED conn
         \/ at' = [at EXCEPT ![a] = "over"] /\ conn' = [conn EXCEPT ![a] = None]
  BY DEF prepare
<1>2. Types'
  BY Zenon, <1>1 DEF Types, pool, Using, Sessions
<1>3. Holding' /\ OneUser'
  BY ZenonT(30), <1>1 DEF Types, pool, Using, Holding, OneUser
<1>4. Queued'
  BY SMTT(20), <1>1 DEF Types, pool, Queued
<1>5. Begins'
  BY <1>1 DEF Types, Begins
<1> QED BY <1>2, <1>3, <1>4, <1>5

(* The statement changes the transaction of the connection its client      *)
(* holds, and no other client holds it.                                    *)
LEMMA ExecuteKeeps ==
    ASSUME Inv, NEW a \in Clients, execute(a) PROVE Inv'
<1> USE DEF Inv
<1>1. /\ at[a] = "execute" /\ UNCHANGED <<pool, kind, session, conn, closed>>
      /\ at' = [at EXCEPT ![a] = IF left'[a] = 0 THEN "release" ELSE "prepare"]
  BY DEF execute
<1>2. conn[a] \in Connections
  BY <1>1 DEF Types, Holding, Using, Sessions
<1>3. \/ tx' = tx
      \/ \E v \in Clients \cup {None} : tx' = [tx EXCEPT ![conn[a]] = v]
  BY DEF execute, Executed
<1>4. \/ left' = [left EXCEPT ![a] = @ - 1]
      \/ left' = [left EXCEPT ![a] = 0]
  BY DEF execute
<1>5. begun' \in [Clients -> Sessions]
  BY Zenon, <1>2 DEF execute, Types, Sessions
<1>6. Types'
  <2>1. tx' \in [Connections -> Clients \cup {None}]
    BY Zenon, <1>2, <1>3 DEF Types
  <2>2. left' \in [Clients -> Int]
    BY <1>4 DEF Types
  <2>3. at' \in [Clients -> Using \cup {"ready", "queued", "over"}]
    BY <1>1 DEF Types, Using
  <2> QED BY <1>1, <1>5, <2>1, <2>2, <2>3 DEF Types, pool
<1>7. Holding' /\ OneUser'
  BY <1>1, <1>2, NoneAssumption DEF Types, pool, Using, Holding, OneUser
<1>8. Queued'
  BY <1>1 DEF Types, pool, Queued
<1>9. Begins'
  <2> SUFFICES ASSUME NEW b \in Clients, kind'[b] = "begin"
               PROVE  /\ session'[b] = None
                      /\ at'[b] \in {"queued", "prepare", "execute"} => left'[b] = 1
                      /\ at'[b] \in {"prepare", "execute"} => tx'[conn'[b]] = None
    BY DEF Begins
  <2>1. CASE b = a
    BY <1>1, <1>4, <2>1 DEF Types, Begins
  <2>2. CASE b # a
    <3>1. at'[b] = at[b] /\ left'[b] = left[b] /\ kind[b] = "begin" /\ session'[b] = session[b] /\ conn'[b] = conn[b]
      BY <1>1, <1>4, <2>2 DEF Types
    <3>2. at[b] \in {"prepare", "execute"} => conn[b] \in Connections /\ conn[b] # conn[a]
      BY <1>2, <2>2, NoneAssumption DEF Types, Holding, Using, Sessions, OneUser
    <3>3. at[b] \in {"prepare", "execute"} => tx'[conn[b]] = tx[conn[b]]
      BY <1>3, <3>2 DEF Types
    <3> QED BY <3>1, <3>3 DEF Begins
  <2> QED BY <2>1, <2>2
<1> QED BY <1>6, <1>7, <1>8, <1>9

(* release_connection gives the connection back, and perhaps an idle one,  *)
(* this or another, to the first client that waits.                        *)
LEMMA ReleaseKeeps ==
    ASSUME Inv, NEW a \in Clients, release_connection(a) PROVE Inv'
<1> USE DEF Inv
<1> DEFINE c == conn[a]
           free == idle \cup {c}
           q == NextQueue(c)
           b == Head(queues[q])
<1>1. at[a] = "release" /\ UNCHANGED <<tx, kind, session, left, begun, closed, missed>>
  BY DEF release_connection
<1>2. c \in Connections /\ q \in Sessions
  BY <1>1 DEF Types, Holding, Using, Sessions, NextQueue
<1>3. Left(a) \in {"ready", "over"}
  BY DEF Left
<1>4. \A r \in Sessions : \A i \in 1..Len(queues[r]) : queues[r][i] \in Clients /\ queues[r][i] # a
  BY <1>1 DEF Types, Queued
<1>5. CASE /\ idle' = free /\ busy' = busy \ {c}
           /\ at' = [at EXCEPT ![a] = Left(a)] /\ conn' = [conn EXCEPT ![a] = None]
           /\ UNCHANGED queues
  <2>1. Types'
    BY <1>1, <1>2, <1>3, <1>5 DEF Types, Using, Sessions
  <2>2. Holding' /\ OneUser'
    BY <1>1, <1>2, <1>3, <1>5, NoneAssumption DEF Types, Using, Holding, OneUser
  <2>3. Queued'
    <3>1. \A d \in Clients : d # a => at'[d] = at[d]
      BY <1>5 DEF Types
    <3> QED BY <1>1, <1>4, <1>5, <3>1 DEF Queued
  <2>4. Begins'
    BY <1>1, <1>3, <1>5 DEF Types, Begins
  <2> QED BY <2>1, <2>2, <2>3, <2>4
<1>6. CASE /\ queues[q] # <<>>
           /\ \E n \in try_acquire_connection(free, session[b], kind[b]) :
                 /\ n # None
                 /\ idle' = free \ {n} /\ busy' = (busy \ {c}) \cup {n}
                 /\ at' = [at EXCEPT ![a] = Left(a), ![b] = "prepare"]
                 /\ conn' = [conn EXCEPT ![a] = None, ![b] = n]
                 /\ queues' = [queues EXCEPT ![q] = Tail(@)]
  <2> PICK n \in try_acquire_connection(free, session[b], kind[b]) :
                 /\ n # None
                 /\ idle' = free \ {n} /\ busy' = (busy \ {c}) \cup {n}
                 /\ at' = [at EXCEPT ![a] = Left(a), ![b] = "prepare"]
                 /\ conn' = [conn EXCEPT ![a] = None, ![b] = n]
                 /\ queues' = [queues EXCEPT ![q] = Tail(@)]
    BY Zenon, <1>6
  <2>1. /\ queues[q] \in Seq(Clients) /\ queues[q] # <<>> /\ Len(queues[q]) \in Nat \ {0}
        /\ b = queues[q][1] /\ 1 \in 1..Len(queues[q])
    BY <1>2, <1>6 DEF Types
  <2>2. b \in Clients /\ b # a /\ at[b] = "queued" /\ session[b] = q
    BY <1>2, <1>4, <2>1 DEF Queued
  <2>3. n \in free /\ (kind[b] = "begin" /\ session[b] = None => tx[n] = None)
    <3>1. free \in SUBSET Connections
      BY <1>2 DEF Types
    <3> QED BY <3>1, Acquired
  <2>4. Tail(queues[q]) \in Seq(Clients)
    BY <2>1
  <2> HIDE DEF b, q
  <2>5. Types'
    BY Zenon, <1>1, <1>2, <1>3, <2>2, <2>3, <2>4 DEF Types, Using, Sessions
  <2>6. conn[b] = None
    BY Zenon, <2>2 DEF Types, Holding, Using
  <2>7. Holding' /\ OneUser'
    <3>1. /\ conn'[a] = None /\ conn'[b] = n /\ at'[a] = Left(a) /\ at'[b] = "prepare"
          /\ \A d \in Clients \ {a, b} : conn'[d] = conn[d] /\ at'[d] = at[d]
      BY <2>2 DEF Types
    <3>2. Holding'
      BY Zenon, <1>3, <2>2, <3>1 DEF Holding, Using
    <3>3. n \in Connections /\ n \notin idle' /\ idle' \cap busy' = {}
      BY <1>2, <2>3, NoneAssumption DEF Types, OneUser
    <3>4. \A d \in Clients \ {a, b} : conn[d] # None => conn[d] # n /\ conn[d] # c /\ conn[d] \notin idle'
      BY <1>2, <2>3, NoneAssumption DEF OneUser
    <3>5. \A d \in Clients : conn'[d] # None => conn'[d] \notin idle'
      BY Zenon, <3>1, <3>3, <3>4
    <3>6. \A d, e \in Clients : (conn'[d] # None /\ conn'[d] = conn'[e]) => d = e
      BY <3>1, <3>4 DEF OneUser
    <3> QED BY Zenon, <3>2, <3>3, <3>5, <3>6 DEF OneUser
  <2>8. Queued'
    <3>1. \A d \in Clients : d # a /\ d # b => at'[d] = at[d]
      BY <2>2 DEF Types
    <3>2. ASSUME NEW r \in Sessions, r # q PROVE queues'[r] = queues[r]
      BY <1>2, <3>2 DEF Types
    <3>3. ASSUME NEW r \in Sessions, r # q, NEW i \in 1..Len(queues[r]) PROVE queues[r][i] # b
      BY <3>3, <2>2 DEF Queued
    <3>4. /\ queues'[q] = Tail(queues[q]) /\ Len(queues'[q]) = Len(queues[q]) - 1
          /\ \A i \in 1..Len(queues'[q]) : queues'[q][i] = queues[q][i + 1] /\ i + 1 \in 1..Len(queues[q])
      BY <1>2, <2>1 DEF Types
    <3>5. \A i \in 1..Len(queues'[q]) : queues[q][i + 1] # b
      BY <1>2, <2>1, <3>4 DEF Queued
    <3> SUFFICES ASSUME NEW r \in Sessions, NEW i \in 1..Len(queues'[r])
                 PROVE  /\ at'[queues'[r][i]] = "queued" /\ session'[queues'[r][i]] = r
                        /\ \A j \in 1..Len(queues'[r]) : queues'[r][i] = queues'[r][j] => i = j
      BY Zenon DEF Queued
    <3>6. CASE r # q
      <4>1. queues'[r] = queues[r] /\ \A j \in 1..Len(queues[r]) : at'[queues[r][j]] = at[queues[r][j]]
        BY Zenon, <1>4, <3>1, <3>2, <3>3, <3>6
      <4>2. session' = session
        BY <1>1
      <4>3. i \in 1..Len(queues[r])
        BY <4>1
      <4>4. /\ at[queues[r][i]] = "queued" /\ session[queues[r][i]] = r
            /\ \A j \in 1..Len(queues[r]) : queues[r][i] = queues[r][j] => i = j
        BY <4>3 DEF Queued
      <4> QED BY Zenon, <4>1, <4>2, <4>3, <4>4
    <3>7. CASE r = q
      <4>1. queues[q][i + 1] \in Clients /\ queues[q][i + 1] # a /\ queues[q][i + 1] # b
        BY Zenon, <1>2, <1>4, <3>4, <3>5, <3>7
      <4>2. at'[queues'[q][i]] = "queued" /\ session'[queues'[q][i]] = q
        <5>1. i + 1 \in 1..Len(queues[q]) /\ queues'[q][i] = queues[q][i + 1]
          BY <3>4, <3>7
        <5>2. at[queues[q][i + 1]] = "queued" /\ session[queues[q][i + 1]] = q
          BY <1>2, <5>1 DEF Queued
        <5> QED BY Zenon, <1>1, <3>1, <4>1, <5>1, <5>2
      <4>3. \A j \in 1..Len(queues'[q]) : queues[q][i + 1] = queues[q][j + 1] => i + 1 = j + 1
        BY <1>2, <3>4, <3>7 DEF Queued
      <4>4. ASSUME NEW j \in 1..Len(queues'[q]), queues'[q][i] = queues'[q][j] PROVE i = j
        <5>1. i + 1 = j + 1
          BY Zenon, <3>4, <3>7, <4>3, <4>4
        <5>2. i \in Int /\ j \in Int
          BY <3>7, <4>4
        <5> QED BY <5>1, <5>2
      <4> QED BY Zenon, <3>7, <4>2, <4>4
    <3> QED BY Zenon, <3>6, <3>7
  <2>9. Begins'
    BY Zenon, <1>1, <1>3, <2>2, <2>3 DEF Types, Begins
  <2> QED BY <2>5, <2>7, <2>8, <2>9
<1> QED BY Zenon, <1>5, <1>6 DEF release_connection

(* disconnect empties the pool under its users, who keep what they hold.   *)
LEMMA DisconnectKeeps ==
    ASSUME Inv, disconnect PROVE Inv'
BY DEF Inv, Types, Holding, OneUser, Queued, Begins, disconnect

(* Every step of the cluster keeps the invariant.                          *)
LEMMA InvNext == Inv /\ [Next]_vars => Inv'
<1> SUFFICES ASSUME Inv, [Next]_vars PROVE Inv'
  OBVIOUS
<1>1. CASE \E a \in Clients : query(a) \/ prepare(a) \/ execute(a) \/ release_connection(a)
  BY <1>1, QueryKeeps, PrepareKeeps, ExecuteKeeps, ReleaseKeeps
<1>2. CASE disconnect
  BY <1>2, DisconnectKeeps
<1>3. CASE UNCHANGED vars
  BY <1>3 DEF vars, Inv, Types, Holding, OneUser, Queued, Begins
<1> QED BY <1>1, <1>2, <1>3 DEF Next, Waits

(* acquire_connection and release_connection never hand a connection to    *)
(* two commands, and never offer one that is used, whatever fails between  *)
(* them and even across a disconnect; the transaction a connection is in   *)
(* is seen by try_acquire_connection, and nobody begins another inside it. *)
THEOREM ClusterExclusive == Spec => []ConnectionsExclusive
<1>1. Inv => OneUser
  BY DEF Inv
<1>2. Inv => BeginClean
  BY DEF Inv, Begins, BeginClean
<1>3. Inv => ConnectionsExclusive
  BY <1>1, <1>2 DEF ConnectionsExclusive
<1> QED BY <1>3, InvInit, InvNext, PTL DEF Spec
-----------------------------------------------------------------------------
(* A connection that nobody holds is lent to a client that has none.       *)
LEMMA LeaseStep ==
    ASSUME Types, NEW c \in Connections, NEW a \in Clients, conn[a] = None,
           \A b \in Clients : conn[b] # c, conn' = [conn EXCEPT ![a] = c]
    PROVE  Lease!Lease(c, a)
<1>1. Holders' = [Holders EXCEPT ![c] = {a}]
  <2>1. \A b \in Clients : conn'[b] = IF b = a THEN c ELSE conn[b]
    BY DEF Types
  <2>2. {b \in Clients : conn'[b] = c} = {a}
    BY <2>1
  <2>3. ASSUME NEW d \in Connections \ {c}
        PROVE  {b \in Clients : conn'[b] = d} = {b \in Clients : conn[b] = d}
    BY <2>1, NoneAssumption
  <2> QED BY Zenon, <2>2, <2>3 DEF Holders
<1>2. Holders[c] = {} /\ \A d \in Connections : a \notin Holders[d]
  BY NoneAssumption DEF Holders
<1> QED BY <1>1, <1>2 DEF Lease!Lease, Lease!Free, Holders

(* A client gives up the connection that only it held.                     *)
LEMMA ReturnStep ==
    ASSUME Types, OneUser, NEW a \in Clients, conn[a] # None, conn' = [conn EXCEPT ![a] = None]
    PROVE  conn[a] \in Connections /\ Lease!Return(conn[a])
<1>1. conn[a] \in Connections
  BY DEF Types, Sessions
<1>2. \A b \in Clients : conn'[b] = IF b = a THEN None ELSE conn[b]
  BY DEF Types
<1>3. \A b \in Clients : conn[b] = conn[a] => b = a
  BY DEF OneUser
<1>4. Holders' = [Holders EXCEPT ![conn[a]] = {}]
  <2>1. {b \in Clients : conn'[b] = conn[a]} = {}
    BY <1>1, <1>2, <1>3, NoneAssumption
  <2>2. ASSUME NEW d \in Connections \ {conn[a]}
        PROVE  {b \in Clients : conn'[b] = d} = {b \in Clients : conn[b] = d}
    BY <1>2, NoneAssumption
  <2> DEFINE x == conn[a]
  <2> HIDE DEF x
  <2>3. \A d \in Connections : Holders'[d] = IF d = x THEN {} ELSE Holders[d]
    BY <2>1, <2>2 DEF Holders, x
  <2>4. Holders' = [Holders EXCEPT ![x] = {}]
    BY Zenon, <2>3 DEF Holders
  <2> QED BY <2>4 DEF x
<1>5. Holders[conn[a]] # {}
  BY Zenon, <1>1 DEF Holders
<1> QED BY <1>1, <1>4, <1>5 DEF Lease!Return, Holders

(* It gives it up, and a client that waits gets this or another free one.  *)
LEMMA HandoverStep ==
    ASSUME Types, OneUser, NEW a \in Clients, NEW b \in Clients, NEW n \in Connections, a # b,
           conn[a] # None, conn[b] = None, \A d \in Clients \ {a} : conn[d] # n,
           conn' = [conn EXCEPT ![a] = None, ![b] = n]
    PROVE  conn[a] \in Connections /\ Lease!Handover(conn[a], n, b)
<1> DEFINE returned == [Holders EXCEPT ![conn[a]] = {}]
<1>1. conn[a] \in Connections
  BY DEF Types, Sessions
<1>2. \A d \in Clients : conn'[d] = IF d = b THEN n ELSE IF d = a THEN None ELSE conn[d]
  BY DEF Types
<1>3. \A d \in Clients : conn[d] = conn[a] => d = a
  BY DEF OneUser
<1>4. returned = [c \in Connections |-> {d \in Clients \ {a} : conn[d] = c}]
  BY Zenon, <1>1, <1>3 DEF Holders
<1>5. returned[n] = {} /\ \A c \in Connections : b \notin returned[c]
  BY <1>4, NoneAssumption
<1>6. Holders' = [returned EXCEPT ![n] = {b}]
  <2>1. {d \in Clients : conn'[d] = n} = {b}
    BY Zenon, <1>2, NoneAssumption
  <2>2. ASSUME NEW c \in Connections \ {n}
        PROVE  {d \in Clients : conn'[d] = c} = {d \in Clients \ {a} : conn[d] = c}
    <3>1. \A d \in Clients : conn'[d] = c <=> d # a /\ conn[d] = c
      BY Zenon, <1>2, NoneAssumption
    <3> QED BY Zenon, <3>1
  <2> DEFINE others == [c \in Connections |-> {d \in Clients \ {a} : conn[d] = c}]
  <2>3. \A c \in Connections : Holders'[c] = IF c = n THEN {b} ELSE others[c]
    BY Zenon, <2>1, <2>2 DEF Holders
  <2> HIDE DEF others
  <2>4. DOMAIN others = Connections /\ DOMAIN Holders' = Connections
    BY DEF others, Holders
  <2>5. Holders' = [others EXCEPT ![n] = {b}]
    BY Zenon, <2>3, <2>4 DEF Holders, others
  <2> QED BY Zenon, <1>4, <2>5 DEF others
<1>7. Holders[conn[a]] # {} /\ b \notin Holders[conn[a]]
  BY <1>1, NoneAssumption DEF Holders
<1> QED BY <1>1, <1>5, <1>6, <1>7 DEF Lease!Handover, Lease!Free, Holders

(* Every step of the cluster is a step of Leases or moves no connection.   *)
LEMMA LeaseNext ==
    ASSUME Inv, [Next]_vars PROVE Lease!Next \/ UNCHANGED Holders
<1> USE DEF Inv
<1>1. ASSUME NEW a \in Clients, query(a) PROVE Lease!Next \/ UNCHANGED Holders
  <2>1. PICK k, s, c : /\ c \in try_acquire_connection(idle, s, k)
                       /\ \/ c # None /\ conn' = [conn EXCEPT ![a] = c]
                          \/ UNCHANGED conn
    BY <1>1 DEF query, acquire_connection
  <2>2. CASE c # None /\ conn' = [conn EXCEPT ![a] = c]
    <3>1. c \in idle /\ c \in Connections
      BY <2>1, <2>2, Acquired DEF Types
    <3>2. conn[a] = None
      BY Zenon, <1>1 DEF query, Holding, Types, Using
    <3>3. \A b \in Clients : conn[b] # c
      BY <3>1, NoneAssumption DEF OneUser
    <3> QED BY Zenon, <2>2, <3>1, <3>2, <3>3, LeaseStep DEF Lease!Next
  <2> QED BY <2>1, <2>2 DEF Holders
<1>2. ASSUME NEW a \in Clients, prepare(a) PROVE Lease!Next \/ UNCHANGED Holders
  <2>1. CASE UNCHANGED conn
    BY <2>1 DEF Holders
  <2>2. CASE conn' = [conn EXCEPT ![a] = None]
    <3>1. conn[a] # None
      BY <1>2 DEF prepare, Holding, Using
    <3> QED BY Zenon, <2>2, <3>1, ReturnStep DEF Lease!Next
  <2> QED BY <1>2, <2>1, <2>2 DEF prepare
<1>3. ASSUME NEW a \in Clients, release_connection(a) PROVE Lease!Next \/ UNCHANGED Holders
  <2> DEFINE c == conn[a]
             q == NextQueue(c)
             b == Head(queues[q])
  <2>1. conn[a] # None
    BY <1>3 DEF release_connection, Holding, Using
  <2>2. CASE conn' = [conn EXCEPT ![a] = None]
    BY Zenon, <2>1, <2>2, ReturnStep DEF Lease!Next
  <2>3. CASE /\ queues[q] # <<>>
             /\ \E n \in try_acquire_connection(idle \cup {c}, session[b], kind[b]) :
                   n # None /\ conn' = [conn EXCEPT ![a] = None, ![b] = n]
    <3>1. PICK n \in try_acquire_connection(idle \cup {c}, session[b], kind[b]) :
                   n # None /\ conn' = [conn EXCEPT ![a] = None, ![b] = n]
      BY Zenon, <2>3
    <3>2. c \in Connections /\ q \in Sessions
      BY <2>1 DEF Types, Sessions, NextQueue
    <3>3. b = queues[q][1] /\ 1 \in 1..Len(queues[q]) /\ queues[q][1] \in Clients
      BY <2>3, <3>2 DEF Types
    <3>4. b \in Clients /\ at[b] = "queued"
      BY <3>2, <3>3 DEF Queued
    <3>5. a # b /\ conn[b] = None
      BY Zenon, <1>3, <3>4 DEF release_connection, Holding, Types, Using
    <3>6. idle \cup {c} \in SUBSET Connections
      BY <3>2 DEF Types
    <3>7. n \in idle \cup {c}
      BY <3>1, <3>6, Acquired
    <3>8. \A d \in Clients \ {a} : conn[d] # n
      BY <2>1, <3>2, <3>6, <3>7, NoneAssumption DEF OneUser
    <3>9. n \in Connections
      BY <3>6, <3>7
    <3> HIDE DEF b
    <3>10. Lease!Handover(conn[a], n, b)
      BY Zenon, <2>1, <3>1, <3>4, <3>5, <3>8, <3>9, HandoverStep
    <3> QED BY <3>2, <3>4, <3>9, <3>10 DEF Lease!Next
  <2> QED BY Zenon, <1>3, <2>2, <2>3 DEF release_connection
<1>4. CASE UNCHANGED conn
  BY <1>4 DEF Holders
<1> QED BY <1>1, <1>2, <1>3, <1>4 DEF Next, execute, disconnect, Waits, vars

(* sqlite::cluster implements Leases: for any number of connections and    *)
(* clients, with failures and a disconnect, connections are lent, returned *)
(* and passed on one at a time, and never shared.                          *)
THEOREM ClusterLeases == Spec => ImplementsLeases
<1>1. Init => Lease!Init
  BY NoneAssumption DEF Init, Lease!Init, Holders
<1>2. Inv /\ [Next]_vars => [Lease!Next]_Holders
  BY LeaseNext
<1> QED BY <1>1, <1>2, InvInit, InvNext, PTL DEF Spec, ImplementsLeases, Lease!Spec
=============================================================================
