---------------------------- MODULE MCDatabase -----------------------------
(* The clusters of sqlite, postgresql and mongo and the templates of        *)
(* queries for TLC. One of them runs in a behaviour.                        *)
EXTENDS SqliteCluster, Integers

VARIABLES
    part,  \* the component that runs in this behaviour
    s1, s2, s3, s4, s5, s6, s7, s8, s9, s10, s11, s12, s13, s14, s15, s16, s17, s18, s19
        \* its state

MongoApi ==
    {"rename", "rename_with_options", "rename_with_remove",
     "rename_with_options_and_remove", "remove", "remove_index", "remove_many",
     "remove_one", "replace_one", "insert_one", "insert_many", "update_many", "update_one",
     "find_and_modify", "count_documents", "count_documents_estimated",
     "find_indexes", "find_many", "find_one", "aggregate", "remove_all_users",
     "remove_user", "database_remove", "remove_with_options", "add_user",
     "has_collection", "find_collections", "create_collection", "watcher_next",
     "watcher_error", "find_databases", "cursor_next", "execute_with_reply", "execute"}

MongoCommands ==
    {"aggregate", "find", "find_many", "update", "update_many", "insert", "insert_many",
     "find_update", "replace", "remove", "remove_many"}

\* Templates, query texts and arguments.
SeqsTo(S, n) == UNION {[1..k -> S] : k \in 0..n}

Str(x) == [type |-> "string", text |-> x, items |-> <<>>]

Num(x) == [type |-> "number", text |-> x, items |-> <<>>]

Op(x) == [type |-> "op", text |-> x, items |-> <<>>]

List(s) == [type |-> "array", text |-> "", items |-> s]

Obj(s) == [type |-> "object", text |-> "", items |-> s]

Bin == [type |-> "binary", text |-> "b", items |-> <<>>]

Nil == [type |-> "null", text |-> "", items |-> <<>>]

QueryTexts == SeqsTo({"w", "s", "-", "$a", "@b", "#c", "#d"}, 3) \cup SeqsTo({"$b", "@a"}, 4)

Emplaced == SeqsTo({"w", "?", "$", "\\"}, 3) \cup SeqsTo({"?", "$"}, 4)

Given == {<<>>, <<Num("1")>>, <<Str("?"), Num("-1")>>, <<List(<<Num("1"), Str("x")>>), Bin>>,
          <<Nil, Str("?"), Num("1"), Str("y")>>}

Conditions == SeqsTo({Op("="), Op("("), Str("x"), Num("1")}, 3)

Updates == SeqsTo({Num("1"), Str("?"), Obj(<<>>), Obj(<<Num("1"), Str("x")>>)}, 3)

\* What the clients of postgresql do.
Three == [a |-> {"transaction", "plain"}, b |-> {"transaction", "plain"}, x |-> {"read"}]

Both == [a |-> {"transaction", "plain"}, b |-> {"transaction", "plain"}]

Mixed == [a |-> {"transaction"}, b |-> {"plain"}]

Listener == [a |-> {"listen"}, b |-> {"plain"}]

Readers == [a |-> {"transaction", "read"}, b |-> {"plain", "read"}]

One == INSTANCE SqliteCluster WITH
    Connections <- {"c"}, Clients <- {"a", "b", "x"}, TxClients <- {"a", "b"},
    MaxStatements <- 2,
    idle <- s1, busy <- s2, tx <- s3, queues <- s4, kind <- s5, session <- s6, at <- s7,
    conn <- s8, left <- s9, begun <- s10, closed <- s11, missed <- s12

Two == INSTANCE SqliteCluster WITH
    Connections <- {"c", "d"}, Clients <- {"a", "b", "x"}, TxClients <- {"a"},
    MaxStatements <- 1,
    idle <- s1, busy <- s2, tx <- s3, queues <- s4, kind <- s5, session <- s6, at <- s7,
    conn <- s8, left <- s9, begun <- s10, closed <- s11, missed <- s12

Session == INSTANCE PqCluster WITH
    Connections <- {"c"}, Clients <- {"a", "b", "x"}, Scripts <- Three,
    MaxLosses <- 0, Disconnects <- FALSE, queue <- s1, pool <- s2,
    current <- s3, lost <- s4, tx <- s5, server <- s6, at <- s7, registered <- s8,
    writing <- s9, listens <- s10, deferred <- s11, kind <- s12, session <- s13,
    executor <- s14, step <- s15, losses <- s16, cached <- s17, hears <- s18, faults <- s19

Apart == INSTANCE PqCluster WITH
    Connections <- {"c", "d"}, Clients <- {"a", "b"}, Scripts <- Both,
    MaxLosses <- 0, Disconnects <- FALSE, queue <- s1, pool <- s2,
    current <- s3, lost <- s4, tx <- s5, server <- s6, at <- s7, registered <- s8,
    writing <- s9, listens <- s10, deferred <- s11, kind <- s12, session <- s13,
    executor <- s14, step <- s15, losses <- s16, cached <- s17, hears <- s18, faults <- s19

Losses == INSTANCE PqCluster WITH
    Connections <- {"c", "d"}, Clients <- {"a", "b"}, Scripts <- Mixed,
    MaxLosses <- 2, Disconnects <- FALSE, queue <- s1, pool <- s2,
    current <- s3, lost <- s4, tx <- s5, server <- s6, at <- s7, registered <- s8,
    writing <- s9, listens <- s10, deferred <- s11, kind <- s12, session <- s13,
    executor <- s14, step <- s15, losses <- s16, cached <- s17, hears <- s18, faults <- s19

Listens == INSTANCE PqCluster WITH
    Connections <- {"c", "d"}, Clients <- {"a", "b"}, Scripts <- Listener,
    MaxLosses <- 2, Disconnects <- FALSE, queue <- s1, pool <- s2,
    current <- s3, lost <- s4, tx <- s5, server <- s6, at <- s7, registered <- s8,
    writing <- s9, listens <- s10, deferred <- s11, kind <- s12, session <- s13,
    executor <- s14, step <- s15, losses <- s16, cached <- s17, hears <- s18, faults <- s19

Closes == INSTANCE PqCluster WITH
    Connections <- {"c", "d"}, Clients <- {"a", "b"}, Scripts <- Readers,
    MaxLosses <- 1, Disconnects <- TRUE, queue <- s1, pool <- s2,
    current <- s3, lost <- s4, tx <- s5, server <- s6, at <- s7, registered <- s8,
    writing <- s9, listens <- s10, deferred <- s11, kind <- s12, session <- s13,
    executor <- s14, step <- s15, losses <- s16, cached <- s17, hears <- s18, faults <- s19

Mongo == INSTANCE MongoCalls WITH
    Scheduled <- TRUE, Entries <- {"await", "query", "session", "transaction"},
    Calls <- MongoApi, Commands <- MongoCommands,
    entry <- s1, op <- s2, fields <- s3, docs <- s4, frees <- s5, session <- s6, task <- s7,
    reply <- s8, dangling <- s9, at <- s10

Inline == INSTANCE MongoCalls WITH
    Scheduled <- FALSE, Entries <- {"await", "query", "session", "transaction"},
    Calls <- MongoApi, Commands <- MongoCommands,
    entry <- s1, op <- s2, fields <- s3, docs <- s4, frees <- s5, session <- s6, task <- s7,
    reply <- s8, dangling <- s9, at <- s10

Template == INSTANCE QueryTemplates WITH
    Drivers <- {"pq", "sqlite", "mongo"}, Templates <- QueryTexts, Texts <- Emplaced,
    Wheres <- Conditions, Lists <- Updates, Arguments <- Given, driver <- s1, call <- s2,
    text <- s3, args <- s4, stored <- s5, at <- s6, offset <- s7, next <- s8, outcome <- s9

all == <<part, vars, s1, s2, s3, s4, s5, s6, s7, s8, s9, s10, s11, s12, s13, s14, s15, s16,
         s17, s18, s19>>

-----------------------------------------------------------------------------
\* The variables a component does not need.
Off13 == /\ s13 = "off" /\ s14 = "off" /\ s15 = "off" /\ s16 = "off" /\ s17 = "off"
         /\ s18 = "off" /\ s19 = "off"
Off11 == s11 = "off" /\ s12 = "off" /\ Off13
Off10 == s10 = "off" /\ Off11
Off1 == /\ s1 = "off" /\ s2 = "off" /\ s3 = "off" /\ s4 = "off" /\ s5 = "off" /\ s6 = "off"
        /\ s7 = "off" /\ s8 = "off" /\ s9 = "off" /\ Off10

MCInit ==
    /\ Init
    /\ \/ part = "sqlite" /\ Off1
       \/ part = "one" /\ One!Init /\ Off13
       \/ part = "two" /\ Two!Init /\ Off13
       \/ part = "session" /\ Session!Init
       \/ part = "apart" /\ Apart!Init
       \/ part = "loss" /\ Losses!Init
       \/ part = "listen" /\ Listens!Init
       \/ part = "disconnect" /\ Closes!Init
       \/ part = "await" /\ Mongo!Init /\ Off11
       \/ part = "inline" /\ Inline!Init /\ Off11
       \/ part = "template" /\ Template!Init /\ Off10

\* A step of a component.
rest13 == <<s13, s14, s15, s16, s17, s18, s19>>
rest11 == <<s11, s12, rest13>>
rest10 == <<s10, rest11>>

OfSqlite(A) == /\ part = "sqlite" /\ A
               /\ UNCHANGED <<part, s1, s2, s3, s4, s5, s6, s7, s8, s9, rest10>>
OfOne(A) == part = "one" /\ A /\ UNCHANGED <<part, vars, rest13>>
OfTwo(A) == part = "two" /\ A /\ UNCHANGED <<part, vars, rest13>>
OfSession(A) == part = "session" /\ A /\ UNCHANGED <<part, vars>>
OfApart(A) == part = "apart" /\ A /\ UNCHANGED <<part, vars>>
OfLosses(A) == part = "loss" /\ A /\ UNCHANGED <<part, vars>>
OfListens(A) == part = "listen" /\ A /\ UNCHANGED <<part, vars>>
OfCloses(A) == part = "disconnect" /\ A /\ UNCHANGED <<part, vars>>
OfMongo(A) == part = "await" /\ A /\ UNCHANGED <<part, vars, rest11>>
OfInline(A) == part = "inline" /\ A /\ UNCHANGED <<part, vars, rest11>>
OfTemplate(A) == part = "template" /\ A /\ UNCHANGED <<part, vars, rest10>>

MCNext ==
    \/ OfSqlite(Next)
    \/ OfOne(One!Next)
    \/ OfTwo(Two!Next)
    \/ OfSession(Session!Next)
    \/ OfApart(Apart!Next)
    \/ OfLosses(Losses!Next)
    \/ OfListens(Listens!Next)
    \/ OfCloses(Closes!Next)
    \/ OfMongo(Mongo!Next)
    \/ OfInline(Inline!Next)
    \/ OfTemplate(Template!Next)

(* Clients go on, statements end, the server answers, sockets become       *)
(* ready, deferred tasks run, and a lost connection is replaced at last.   *)
Fair ==
    /\ \A a \in {"a", "b", "x", "sys"} :
        WF_all(\/ OfOne(a # "sys" /\ One!Moves(a)) \/ OfTwo(a # "sys" /\ Two!Moves(a))
               \/ OfSession(Session!AskerSteps(a))
               \/ OfLosses(a # "x" /\ Losses!AskerSteps(a))
               \/ OfListens(a # "x" /\ Listens!AskerSteps(a)))
    /\ \A c \in {"c", "d"} :
        /\ WF_all(OfSession(c = "c" /\ Session!Answer(c)) \/ OfLosses(Losses!Answer(c)) \/ OfListens(Listens!Answer(c)))
        /\ WF_all(\/ OfSession(c = "c" /\ Session!Dispatches(c)) \/ OfLosses(Losses!Dispatches(c))
                  \/ OfListens(Listens!Dispatches(c)))
    /\ WF_all(OfMongo(Mongo!Next) \/ OfInline(Inline!Next))

MCSpec == MCInit /\ [][MCNext]_all /\ Fair

-----------------------------------------------------------------------------
(* Sqlite: one command at a time on a connection, no transaction begun in  *)
(* another, and COMMIT ends the transaction of the client that asked for   *)
(* it, with one connection or one transaction at a time and as long as no  *)
(* BEGIN or COMMIT of a locked database was taken for done.  Postgresql: a *)
(* request that waits is in exactly one place whatever is lost, sent or    *)
(* closed, but for those disconnect() drops while they execute; statements *)
(* of others stay out of a transaction while no connection is lost; and no *)
(* connection is given to a request before the last one is through.        *)
RequestsTracked ==
    /\ [](/\ part = "one" => One!ConnectionsExclusive /\ One!EndsItsOwn
          /\ part = "two" => Two!ConnectionsExclusive /\ Two!EndsItsOwn
          /\ part = "session" => Session!Isolated /\ Session!OnePlace
          /\ part = "apart" => Apart!Isolated /\ Apart!OnePlace
          /\ part = "loss" => Losses!OnePlace
          /\ part = "listen" => Listens!OnePlace
          /\ part = "disconnect" => Closes!OnePlace)
    /\ part = "loss" => Losses!Lease!Init
    /\ [][part = "loss" => [Losses!Lease!Next]_(Losses!Lent)]_all


Pending(a) ==
    \/ part = "one" /\ a # "sys" /\ One!Unanswered(a)
    \/ part = "two" /\ a # "sys" /\ Two!Unanswered(a)
    \/ part = "session" /\ Session!Unanswered(a)
    \/ part = "loss" /\ a # "x" /\ Losses!Unanswered(a)
    \/ part = "listen" /\ a # "x" /\ Listens!Unanswered(a)
    \/ part \in {"await", "inline"}

Over(a) ==
    \/ part = "one" /\ a # "sys" /\ One!Told(a)
    \/ part = "two" /\ a # "sys" /\ Two!Told(a)
    \/ part = "session" /\ Session!Answered(a)
    \/ part = "loss" /\ a # "x" /\ Losses!Answered(a)
    \/ part = "listen" /\ a # "x" /\ Listens!Answered(a)
    \/ part = "await" /\ Mongo!Ended
    \/ part = "inline" /\ Inline!Ended

Heard == part = "listen" /\ (Listens!Subscribed \/ Listens!Forgotten)

(* Every command of sqlite is answered, unless a connection was stranded:  *)
(* kept by a command that could not be prepared, left in a transaction by  *)
(* a failed COMMIT, or closed.  Every request to postgresql is answered,   *)
(* also when connections are lost, unless a send failed.  Every call of    *)
(* mongo returns.  A subscription survives the loss of its connection,     *)
(* unless the LISTEN that follows is lost too.                             *)
RequestsAnswered ==
    /\ \A a \in {"a", "b", "x", "sys"} : Pending(a) ~> Over(a)
    /\ (part = "listen" /\ Listens!Subscribed) ~> []<>Heard
=============================================================================
