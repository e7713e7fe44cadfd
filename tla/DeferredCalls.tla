--------------------------- MODULE DeferredCalls ---------------------------
(***************************************************************************)
(* The functions of the bindings that give a script a promise for a native *)
(* operation.  A function captures the calling context, may keep the       *)
(* object alive with add_ref, starts the operation and turns its outcome   *)
(* into a result: the promise is set, and a failure is thrown into the     *)
(* context.  The tables below give, for each function, how the native      *)
(* operation reports and what the function does with it; the machine runs  *)
(* one call to its end with every outcome the operation may have, while    *)
(* the script may drop its own handle of the object.                       *)
(***************************************************************************)
EXTENDS Naturals, FiniteSets, TLC

CONSTANT
    MaxChunks   \* data callbacks of one operation before its last

\* How a native operation reports, and what the wrapper makes of it:
\* "once"  a core::promise that is set once, with a value or an error
\* "sent"  a boolean for "started", and a callback exactly when it is TRUE
\* "chunks" a callback per chunk of data and one that ends them
Op(how, keep, error) == [how |-> how, keep |-> keep, error |-> error, refused |-> "none", chunk |-> "none"]
Thrown(names) == [n \in names |-> Op("once", FALSE, "throw")]

socket_deferred ==
    [n \in {"socket.accept", "socket.connect", "socket.close", "socket.write_file", "socket.write",
            "socket.read", "socket.read_until", "socket.read_until_chunked"} |-> Op("once", TRUE, "throw")]

dns_deferred == Thrown({"dns.reverse_lookup", "dns.reverse_address_lookup", "dns.lookup"})
socket_client_deferred == Thrown({"socket_client.connect_sync", "socket_client.connect_async", "socket_client.disconnect"})
client_deferred ==
    Thrown({"client.skip", "client.fetch", "client.upgrade", "client.send", "client.send_fetch",
            "client.json", "client.xml", "http.fetch"})
smtp_client_deferred == Thrown({"smtp_client.send"})
ldb_cluster_deferred ==
    Thrown({"ldb.tx_begin", "ldb.tx_start", "ldb.tx_end", "ldb.tx_commit", "ldb.tx_rollback", "ldb.connect",
            "ldb.disconnect", "ldb.flush", "ldb.query", "ldb.emplace_query", "ldb.template_query"})
pdb_cluster_deferred ==
    Thrown({"pdb.listen", "pdb.unlisten", "pdb.tx_begin", "pdb.tx_start", "pdb.tx_end", "pdb.tx_commit",
            "pdb.tx_rollback", "pdb.connect", "pdb.disconnect", "pdb.query", "pdb.emplace_query",
            "pdb.template_query"})
mdb_reader_deferred ==
    Thrown({"mdb_stream.execute_with_reply", "mdb_stream.execute", "mdb_cursor.next", "mdb_response.fetch",
            "mdb_response.fetch_all", "mdb_response.get_property"})
mdb_transaction_deferred ==
    Thrown({"mdb_tx.begin", "mdb_tx.rollback", "mdb_tx.remove_many", "mdb_tx.remove_one", "mdb_tx.replace_one",
            "mdb_tx.insert_many", "mdb_tx.insert_one", "mdb_tx.update_many", "mdb_tx.update_one",
            "mdb_tx.find_many", "mdb_tx.find_one", "mdb_tx.aggregate", "mdb_tx.template_query",
            "mdb_tx.query", "mdb_tx.commit"})
mdb_collection_change ==
    Thrown({"mdb_coll.rename", "mdb_coll.rename_with_options", "mdb_coll.rename_with_remove",
            "mdb_coll.rename_with_options_and_remove", "mdb_coll.remove", "mdb_coll.remove_index",
            "mdb_coll.remove_many", "mdb_coll.remove_one", "mdb_coll.replace_one", "mdb_coll.insert_many",
            "mdb_coll.insert_one", "mdb_coll.update_many", "mdb_coll.update_one"})
mdb_collection_find ==
    Thrown({"mdb_coll.find_and_modify", "mdb_coll.find_many", "mdb_coll.find_one", "mdb_coll.find_indexes",
            "mdb_coll.aggregate", "mdb_coll.template_query", "mdb_coll.query"})
\* has_collection gives a plain boolean: its failure is the answer
mdb_database_deferred ==
    Thrown({"mdb_db.remove_all_users", "mdb_db.remove_user", "mdb_db.remove", "mdb_db.remove_with_options",
            "mdb_db.add_user", "mdb_db.create_collection", "mdb_db.find_collections"})
    @@ ("mdb_db.has_collection" :> Op("once", FALSE, "false"))
mdb_watcher_deferred == Thrown({"mdb_watcher.next", "mdb_watcher.error"})
mdb_connection_deferred ==
    Thrown({"mdb_conn.connect", "mdb_conn.disconnect", "mdb_conn.make_transaction", "mdb_conn.find_databases",
            "mdb_cluster.connect", "mdb_cluster.disconnect"})

\* A web socket send that is refused throws, and nothing sets the promise;
\* its callback says nothing of a failure
web_socket_frame_send ==
    [n \in {"web_socket.send", "web_socket.send_close"} |->
        [Op("sent", FALSE, "true") EXCEPT !.refused = "throw"]]
\* Headers and chunks that are refused both throw and set the promise
connection_send ==
    [n \in {"connection.send_headers", "connection.send_chunk"} |->
        [Op("sent", FALSE, "throw") EXCEPT !.refused = "both"]]
\* Bodies: the last callback sets the promise, an error looks like the end
connection_receive ==
    "connection.skip" :> Op("once", FALSE, "true")
    @@ "connection.store" :> Op("chunks", FALSE, "true")
    @@ "connection.fetch" :> Op("chunks", FALSE, "true")
\* The synchronous reads keep the socket once and drop it in every callback
socket_read_until ==
    [n \in {"socket.read_until!", "socket.read_until_chunked!"} |->
        [Op("chunks", TRUE, "throw") EXCEPT !.chunk = "release"]]

Table ==
    socket_deferred @@ dns_deferred @@ socket_client_deferred @@ client_deferred @@ smtp_client_deferred
    @@ ldb_cluster_deferred @@ pdb_cluster_deferred @@ mdb_reader_deferred @@ mdb_transaction_deferred
    @@ mdb_collection_change @@ mdb_collection_find @@ mdb_database_deferred @@ mdb_watcher_deferred
    @@ mdb_connection_deferred @@ web_socket_frame_send @@ connection_send @@ connection_receive
    @@ socket_read_until

VARIABLES
    call,       \* the function that was called, "" before
    phase,      \* new, running, ended
    handle,     \* the script still holds its handle of the object
    refs,       \* the count of the object beyond the handle, counted from 1
    chunks,     \* data callbacks so far
    failed,     \* the native operation failed or was refused
    sets,       \* how often the promise was set
    throws      \* how often the context got an exception

vars == <<call, phase, handle, refs, chunks, failed, sets, throws>>

Init ==
    /\ call = "" /\ phase = "new" /\ handle = TRUE /\ refs = 1 /\ chunks = 0
    /\ failed = FALSE /\ sets = 0 /\ throws = 0

T == Table[call]

\* The wrapper up to the return of the native call
Start(c) ==
    /\ phase = "new"
    /\ call' = c
    /\ phase' = "running"
    /\ refs' = IF Table[c].keep THEN refs + 1 ELSE refs
    /\ UNCHANGED <<handle, chunks, failed, sets, throws>>

\* A send that does not start: its callback will not be called
Refuse(c) ==
    /\ phase = "new" /\ Table[c].how = "sent"
    /\ call' = c
    /\ phase' = "ended"
    /\ failed' = TRUE
    /\ throws' = throws + 1
    /\ sets' = IF Table[c].refused = "both" THEN sets + 1 ELSE sets
    /\ UNCHANGED <<handle, refs, chunks>>

\* The script lets go of the object while the operation runs
Drop ==
    /\ phase = "running" /\ handle
    /\ handle' = FALSE
    /\ UNCHANGED <<call, phase, refs, chunks, failed, sets, throws>>

Released == IF T.keep THEN refs - 1 ELSE refs

\* A callback with data
Chunk ==
    /\ phase = "running" /\ T.how = "chunks" /\ chunks < MaxChunks
    /\ chunks' = chunks + 1
    /\ refs' = IF T.chunk = "release" /\ refs > 0 THEN refs - 1 ELSE refs
    /\ UNCHANGED <<call, phase, handle, failed, sets, throws>>

\* The last report: the continuation releases the object, throws and sets
unwrap(ok) ==
    /\ phase = "running"
    /\ phase' = "ended"
    /\ failed' = ~ok
    /\ refs' = IF refs > 0 THEN Released ELSE refs
    /\ throws' = IF ~ok /\ T.error = "throw" THEN throws + 1 ELSE throws
    /\ sets' = sets + 1
    /\ UNCHANGED <<call, handle, chunks>>

Next ==
    \/ \E c \in DOMAIN Table : Start(c) \/ Refuse(c)
    \/ Drop \/ Chunk
    \/ \E ok \in BOOLEAN : unwrap(ok)
    \/ phase = "ended" /\ UNCHANGED vars

Spec == Init /\ [][Next]_vars

-----------------------------------------------------------------------------
(* A call counts its chunks, sets and exceptions within their ranges. *)
TypeOK ==
    /\ call \in {""} \union DOMAIN Table /\ phase \in {"new", "running", "ended"}
    /\ handle \in BOOLEAN /\ failed \in BOOLEAN
    /\ refs \in 0..2 /\ chunks \in 0..MaxChunks /\ sets \in 0..1 /\ throws \in 0..1

(* Whatever the native operation does, the promise the script waits for is *)
(* set once the operation is over.  Only a web socket that refuses to send *)
(* leaves the promise as it is, and throws (bindings.cpp 6759-6774).       *)
NoneForgotten ==
    (phase = "ended") => sets = 1 \/ (call \in DOMAIN web_socket_frame_send /\ failed /\ throws = 1)

(* The references a wrapper takes are the ones it gives back, also with    *)
(* several data callbacks; but the synchronous reads give theirs back in   *)
(* every callback (bindings.cpp 5597-5644), which is right for one that    *)
(* reports once.                                                           *)
Balanced ==
    (call \in DOMAIN socket_read_until => chunks = 0) =>
        /\ (phase = "ended") => refs = 1
        /\ (phase = "running") => refs >= 1

(* The outcomes that are told as a success or as an answer: a body that    *)
(* could not be read is skipped, stored or fetched as if it had ended      *)
(* (bindings.cpp 6798-6843), a web socket that started to send reports no  *)
(* failure (6759-6774), and has_collection answers no.                     *)
Unseen ==
    \/ call \in DOMAIN connection_receive \union {"mdb_db.has_collection"}
    \/ call \in DOMAIN web_socket_frame_send /\ sets = 1

(* Every other failing operation throws into the script, once, and none    *)
(* that succeeds does.                                                     *)
ErrorSeen ==
    (phase = "ended") => throws = (IF failed /\ ~Unseen THEN 1 ELSE 0)
=============================================================================
