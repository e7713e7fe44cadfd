----------------------------- MODULE MongoCalls -----------------------------
(***************************************************************************)
(* The asynchronous operations of mongo::collection, database, connection, *)
(* cursor and stream.  Each one starts a task that captures the handle by  *)
(* value and the documents it was given by reference; core::cotask runs    *)
(* the task at once when there is no scheduler, and later otherwise.       *)
(* collection::query() takes the documents out of a command and passes     *)
(* them as temporaries; transaction adds its session to the options first. *)
(***************************************************************************)
EXTENDS Naturals, Sequences, FiniteSets

CONSTANTS
    Scheduled,   \* a scheduler is available: tasks run later
    Entries,     \* how operations are called: "await", "transaction", "query",
                 \* "session" (a query of a transaction)
    Calls,       \* the operations that are called directly
    Commands     \* the commands given to collection::query

VARIABLES
    entry, op,   \* the call
    fields,      \* fields still to be taken from the command
    docs,        \* document |-> "none", "held" (property), "passed", "freed"
    frees,       \* document |-> how often it was destroyed
    session,     \* the options carry the session
    task,        \* "none", "queued", "ran"
    reply,       \* the bson_t a task fills: "none", "init", "destroyed"
    dangling,    \* a task read a document that was destroyed
    at           \* "start", "fetch", "call", "returned", "done"
vars == <<entry, op, fields, docs, frees, session, task, reply, dangling, at>>

Documents == {"options", "match", "update", "value", "values", "list", "pipeline", "sort", "fields", "result"}

-----------------------------------------------------------------------------
\* The operations: what the task reads by reference, and what it gives back
Op(refs, gives) == [refs |-> refs, gives |-> gives]

rename == Op({}, "status")
rename_with_options == Op({"options"}, "status")
rename_with_remove == Op({}, "status")
rename_with_options_and_remove == Op({"options"}, "status")
remove == Op({"options"}, "status")
remove_index == Op({"options"}, "status")
remove_many == Op({"match", "options"}, "document")
remove_one == Op({"match", "options"}, "document")
replace_one == Op({"match", "value", "options"}, "document")
insert_many == Op({"list", "options"}, "document")
insert_one == Op({"value", "options"}, "document")
update_many == Op({"match", "update", "options"}, "document")
update_one == Op({"match", "update", "options"}, "document")
find_and_modify == Op({"match", "sort", "update", "fields"}, "document")
count_documents == Op({"match", "options"}, "status")
count_documents_estimated == Op({"options"}, "status")
find_indexes == Op({"options"}, "cursor")
find_many == Op({"match", "options"}, "cursor")
find_one == Op({"match", "options"}, "cursor")
aggregate == Op({"pipeline", "options"}, "cursor")
remove_all_users == Op({}, "status")
remove_user == Op({}, "status")
database_remove == Op({}, "status")
remove_with_options == Op({"options"}, "status")
add_user == Op({"options", "fields"}, "status")
has_collection == Op({}, "status")
find_collections == Op({"options"}, "cursor")
create_collection == Op({"options"}, "status")
watcher_next == Op({"result"}, "status")
watcher_error == Op({"result"}, "status")
find_databases == Op({"options"}, "cursor")
cursor_next == Op({}, "status")
execute_with_reply == Op({}, "document")
execute == Op({}, "reply")

Operation ==
    [rename |-> rename, rename_with_options |-> rename_with_options,
     rename_with_remove |-> rename_with_remove,
     rename_with_options_and_remove |-> rename_with_options_and_remove,
     remove |-> remove, remove_index |-> remove_index, remove_many |-> remove_many,
     remove_one |-> remove_one, replace_one |-> replace_one, insert_many |-> insert_many,
     insert_one |-> insert_one, update_many |-> update_many, update_one |-> update_one,
     find_and_modify |-> find_and_modify, count_documents |-> count_documents,
     count_documents_estimated |-> count_documents_estimated, find_indexes |-> find_indexes,
     find_many |-> find_many, find_one |-> find_one, aggregate |-> aggregate,
     remove_all_users |-> remove_all_users, remove_user |-> remove_user,
     database_remove |-> database_remove, remove_with_options |-> remove_with_options,
     add_user |-> add_user, has_collection |-> has_collection,
     find_collections |-> find_collections, create_collection |-> create_collection,
     watcher_next |-> watcher_next, watcher_error |-> watcher_error,
     find_databases |-> find_databases, cursor_next |-> cursor_next,
     execute_with_reply |-> execute_with_reply, execute |-> execute]

\* collection::query: the fields a command must have, in the order they are
\* taken, and whether the session is put into its options
Command(needs, may, puts, o) == [needs |-> needs, may |-> may, puts |-> puts, op |-> o]

q_aggregate == Command(<<"pipeline">>, {"options"}, TRUE, "aggregate")
q_find == Command(<<"match">>, {"options"}, TRUE, "find_one")
q_find_many == Command(<<"match">>, {"options"}, TRUE, "find_many")
q_update == Command(<<"match", "update">>, {"options"}, TRUE, "update_one")
q_update_many == Command(<<"match", "update">>, {"options"}, TRUE, "update_many")
q_insert == Command(<<"value">>, {"options"}, TRUE, "insert_one")
q_insert_many == Command(<<"values">>, {"options"}, TRUE, "insert_many")
q_find_update == Command(<<"match">>, {"sort", "update", "fields"}, FALSE, "find_and_modify")
q_replace == Command(<<"match", "value">>, {"options"}, TRUE, "replace_one")
q_remove == Command(<<"match">>, {"options"}, TRUE, "remove_one")
q_remove_many == Command(<<"match">>, {"options"}, TRUE, "remove_many")

Query ==
    [aggregate |-> q_aggregate, find |-> q_find, find_many |-> q_find_many, update |-> q_update,
     update_many |-> q_update_many, insert |-> q_insert, insert_many |-> q_insert_many,
     find_update |-> q_find_update, replace |-> q_replace, remove |-> q_remove,
     remove_many |-> q_remove_many]

InTransactions == {"remove_many", "remove_one", "replace_one", "insert_many", "insert_one",
    "update_many", "update_one", "find_many", "find_one", "aggregate"}

-----------------------------------------------------------------------------
Init ==
    /\ entry \in Entries
    /\ op \in (IF entry \in {"query", "session"} THEN Commands
               ELSE IF entry = "transaction" THEN InTransactions \cap Calls ELSE Calls)
    /\ fields = <<>> /\ docs = [d \in Documents |-> "none"] /\ frees = [d \in Documents |-> 0]
    /\ session = FALSE /\ task = "none" /\ reply = "none" /\ dangling = FALSE /\ at = "start"

Called == IF entry \in {"query", "session"} THEN Operation[Query[op].op] ELSE Operation[op]

Freed(S) ==
    /\ docs' = [d \in Documents |-> IF d \in S THEN "freed" ELSE docs[d]]
    /\ frees' = [d \in Documents |-> frees[d] + (IF d \in S THEN 1 ELSE 0)]

Having(s) == {d \in Documents : docs[d] = s}

\* A caller passes documents of its own, and awaits the promise
Call ==
    /\ at = "start" /\ entry = "await"
    /\ docs' = [d \in Documents |-> IF d \in Called.refs THEN "passed" ELSE docs[d]]
    /\ at' = "call"
    /\ UNCHANGED <<entry, op, fields, frees, session, task, reply, dangling>>

\* transaction: push(options) puts the session into them, or fails
push ==
    /\ at = "start" /\ entry = "transaction"
    /\ docs' = [d \in Documents |-> IF d \in Called.refs THEN "passed" ELSE docs[d]]
    /\ \/ session' = TRUE /\ at' = "call"
       \/ UNCHANGED session /\ at' = "returned"
    /\ UNCHANGED <<entry, op, fields, frees, task, reply, dangling>>

\* query: the options are taken first, then put() appends the session: it
\* creates them when the command has none
Puts == entry = "session" /\ Query[op].puts

put(has) == IF Puts THEN has \cup {"options"} ELSE has

query ==
    /\ at = "start" /\ entry \in {"query", "session"}
    /\ \E has \in SUBSET (Query[op].may \cap {"options"}) :
          \/ /\ docs' = [d \in Documents |-> IF d \in put(has) THEN "held" ELSE docs[d]]
             /\ session' = Puts
             /\ fields' = Query[op].needs /\ at' = "fetch" /\ UNCHANGED frees
          \/ /\ Puts /\ Freed(put(has)) /\ at' = "returned"
             /\ UNCHANGED <<session, fields>>
    /\ UNCHANGED <<entry, op, task, reply, dangling>>

\* get_property: a field that is missing or has another type ends the query
get_property ==
    /\ at = "fetch" /\ fields # <<>>
    /\ \/ /\ docs' = [docs EXCEPT ![Head(fields)] = "held"]
          /\ fields' = Tail(fields) /\ UNCHANGED <<at, frees>>
       \/ /\ at' = "returned" /\ Freed(Having("held")) /\ UNCHANGED fields
    /\ UNCHANGED <<entry, op, session, task, reply, dangling>>

\* insert-many: as_document() is a temporary over the property's own array;
\* its elements go to the list
as_document ==
    /\ at = "fetch" /\ fields = <<>> /\ docs["values"] = "held"
    /\ docs' = [docs EXCEPT !["values"] = "freed", !["list"] = "held"]
    /\ frees' = [frees EXCEPT !["values"] = @ + 2]   \* and by the property
    /\ UNCHANGED <<entry, op, fields, session, task, reply, dangling, at>>

\* The fields that may be missing; reset(): the properties give their
\* documents to the temporaries
reset ==
    /\ at = "fetch" /\ fields = <<>> /\ docs["values"] # "held" /\ at' = "call"
    /\ \E has \in SUBSET (Query[op].may \ {"options"}) :
          docs' = [d \in Documents |-> IF docs[d] = "held" \/ d \in has THEN "passed" ELSE docs[d]]
    /\ UNCHANGED <<entry, op, fields, frees, session, task, reply, dangling>>

\* What a task does when it runs: it reads what it captured
Run ==
    /\ task' = "ran"
    /\ dangling' = (dangling \/ \E d \in Called.refs : docs[d] = "freed")
    /\ reply' = IF Called.gives \in {"document", "reply"} THEN "init" ELSE "none"

\* cotask; the list that insert_many took is a local of it
cotask ==
    /\ at = "call" /\ task = "none"
    /\ IF Scheduled THEN task' = "queued" /\ UNCHANGED <<dangling, reply>> ELSE Run
    /\ at' = "called" /\ Freed(Having("passed") \cap {"list"})
    /\ UNCHANGED <<entry, op, fields, session>>

Task ==
    /\ task = "queued" /\ Run
    /\ UNCHANGED <<entry, op, fields, docs, frees, session, at>>

\* The result steals the bytes of the reply, if the call succeeded; the reply
\* is destroyed in every case
from_source ==
    /\ task = "ran" /\ reply = "init"
    /\ reply' = "destroyed"
    /\ UNCHANGED <<entry, op, fields, docs, frees, session, task, dangling, at>>

\* The end of the statement that called: query() and a transaction's caller
\* return the promise, others have awaited it
Awaits == entry \in {"await", "transaction"} => task = "ran" /\ reply # "init"

Return ==
    /\ at = "called" /\ Awaits
    /\ Freed(Having("passed")) /\ at' = "returned"
    /\ UNCHANGED <<entry, op, fields, session, task, reply, dangling>>

\* A push() that failed: the caller's documents end with its statement
Refused ==
    /\ at = "returned" /\ Having("passed") # {} /\ Freed(Having("passed"))
    /\ UNCHANGED <<entry, op, fields, session, task, reply, dangling, at>>

Waits == at \in {"called", "returned"} /\ UNCHANGED vars

Next == Call \/ push \/ query \/ get_property \/ as_document \/ reset \/ cotask \/ Task \/ from_source
        \/ Return \/ Refused \/ Waits

Spec == Init /\ [][Next]_vars /\ WF_vars(Next)

-----------------------------------------------------------------------------
\* Who keeps the documents until the task has run: without a scheduler the
\* statement that called; otherwise only a caller that awaits. insert_many
\* moves the list to a local, and query() passes temporaries.
Kept == ~Scheduled \/ (entry \in {"await", "transaction"} /\ op # "insert_many")

(* A task reads by reference only documents that still exist, whenever     *)
(* they are kept for it.  Two operations do not see to it with a           *)
(* scheduler: insert_many, whose task captures a local array (mongo.cpp    *)
(* 2168-2171), and query(), which returns before its task runs.            *)
AliveWhenUsed == Kept => ~dangling

(* Every document taken from a command or created for the session is       *)
(* destroyed exactly once, whichever field is missing; but the values of   *)
(* insert-many, which as_document() and the property both own.             *)
FreedOnce ==
    /\ \A d \in Documents \ {"values"} : frees[d] <= 1
    /\ (at = "returned" /\ entry \in {"query", "session"}) => \A d \in Documents : docs[d] \in {"none", "freed"}

(* Every operation of a transaction carries its session, but find-update,  *)
(* which has no options.                                                   *)
SessionCarried == (task = "ran" /\ entry \in {"transaction", "session"} /\ op # "find_update") => session

(* The call ends: its task ran and its reply was destroyed.                *)
Ended == at = "returned" /\ task \in {"none", "ran"} /\ reply # "init"
=============================================================================
