----------------------------- MODULE HttpServer -----------------------------
(***************************************************************************)
(* What http::server does with one request: from on_request_open to        *)
(* socket_server::finalize.  A handler is the set of its paths: every path *)
(* is the sequence of what the code does that others can see, ending with  *)
(* the handler it calls or the read or write it leaves to the network; the *)
(* callbacks are sets of paths by event.  What a path depends on (the      *)
(* file system, the route, the headers) is the choice of the path.         *)
(*                                                                         *)
(*   hrm+ hrm-    a string is taken from and given back to hrm_cache       *)
(*   file+ file-  fopen, fclose     z+ z-  a z_stream                      *)
(*   head, end    the head and the last chunk of a response are written    *)
(*   seek         a PUT is refused and its file stays open                 *)
(*   put, rest    a body in chunks ends and nobody is told                 *)
(*   twice        the last chunk, with the end, was written at once        *)
(***************************************************************************)
EXTENDS Naturals, Sequences

CONSTANTS
    MaxRedirects,   \* HTTP_MAX_REDIRECTS
    MaxChunks       \* chunks of a file

\* on_request_open: the head has been read, or is too large or malformed
on_request_open == {<<"abort_e">>, <<"construct_route">>}

\* paths::construct_route and the redirect loop around it
construct_route == {<<"abort_e">>, <<"redirect">>, <<"dispatch">>}

\* method_allowed, authorize, the callbacks of the route, routing::route_*
authorize == {<<"abort_e">>}
dispatch ==
    {<<"abort_e">>, <<"user">>} \cup authorize
    \cup {<<m>> : m \in {"route_get", "route_post", "route_put", "route_patch", "route_delete", "route_options"}}

route_web_socket == {<<"abort_e">>, <<"process_web_socket">>, <<"read:key">>}
route_get ==
    {<<"abort_e">>, <<"route_web_socket">>, <<"process_directory">>, <<"process_resource_cache">>, <<"process_resource">>}
route_post == {<<"abort_e">>, <<"process_resource_cache">>, <<"process_resource">>}
route_put(directory) ==
    {<<"abort_e">>}
    \cup (IF ~directory THEN {<<"deny_directory", "abort_e">>}
          ELSE {<<"file+", "fetch">>, <<"file+", "seek", "abort_e">>})
route_patch == {<<"abort_e">>, <<"hrm+", "head", "write:head">>}
route_delete == {<<"abort_e">>, <<"hrm+", "head", "write:head">>}
route_options == {<<"hrm+", "head", "write:head">>}

process_directory == {<<"abort_e">>, <<"hrm+", "head", "write:listing">>}
process_resource ==
    {<<"process_resource_compress">>, <<"hrm+", "head", "write:resource">>, <<"hrm+", "head", "write:head">>}
process_resource_compress == {<<"hrm+", "head", "write:compressed">>, <<"hrm+", "head", "write:head">>}
process_resource_cache == {<<"hrm+", "head", "write:head">>}
process_file == {<<"write:page">>, <<"abort_e">>, <<"file+", "write:file">>, <<"file+", "process_file_stream">>}

process_file_stream == {<<"file-", "abort_e">>, <<"process_file_chunk">>}

process_file_chunk(left) ==
    {<<"file-", "abort">>, <<"file-", "next">>} \cup (IF left > 0 THEN {<<"chunk", "write:chunk">>} ELSE {})

process_file_compress ==
    {<<"write:page">>, <<"abort_e">>, <<"file+", "file-", "abort_e">>, <<"file+", "z+", "file-", "z-", "abort">>,
     <<"file+", "z+", "process_file_compress_chunk">>}

\* the last chunk of the file carries the end of the response
process_file_compress_chunk(left) ==
    {<<"file-", "z-", "abort">>, <<"file-", "z-", "end", "write:page">>}
    \cup (IF left = 0 THEN {} ELSE {<<"chunk">> \o (IF left = 1 THEN <<"end">> ELSE <<>>) \o <<"write:zchunk">>})
process_web_socket == {<<"abort_e">>, <<"hrm+", "head", "write:upgrade">>}

\* connection::fetch, for a PUT: at once, or as the body arrives
fetch == {<<"put_done">>, <<"put_error">>, <<"read:body">>, <<"read:chunks">>}
put_done == {<<"hrm+", "file-", "head", "write:head">>}
put_error == {<<"file-", "abort">>}

\* A user callback: next, abort, or a response sent in pieces
user == {<<"next_ok">>, <<"abort_e">>, <<"abort">>, <<"hrm+", "head", "write:headers">>}
send_chunk(left) == {<<"next">>} \cup (IF left > 0 THEN {<<"chunk", "write:sent">>} ELSE {})

\* compose_response; too many ranges start it again with 413
compose_response == {<<"hrm+", "head", "write:composed">>, <<"hrm+", "hrm-", "hrm+", "head", "write:composed">>}

\* socket_server::next and server::on_request_cleanup: the rest of the body
\* is skipped unless the connection is closed
root_next == {<<"finalize">>, <<"skip">>}
skip == {<<"finalize">>, <<"store">>, <<"read:skip">>, <<"read:rest">>}

store == {<<"finalize">>, <<"read:store">>}

Handler(name, left, directory) ==
    CASE name = "construct_route" -> construct_route
      [] name = "dispatch" -> dispatch
      [] name = "route_web_socket" -> route_web_socket
      [] name = "route_get" -> route_get
      [] name = "route_post" -> route_post
      [] name = "route_put" -> route_put(directory)
      [] name = "route_patch" -> route_patch
      [] name = "route_delete" -> route_delete
      [] name = "route_options" -> route_options
      [] name = "process_directory" -> process_directory
      [] name = "process_resource" -> process_resource
      [] name = "process_resource_compress" -> process_resource_compress
      [] name = "process_resource_cache" -> process_resource_cache
      [] name = "process_file" -> process_file
      [] name = "process_file_stream" -> process_file_stream
      [] name = "process_file_chunk" -> process_file_chunk(left)
      [] name = "process_file_compress" -> process_file_compress
      [] name = "process_file_compress_chunk" -> process_file_compress_chunk(left)
      [] name = "process_web_socket" -> process_web_socket
      [] name = "fetch" -> fetch
      [] name = "put_done" -> put_done
      [] name = "put_error" -> put_error
      [] name = "user" -> user
      [] name = "send_chunk" -> send_chunk(left)
      [] name = "compose_response" -> compose_response
      [] name = "root_next" -> root_next
      [] name = "skip" -> skip
      [] name = "store" -> store
      [] OTHER -> {}

\* The callbacks.  "sync" is a write that completed inside the call: only
\* the chunked senders tell it from "done".  On "skip" (the wait was
\* cancelled) they only give back what they hold.
On(done, error, cancel) == [done |-> done, sync |-> done, error |-> error, skip |-> cancel]
Simple(then) == On({then}, {<<"abort">>}, {<<>>})
WithHead(then) == On({<<"hrm-">> \o t : t \in then}, {<<"hrm-", "abort">>}, {<<"hrm-">>})
Chunk(free, then, again) ==
    [On({then}, {free \o <<"abort">>}, {free}) EXCEPT !.sync = {again}]
Callback(name, left) ==
    CASE name = "read:key" -> Simple(<<"process_web_socket">>)
      [] name = "read:head" -> On(on_request_open, {<<"abort">>}, {<<>>})
      [] name = "read:body" -> On({<<"put_done">>}, {<<"put_error">>}, {<<"file-">>})
      [] name = "read:chunks" -> On({<<"put_done">>, <<"put">>}, {<<"put_error">>}, {<<"file-">>})
      [] name = "read:rest" -> On({<<"finalize">>, <<"rest">>}, {<<"finalize">>}, {<<"finalize">>})
      [] name = "read:skip" -> On({<<"finalize">>}, {<<"finalize">>}, {<<"finalize">>})
      [] name = "read:store" -> On({<<"finalize">>}, {<<"finalize">>}, {<<"finalize">>})
      [] name = "write:head" -> WithHead({<<"next_ok">>})
      [] name = "write:listing" -> WithHead({<<"next_ok">>, <<"write:page">>})
      [] name = "write:resource" -> WithHead({<<"process_file">>})
      [] name = "write:compressed" -> WithHead({<<"process_file_compress">>})
      [] name = "write:upgrade" -> WithHead({<<"websocket">>})
      [] name = "write:page" -> Simple(<<"next_ok">>)
      [] name = "write:file" -> On({<<"file-", "next_ok">>}, {<<"process_file_stream">>}, {<<"file-">>})
      [] name = "write:chunk" -> Chunk(<<"file-">>, <<"process_file_chunk">>, <<"process_file_chunk">>)
      [] name = "write:zchunk" ->
            Chunk(<<"file-", "z-">>,
                  IF left > 0 THEN <<"process_file_compress_chunk">> ELSE <<"file-", "z-", "next">>,
                  (IF left > 0 THEN <<>> ELSE <<"twice">>) \o <<"process_file_compress_chunk">>)
      [] name = "write:headers" -> WithHead({<<"send_chunk">>})
      [] name = "write:sent" -> Simple(<<"send_chunk">>)
      [] name = "write:composed" ->
            On({<<"hrm-", "write:body">>, <<"hrm-", "root_next">>}, {<<"hrm-", "root_next">>}, {<<"hrm-", "root_next">>})
      [] OTHER -> On({<<"root_next">>}, {<<"root_next">>}, {<<"root_next">>})

-----------------------------------------------------------------------------
VARIABLES
    todo,       \* what is left of the path
    waits,      \* the read or write the network has to answer
    held,       \* hrm strings, files, z_streams
    heads, ends,
    status,     \* response.status_code: "none", "ok" or "error"
    error,      \* response.error
    outcome,    \* something was written: stream->outcome > 0
    left, redirects,
    directory,  \* resource.is_directory of what the request names
    finalized, cancelled,
    faults      \* "seek", "put", "rest", "twice": what has happened of these

vars == <<todo, waits, held, heads, ends, status, error, outcome, left, redirects, directory, finalized, cancelled, faults>>

Init ==
    /\ todo = <<>>
    /\ waits = "read:head" /\ held = [hrm |-> 0, file |-> 0, z |-> 0]
    /\ heads = 0 /\ ends = 0 /\ status = "none" /\ error = FALSE /\ outcome = FALSE
    /\ left \in 0..MaxChunks /\ redirects = 0 /\ directory \in BOOLEAN /\ finalized = 0 /\ cancelled = FALSE
    /\ faults = {}

Reads == {"read:head", "read:key", "read:body", "read:chunks", "read:skip", "read:rest", "read:store"}
Waits == Reads \cup
         {"write:head", "write:listing",
          "write:resource", "write:compressed", "write:upgrade", "write:page", "write:file", "write:chunk",
          "write:zchunk", "write:headers", "write:sent", "write:composed", "write:body"}

Do(e) == waits = "none" /\ todo # <<>> /\ Head(todo) = e

next_twice(s) ==
    /\ status' = s
    /\ error' = (error \/ s = "error")
    /\ todo' = IF s = "none" THEN <<"root_next">> ELSE <<"compose_response">>

\* connection::next: the response that was not sent is composed, an error
\* first looks for a page of its own
next(s) ==
    /\ status' = s
    /\ IF s = "none" \/ outcome
       THEN todo' = <<"root_next">> /\ UNCHANGED error
       ELSE \/ /\ s = "error" /\ ~error /\ error' = TRUE
               /\ todo' \in {<<"route_get">>, <<"compose_response">>}
            \/ /\ s # "error" \/ error
               /\ todo' = <<"compose_response">>
               /\ UNCHANGED error

Finish ==
    /\ \/ Do("next") /\ next(status)
       \/ Do("next_ok") /\ next("ok")
       \/ Do("abort") /\ next("none")
       \/ Do("abort_e") /\ next("error")
    /\ UNCHANGED <<waits, held, heads, ends, outcome, left, redirects, directory, finalized, cancelled, faults>>

\* What goes wrong without an error
Fault ==
    /\ \E f \in {"seek", "put", "rest", "twice"} : Do(f) /\ faults' = faults \cup {f}
    /\ todo' = Tail(todo)
    /\ UNCHANGED <<waits, held, heads, ends, status, error, outcome, left, redirects, directory, finalized, cancelled>>

\* A count that goes up or down
Hold ==
    /\ \E r \in {"hrm", "file", "z"} :
          \/ Do(r \o "+") /\ held' = [held EXCEPT ![r] = @ + 1]
          \/ Do(r \o "-") /\ held' = [held EXCEPT ![r] = @ - 1]
    /\ todo' = Tail(todo)
    /\ UNCHANGED <<waits, heads, ends, status, error, outcome, left, redirects, directory, finalized, cancelled, faults>>

Mark ==
    /\ \/ Do("head") /\ heads' = heads + 1 /\ UNCHANGED <<ends, left>>
       \/ Do("end") /\ ends' = ends + 1 /\ UNCHANGED <<heads, left>>
       \/ Do("deny_directory") /\ UNCHANGED <<heads, ends, left>>
       \/ Do("chunk") /\ left' = left - 1 /\ UNCHANGED <<heads, ends>>
    /\ todo' = Tail(todo)
    /\ UNCHANGED <<waits, held, status, error, outcome, redirects, directory, finalized, cancelled, faults>>

redirect_forever ==
    /\ Do("redirect")
    /\ todo' = <<"construct_route">>
    /\ UNCHANGED <<waits, held, heads, ends, status, error, outcome, left, redirects, directory, finalized, cancelled, faults>>

redirect ==
    /\ Do("redirect")
    /\ redirects' = redirects + 1
    /\ todo' = IF redirects > MaxRedirects THEN <<"abort_e">> ELSE <<"construct_route">>
    /\ UNCHANGED <<waits, held, heads, ends, status, error, outcome, left, directory, finalized, cancelled, faults>>

\* The web socket ends with lifetime.close
websocket ==
    /\ Do("websocket")
    /\ todo' \in {<<"next">>, <<"abort">>}
    /\ UNCHANGED <<waits, held, heads, ends, status, error, outcome, left, redirects, directory, finalized, cancelled, faults>>

finalize ==
    /\ Do("finalize")
    /\ finalized' = finalized + 1
    /\ todo' = Tail(todo)
    /\ UNCHANGED <<waits, held, heads, ends, status, error, outcome, left, redirects, directory, cancelled, faults>>

Call ==
    /\ waits = "none" /\ todo # <<>>
    /\ \E path \in Handler(Head(todo), left, directory) : todo' = path \o Tail(todo)
    /\ UNCHANGED <<waits, held, heads, ends, status, error, outcome, left, redirects, directory, finalized, cancelled, faults>>

Wait ==
    /\ waits = "none" /\ todo # <<>> /\ Head(todo) \in Waits
    /\ waits' = Head(todo) /\ todo' = Tail(todo)
    /\ UNCHANGED <<held, heads, ends, status, error, outcome, left, redirects, directory, finalized, cancelled, faults>>

\* The network answers
Event(e) ==
    /\ waits # "none"
    /\ \E path \in Callback(waits, left)[e] : todo' = path
    /\ waits' = "none"
    /\ outcome' = (outcome \/ (e \in {"done", "sync"} /\ waits \notin Reads))
    /\ cancelled' = (cancelled \/ e = "skip")
    /\ UNCHANGED <<held, heads, ends, status, error, left, redirects, directory, finalized, faults>>

Over == waits = "none" /\ todo = <<>> /\ UNCHANGED vars

Next ==
    \/ Finish \/ Fault \/ Hold \/ Mark \/ redirect \/ websocket \/ finalize \/ Call \/ Wait
    \/ \E e \in {"done", "sync", "error", "skip"} : Event(e)
    \/ Over

\* Tasks run, and every read or write ends, at the latest with a timeout
Spec == Init /\ [][Next]_vars /\ WF_vars(Next)

-----------------------------------------------------------------------------
(* Counts stay in range: nothing is given back that was not taken.         *)
TypeOK ==
    /\ held.hrm \in 0..1 /\ held.z \in 0..1
    /\ held.file \in 0..(IF "seek" \in faults THEN 2 ELSE 1)
    /\ left \in 0..MaxChunks /\ redirects \in 0..(MaxRedirects + 2)

(* A request is finalized once: a second time would hand the connection    *)
(* to two requests.                                                        *)
FinalizedOnce == finalized <= 1

(* Nothing of a request is left to do once it was finalized: from then on  *)
(* the connection belongs to the next request, or to the pool.             *)
NothingAfter == finalized > 0 => todo = <<>> /\ waits = "none"

(* A response has one head: an error after the head was written, a missing *)
(* error page or a failed file does not start a second response.           *)
OneHead == heads <= 1

(* When the request is over nothing is left open: strings of the cache,    *)
(* files and compressors are given back on every path, cancelled ones      *)
(* included, but for the file of a PUT whose seek failed or whose body in  *)
(* chunks has come to its end: route_put leaves that one open.             *)
Released ==
    (todo = <<>> /\ waits = "none") =>
        /\ held.hrm = 0 /\ held.z = 0
        /\ held.file = IF faults \cap {"seek", "put"} # {} THEN 1 ELSE 0

(* A compressed response ends once, unless the write of its last chunk     *)
(* completed at once: then the loop ends the response again.               *)
OneEnd == ends <= (IF "twice" \in faults THEN 2 ELSE 1)

(* Every request is answered or given up: redirects, error pages and       *)
(* chunks come to an end.  A cancelled request is left to whoever has      *)
(* cancelled it, one whose body came in chunks may be left to nobody.      *)
Finished == finalized = 1 \/ cancelled \/ faults \cap {"put", "rest"} # {}
=============================================================================
