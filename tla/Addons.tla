-------------------------------- MODULE Addons --------------------------------
(* The system addons of the script engine.  bind_addons of bindings.cpp lists   *)
(* every addon with the addons it depends on, and import_system_addon of        *)
(* scripting.cpp loads one: under the mutex it copies the entry and marks it    *)
(* exposed, then it loads the dependencies without the mutex and registers the  *)
(* declarations of the addon.  A declaration naming a type the engine does not  *)
(* know yet is refused, and no import_* function looks at that result.          *)
(* Of each import_* function, a long one in parts, the model keeps the types it *)
(* declares that other parts use, and the types of others its declarations name.*)
EXTENDS Naturals, Sequences, SequencesExt, FiniteSets, TLC

CONSTANTS Threads,     \* threads that compile scripts on one virtual machine
          Direct,      \* thread -> addons its scripts import by name
          Together,    \* addons during whose import others import, add and remove
          UserDeps,    \* dependency list of an addon the embedder may add
          MaxImports,  \* bound on the imports of the scripts
          MaxAdds,     \* bound on the calls of add_system_addon for that addon
          Removes      \* TRUE: the embedder also removes its addon

VARIABLES exposed,  \* names of the entries marked exposed
          user,     \* TRUE while the addon of the embedder has an entry
          listed,   \* how often that addon was appended to the list of "*"
          stack,    \* thread -> calls of import_system_addon, innermost first
          types,    \* types the engine knows
          refused,  \* addons that had a declaration refused
          runs,     \* name -> how often its callback ran since it was added
          met,      \* names some script was told are imported
          overlapped,  \* TRUE once two threads imported at a time
          imports, adds
vars == <<exposed, user, listed, stack, types, refused, runs, met, overlapped, imports, adds>>

----------------------------------------------------------------------------
(* registry::import_*: types declared for other parts, types of others named. *)
import_ctypes == [defs |-> {"uptr", "usize"}, uses |-> {}]
import_any == [defs |-> {}, uses |-> {}]
import_array == [defs |-> {"array"}, uses |-> {"usize"}]
import_complex == [defs |-> {}, uses |-> {}]
import_math == [defs |-> {}, uses |-> {}]
import_string_type ==
  [defs |-> {"string", "string_view"}, uses |-> {"array", "uptr", "usize"}]
import_string_functions ==
  [defs |-> {}, uses |-> {"array", "string", "string_view", "uptr", "usize"}]
import_random == [defs |-> {}, uses |-> {"string"}]
import_dictionary ==
  [defs |-> {"dictionary"}, uses |-> {"array", "string", "string_view", "usize"}]
import_exception == [defs |-> {"exception_ptr"}, uses |-> {"string", "string_view"}]
import_mutex == [defs |-> {}, uses |-> {}]
import_thread == [defs |-> {}, uses |-> {"string"}]
import_buffers == [defs |-> {}, uses |-> {"string", "string_view", "uptr", "usize"}]
import_promise == [defs |-> {"promise"}, uses |-> {"exception_ptr"}]
import_decimal == [defs |-> {"decimal"}, uses |-> {"string", "string_view"}]
import_uint128 == [defs |-> {"uint128"}, uses |-> {"decimal", "string", "string_view"}]
import_uint256 ==
  [defs |-> {}, uses |-> {"decimal", "string", "string_view", "uint128"}]
import_variant ==
  [defs |-> {"variant"}, uses |-> {"decimal", "string", "string_view", "uptr", "usize"}]
import_timestamp == [defs |-> {}, uses |-> {"string", "string_view"}]
import_console == [defs |-> {}, uses |-> {"schema", "string", "string_view", "usize"}]
import_schema ==
  [defs |-> {"schema"}, uses |-> {"array", "decimal", "dictionary", "string",
   "string_view", "uptr", "usize", "variant"}]
import_schedule == [defs |-> {"schedule_policy"}, uses |-> {"usize"}]
import_clock_timer == [defs |-> {"clock_timer"}, uses |-> {"usize"}]
import_fs_streams ==
  [defs |-> {"base_stream", "file_entry", "file_mode", "file_seek", "file_state",
   "memory_stream"}, uses |-> {"string", "string_view", "uptr", "usize"}]
import_fs_files ==
  [defs |-> {"file_stream", "process_stream"}, uses |-> {"base_stream", "file_mode",
   "file_seek", "memory_stream", "string", "string_view", "uptr", "usize"}]
import_os_hardware ==
  [defs |-> {"inline_args"}, uses |-> {"array", "dictionary", "file_state", "string",
   "string_view", "usize"}]
import_os_process ==
  [defs |-> {}, uses |-> {"array", "base_stream", "file_entry", "file_mode",
   "file_state", "inline_args", "process_stream", "string", "string_view", "uptr",
   "usize"}]
import_regex ==
  [defs |-> {"regex_result", "regex_source"}, uses |-> {"array", "string",
   "string_view"}]
import_crypto_types ==
  [defs |-> {"base_stream", "secret_box", "web_token"}, uses |-> {"array", "schema",
   "string", "string_view", "uptr", "usize"}]
import_crypto_ciphers == [defs |-> {}, uses |-> {"uptr"}]
import_crypto_proofs == [defs |-> {"proofs::format"}, uses |-> {"uptr"}]
import_crypto_functions ==
  [defs |-> {}, uses |-> {"base_stream", "proofs::format", "schema", "secret_box",
   "string", "string_view", "uptr", "usize", "web_token"}]
import_codec == [defs |-> {}, uses |-> {"string", "string_view"}]
import_preprocessor ==
  [defs |-> {}, uses |-> {"array", "string", "string_view", "uptr", "usize"}]
import_network_types ==
  [defs |-> {"certificate_blob", "dns_type", "secure_layer_options", "server_state",
   "socket_accept", "socket_address", "socket_poll", "socket_protocol", "socket_type"},
   uses |-> {"dictionary", "string", "string_view", "uptr", "usize"}]
import_network_socket ==
  [defs |-> {"file_stream", "socket", "socket_data_frame"}, uses |-> {"array",
   "certificate_blob", "dns_type", "promise", "secure_layer_options", "socket_accept",
   "socket_address", "socket_poll", "socket_protocol", "socket_type", "string",
   "string_view", "uptr", "usize"}]
import_network_server ==
  [defs |-> {"socket_client", "socket_listener", "socket_router", "socket_server"}, uses
   |-> {"dictionary", "promise", "server_state", "socket", "socket_address",
   "socket_data_frame", "socket_poll", "string", "string_view", "usize"}]
import_http_frames ==
  [defs |-> {"http::compression_tune", "http::content_frame", "http::cookie",
   "http::credentials", "http::error_file", "http::fetch_frame", "http::mime_type",
   "http::request_frame", "http::resource_info", "http::response_frame",
   "http::route_mode", "http::websocket_op"}, uses |-> {"schema", "string",
   "string_view", "usize"}]
import_http_router ==
  [defs |-> {"http::map_router", "http::route_entry"}, uses |-> {"array",
   "http::compression_tune", "http::content_frame", "http::cookie", "http::credentials",
   "http::error_file", "http::mime_type", "regex_result", "regex_source", "string",
   "string_view", "usize"}]
import_http_connection ==
  [defs |-> {"http::connection", "http::websocket_frame"}, uses |-> {"dictionary",
   "http::credentials", "http::map_router", "http::route_entry", "http::route_mode",
   "http::websocket_op", "promise", "socket", "socket_router", "string", "string_view",
   "usize"}]
import_http_server ==
  [defs |-> {}, uses |-> {"array", "file_entry", "http::connection",
   "http::fetch_frame", "http::map_router", "http::request_frame",
   "http::resource_info", "http::response_frame", "http::route_entry",
   "http::websocket_frame", "promise", "schema", "server_state", "socket",
   "socket_address", "socket_client", "socket_data_frame", "socket_listener",
   "socket_server", "string", "string_view", "usize"}]
import_smtp ==
  [defs |-> {}, uses |-> {"array", "promise", "socket", "socket_address",
   "socket_client", "string", "string_view", "usize"}]
import_sqlite_rows ==
  [defs |-> {"sqlite::checkpoint", "sqlite::checkpoint_mode", "sqlite::column",
   "sqlite::isolation", "sqlite::response"}, uses |-> {"array", "schema", "string",
   "string_view", "usize", "variant"}]
import_sqlite_cluster ==
  [defs |-> {}, uses |-> {"array", "dictionary", "promise", "schema",
   "sqlite::checkpoint", "sqlite::checkpoint_mode", "sqlite::column",
   "sqlite::isolation", "sqlite::response", "string", "string_view", "uptr", "usize",
   "variant"}]
import_pq_enums ==
  [defs |-> {"pq::address_op", "pq::caching", "pq::field_code", "pq::isolation",
   "pq::query_exec", "pq::query_op", "pq::transaction_state"}, uses |-> {}]
import_pq_rows ==
  [defs |-> {"pq::column", "pq::host_address", "pq::notify", "pq::query_state",
   "pq::response"}, uses |-> {"array", "pq::address_op", "pq::field_code",
   "pq::query_exec", "schema", "string", "string_view", "uptr", "usize", "variant"}]
import_pq_cluster ==
  [defs |-> {}, uses |-> {"array", "dictionary", "pq::caching", "pq::column",
   "pq::host_address", "pq::isolation", "pq::notify", "pq::query_op", "pq::query_state",
   "pq::response", "pq::transaction_state", "promise", "schema", "socket", "string",
   "string_view", "uptr", "usize"}]
import_mongo_document ==
  [defs |-> {"mongo::doc_property", "mongo::document", "mongo::query_flags",
   "mongo::transaction_state"}, uses |-> {"schema", "string", "string_view", "usize"}]
import_mongo_collection ==
  [defs |-> {"mongo::collection", "mongo::cursor", "mongo::host_address",
   "mongo::response", "mongo::stream", "mongo::transaction"}, uses |-> {"array",
   "dictionary", "mongo::doc_property", "mongo::document", "mongo::query_flags",
   "mongo::transaction_state", "promise", "schema", "string", "string_view", "usize"}]
import_mongo_cluster ==
  [defs |-> {}, uses |-> {"array", "dictionary", "mongo::collection", "mongo::cursor",
   "mongo::document", "mongo::host_address", "mongo::query_flags", "mongo::response",
   "mongo::stream", "mongo::transaction", "promise", "schema", "string", "string_view",
   "usize"}]
import_vm == [defs |-> {}, uses |-> {}]
import_layer_content ==
  [defs |-> {"application_state", "content_manager"}, uses |-> {"base_stream", "schema",
   "string", "string_view", "uptr", "usize"}]
import_layer_application ==
  [defs |-> {}, uses |-> {"application_state", "clock_timer", "content_manager",
   "schedule_policy", "schema", "string", "string_view", "uptr", "usize"}]

(* registry::bind_addons: every addon, the addons it depends on, its callback. *)
bind_addons == <<
  << "ctypes", <<>>, <<import_ctypes>> >>,
  << "any", <<>>, <<import_any>> >>,
  << "array", <<"ctypes">>, <<import_array>> >>,
  << "complex", <<>>, <<import_complex>> >>,
  << "math", <<>>, <<import_math>> >>,
  << "string", <<"array">>, <<import_string_type, import_string_functions>> >>,
  << "random", <<"string">>, <<import_random>> >>,
  << "dictionary", <<"array", "string">>, <<import_dictionary>> >>,
  << "exception", <<"string">>, <<import_exception>> >>,
  << "mutex", <<>>, <<import_mutex>> >>,
  << "thread", <<"any", "string">>, <<import_thread>> >>,
  << "buffers", <<"string">>, <<import_buffers>> >>,
  << "promise", <<"exception">>, <<import_promise>> >>,
  << "decimal", <<"string">>, <<import_decimal>> >>,
  << "uint128", <<"decimal">>, <<import_uint128>> >>,
  << "uint256", <<"uint128">>, <<import_uint256>> >>,
  << "variant", <<"string", "decimal">>, <<import_variant>> >>,
  << "timestamp", <<"string">>, <<import_timestamp>> >>,
  << "console", <<"string", "schema">>, <<import_console>> >>,
  << "schema", <<"array", "string", "dictionary", "variant">>, <<import_schema>> >>,
  << "schedule", <<"ctypes">>, <<import_schedule>> >>,
  << "clock", <<>>, <<import_clock_timer>> >>,
  << "fs", <<"string">>, <<import_fs_streams, import_fs_files>> >>,
  << "os", <<"fs", "array", "dictionary">>, <<import_os_hardware, import_os_process>> >>,
  << "regex", <<"string">>, <<import_regex>> >>,
  << "crypto", <<"string", "schema">>, <<import_crypto_types, import_crypto_ciphers, import_crypto_proofs, import_crypto_functions>> >>,
  << "codec", <<"string">>, <<import_codec>> >>,
  << "preprocessor", <<"string">>, <<import_preprocessor>> >>,
  << "network", <<"string", "array", "dictionary", "promise">>, <<import_network_types, import_network_socket, import_network_server>> >>,
  << "http", <<"schema", "fs", "promise", "regex", "network">>, <<import_http_frames, import_http_router, import_http_connection, import_http_server>> >>,
  << "smtp", <<"promise", "network">>, <<import_smtp>> >>,
  << "sqlite", <<"network", "schema">>, <<import_sqlite_rows, import_sqlite_cluster>> >>,
  << "pq", <<"network", "schema">>, <<import_pq_enums, import_pq_rows, import_pq_cluster>> >>,
  << "mongo", <<"network", "schema">>, <<import_mongo_document, import_mongo_collection, import_mongo_cluster>> >>,
  << "vm", <<>>, <<import_vm>> >>,
  << "layer", <<"schema", "schedule", "fs", "clock">>, <<import_layer_content, import_layer_application>> >> >>

Names == {bind_addons[i][1] : i \in DOMAIN bind_addons}
Entry == [a \in Names |-> CHOOSE e \in ToSet(bind_addons) : e[1] = a]
Order == [i \in DOMAIN bind_addons |-> bind_addons[i][1]]
Known == Names \union {"*"} \union (IF user THEN {"user"} ELSE {})

(* The dependency list an entry has now; "*" lists every name ever added. *)
DependenciesOf_short(a) == IF a \in Names /\ Entry[a][2] # <<>> THEN Tail(Entry[a][2]) ELSE <<>>
DependenciesOf(a) == CASE a = "*" -> Order \o [i \in 1..listed |-> "user"]
                       [] a = "user" -> UserDeps
                       [] OTHER -> Entry[a][2]
Parts(a) == IF a \in Names THEN Entry[a][3] ELSE <<>>
Defs(a) == UNION {p.defs : p \in ToSet(Parts(a))}

Idle(t) == stack[t] = <<>>

(* The imports under way. *)
Underway == {Last(stack[t]).name : t \in {u \in Threads : ~Idle(u)}}

Init == /\ exposed = {} /\ user = FALSE /\ listed = 0
        /\ stack = [t \in Threads |-> <<>>]
        /\ types = {} /\ refused = {} /\ met = {}
        /\ runs = [a \in Names \union {"user"} |-> 0]
        /\ overlapped = FALSE /\ imports = 0 /\ adds = 0

----------------------------------------------------------------------------
(* import_system_addon up to the release of the mutex: an unknown name is an    *)
(* error, an exposed entry is done, any other one is copied and marked.         *)
Enter(t, a, below) ==
  CASE a \notin Known ->
         /\ stack' = [stack EXCEPT ![t] = <<[ret |-> "error", name |-> a]>> \o below]
         /\ UNCHANGED exposed
    [] a \in exposed ->
         /\ stack' = [stack EXCEPT ![t] = <<[ret |-> "met", name |-> a]>> \o below]
         /\ UNCHANGED exposed
    [] OTHER ->
         /\ stack' = [stack EXCEPT ![t] = <<[name |-> a, todo |-> DependenciesOf(a)]>> \o below]
         /\ exposed' = exposed \union {a}

(* A script includes an addon. *)
Import(t, a) ==
  /\ Idle(t) /\ imports < MaxImports
  /\ imports' = imports + 1
  /\ Underway # {} => Underway \union {a} \subseteq Together
  /\ overlapped' = (overlapped \/ Underway # {})
  /\ Enter(t, a, <<>>)
  /\ UNCHANGED <<user, listed, types, refused, runs, met, adds>>

Running(t) == ~Idle(t) /\ "todo" \in DOMAIN Head(stack[t])
Returning(t) == ~Idle(t) /\ "ret" \in DOMAIN Head(stack[t])

(* The loop over the dependencies of the copy. *)
Depend(t) ==
  /\ Running(t)
  /\ LET call == Head(stack[t])
     IN /\ call.todo # <<>>
        /\ Enter(t, Head(call.todo),
                 <<[call EXCEPT !.todo = Tail(@)]>> \o Tail(stack[t]))
  /\ UNCHANGED <<user, listed, types, refused, runs, met, overlapped, imports, adds>>

(* All dependencies are met: the callback registers the declarations. *)
Register(a) ==
  /\ types' = types \union Defs(a)
  /\ refused' = IF \A i \in DOMAIN Parts(a) :
                     Parts(a)[i].uses \subseteq
                       types \union UNION {Parts(a)[j].defs : j \in 1..(i - 1)}
                THEN refused ELSE refused \union {a}
Load(t) ==
  /\ Running(t) /\ Head(stack[t]).todo = <<>>
  /\ LET a == Head(stack[t]).name
     IN /\ Register(a)
        /\ runs' = IF a = "*" THEN runs ELSE [runs EXCEPT ![a] = @ + 1]
        /\ stack' = [stack EXCEPT ![t] = <<[ret |-> "met", name |-> a]>> \o Tail(@)]
  /\ UNCHANGED <<exposed, user, listed, met, overlapped, imports, adds>>

(* The return of a call: an error is returned through every caller. *)
Return(t) ==
  /\ Returning(t)
  /\ LET call == Head(stack[t])
         rest == Tail(stack[t])
     IN /\ met' = IF rest = <<>> /\ call.ret = "met" THEN met \union {call.name} ELSE met
        /\ stack' = [stack EXCEPT ![t] =
                       IF rest # <<>> /\ call.ret = "error"
                       THEN <<[ret |-> "error", name |-> Head(rest).name]>> \o Tail(rest)
                       ELSE rest]
  /\ UNCHANGED <<exposed, user, listed, types, refused, runs, overlapped, imports, adds>>

----------------------------------------------------------------------------
(* add_system_addon for the addon of the embedder: a new entry, or the same one *)
(* replaced, which may then be loaded again.  "*" is to be loaded again.        *)
add_system_addon ==
  /\ adds < MaxAdds /\ Underway \subseteq Together /\ adds' = adds + 1
  /\ user' = TRUE /\ listed' = listed + 1
  /\ exposed' = exposed \ {"user", "*"}
  /\ runs' = [runs EXCEPT !["user"] = 0]
  /\ met' = met \ {"user", "*"}
  /\ UNCHANGED <<stack, types, refused, overlapped, imports>>
(* The same call without callback and dependencies erases an existing entry,    *)
(* and still appends the name to the list of "*".                               *)
RemoveAddon ==
  /\ Removes /\ user /\ adds < MaxAdds /\ Underway \subseteq Together /\ adds' = adds + 1
  /\ user' = FALSE /\ listed' = listed + 1
  /\ exposed' = exposed \ {"user", "*"}
  /\ runs' = [runs EXCEPT !["user"] = 0]
  /\ met' = met \ {"user", "*"}
  /\ UNCHANGED <<stack, types, refused, overlapped, imports>>

Next == \/ \E t \in Threads : \/ \E a \in Direct[t] : Import(t, a)
                              \/ Depend(t) \/ Load(t) \/ Return(t)
        \/ add_system_addon \/ RemoveAddon
Spec == Init /\ [][Next]_vars /\ \A t \in Threads : WF_vars(Depend(t) \/ Load(t) \/ Return(t))

----------------------------------------------------------------------------
TypeOK == /\ exposed \subseteq Known \union {"user"}
          /\ met \subseteq Known \union {"user"} /\ refused \subseteq Names
          /\ \A t \in Threads : \A i \in DOMAIN stack[t] :
               stack[t][i].name \in Names \union ToSet(UserDeps) \union {"*", "user"}

(* Whatever scripts that are compiled one after another import first, no        *)
(* declaration of an addon names a type that is not registered: the dependency  *)
(* lists of bind_addons suffice, and the parts of each addon come in the right  *)
(* order; a script that is told an addon is imported can use every type of it.  *)
(* Only "clock" is listed without the ctypes it needs (bindings.cpp 8498): its  *)
(* methods with usize (9954-9955) are refused when it is imported first.        *)
(* The callback of an addon runs once for each time it is added, even when two  *)
(* threads import it together: the flag is set under the mutex.                 *)
AddonsResolve ==
  /\ ~overlapped => refused \subseteq {"clock"}
  /\ ~overlapped => \A a \in met : /\ Defs(a) \subseteq types
                                   /\ a \in Names => runs[a] > 0
                                   /\ a = "*" => \A b \in Names : runs[b] > 0
  /\ \A a \in Names : runs[a] <= 1
=============================================================================
