-------------------------- MODULE ScriptCallbacks --------------------------
(***************************************************************************)
(* The functions of the bindings that take a script function and keep it   *)
(* for later, and function_delegate, which owns it.  A function declared   *)
(* with "@" hands its callee a reference, one declared with "@+" takes it  *)
(* back when the call returns.  A function_delegate made from a function   *)
(* adopts the reference it was handed (add_ref_and_initialize(true) takes  *)
(* none of its own), a copy takes one, a move assignment overwrites what   *)
(* the target held.  A run calls one function of the table again and       *)
(* again with the same script functions, with null, and fires what it      *)
(* keeps.                                                                  *)
(***************************************************************************)
EXTENDS Naturals, TLC

CONSTANTS
    Functions,  \* script functions
    MaxHeld,    \* how often a list keeps one function
    MaxRefs     \* a leaked count grows no further

\* param: how the handle is declared.  keep: "slot" a lambda with a copy
\* that replaces the one before, "list" one more lambda, "once" a lambda
\* that is dropped when it was called, "call" only for the call itself,
\* "move" a member assigned from a temporary.  null: what a null does to
\* the slot.
Row(names, param, keep, null) == [n \in names |-> [param |-> param, keep |-> keep, null |-> null]]

map_router_methods ==
    Row({"map_router.get", "map_router.post", "map_router.patch", "map_router.delete",
         "map_router.options", "map_router.access"}, "@", "slot", "clears")
map_router_hooks ==
    Row({"map_router.headers", "map_router.authorize", "map_router.websocket_initiate",
         "map_router.websocket_connect", "map_router.websocket_disconnect",
         "map_router.websocket_receive"}, "@", "slot", "clears")
web_socket_frame_set ==
    Row({"web_socket_frame.set_on_connect", "web_socket_frame.set_on_before_disconnect",
         "web_socket_frame.set_on_disconnect", "web_socket_frame.set_on_receive"}, "@+", "slot", "clears")
schedule_set ==
    Row({"schedule.set_interval"}, "@", "list", "ignored")
    @@ Row({"schedule.set_timeout", "schedule.set_immediate", "schedule.spawn"}, "@", "once", "ignored")
os_process_execute == Row({"process.execute"}, "@", "call", "ignored")
crypto_file == Row({"crypto.file_encrypt", "crypto.file_decrypt"}, "@", "call", "ignored")
preprocessor_set ==
    Row({"preprocessor.set_include_callback", "preprocessor.set_pragma_callback",
         "preprocessor.set_directive_callback"}, "@", "slot", "clears")
multiplexer_when == Row({"multiplexer.when_readable", "multiplexer.when_writeable"}, "@", "once", "ignored")
content_manager_deferred == Row({"content_manager.load_deferred", "content_manager.save_deferred"}, "@", "once", "ignored")
array_sort == Row({"array.sort"}, "@", "call", "ignored")
ldb_cluster_set ==
    Row({"ldb_cluster.set_function", "ldb_cluster.set_aggregate_function",
         "ldb_cluster.set_window_function"}, "@", "list", "ignored")
driver_set_query_log ==
    Row({"ldb_driver.set_query_log", "pdb_driver.set_query_log", "mdb_driver.set_query_log"}, "@", "slot", "clears")
pdb_cluster_set ==
    Row({"pdb_cluster.set_when_reconnected"}, "@", "slot", "clears")
    @@ Row({"pdb_cluster.add_channel"}, "@", "list", "ignored")
mdb_connection_make_transaction == Row({"mdb_connection.make_transaction"}, "@", "once", "ignored")
application_set_on ==
    Row({"application.set_on_dispatch", "application.set_on_publish", "application.set_on_composition",
         "application.set_on_script_hook", "application.set_on_initialize", "application.set_on_startup",
         "application.set_on_shutdown"}, "@", "move", "clears")
promise_when == Row({"promise.when"}, "@", "move", "clears")

Table ==
    map_router_methods @@ map_router_hooks @@ web_socket_frame_set @@ schedule_set @@ os_process_execute
    @@ crypto_file @@ preprocessor_set @@ multiplexer_when @@ content_manager_deferred @@ array_sort
    @@ ldb_cluster_set @@ driver_set_query_log @@ pdb_cluster_set @@ mdb_connection_make_transaction
    @@ application_set_on @@ promise_when

VARIABLES
    name,       \* the function of the table
    refs,       \* the reference count of each script function
    script,     \* the script still has a handle of its own
    held,       \* delegates in slots and lists
    running     \* copies inside calls that have not returned

vars == <<name, refs, script, held, running>>

Init ==
    /\ name \in DOMAIN Table
    /\ refs = [f \in Functions |-> 1]
    /\ script = [f \in Functions |-> TRUE]
    /\ held = [f \in Functions |-> 0]
    /\ running = [f \in Functions |-> 0]

T == Table[name]
NoRefs == [f \in Functions |-> 0]
One(f) == [g \in Functions |-> IF g = f THEN 1 ELSE 0]
Plus(c, d) == [f \in Functions |-> c[f] + d[f]]
Minus(c, d) == [f \in Functions |-> IF c[f] > d[f] THEN c[f] - d[f] ELSE 0]

\* What a delegate of f, once in its place, adds to the count: the reference
\* that was handed over, less the one a "@+" declaration takes back
function_delegate(f) == IF T.param = "@" THEN One(f) ELSE NoRefs

\* A slot that is replaced or cleared destroys its lambda, with one
\* reference of the delegate inside; a move assignment just overwrites it
Assigned == IF T.keep = "slot" THEN held ELSE NoRefs

Set(f) ==
    /\ script[f] /\ refs[f] < MaxRefs
    /\ \/ /\ T.keep \in {"slot", "move"}
          /\ held' = One(f)
          /\ refs' = Plus(Minus(refs, Assigned), function_delegate(f))
       \/ /\ T.keep \in {"list", "once"} /\ held[f] < MaxHeld
          /\ held' = Plus(held, One(f))
          /\ refs' = Plus(refs, function_delegate(f))
    /\ UNCHANGED <<name, script, running>>

\* The callback is only used before the function returns
SetForCall(f) ==
    /\ script[f] /\ T.keep = "call" /\ running[f] = 0
    /\ running' = Plus(running, One(f))
    /\ refs' = Plus(refs, function_delegate(f))
    /\ UNCHANGED <<name, script, held>>

SetNull ==
    /\ T.null = "clears"
    /\ held' = NoRefs
    /\ refs' = Minus(refs, Assigned)
    /\ UNCHANGED <<name, script, running>>

\* operator(): the delegate is copied into resolve_callback
Fire(f) ==
    /\ held[f] > 0 /\ running[f] = 0
    /\ running' = Plus(running, One(f))
    /\ held' = IF T.keep = "once" THEN Minus(held, One(f)) ELSE held
    /\ refs' = IF T.keep = "once" THEN refs ELSE Plus(refs, One(f))
    /\ UNCHANGED <<name, script>>

\* release() of the copy once the script function has returned
Return(f) ==
    /\ running[f] > 0
    /\ running' = Minus(running, One(f))
    /\ refs' = Minus(refs, One(f))
    /\ UNCHANGED <<name, script, held>>

\* The script forgets the function
Forget(f) ==
    /\ script[f]
    /\ script' = [script EXCEPT ![f] = FALSE]
    /\ refs' = Minus(refs, One(f))
    /\ UNCHANGED <<name, held, running>>

Next ==
    \/ \E f \in Functions : Set(f) \/ SetForCall(f) \/ Fire(f) \/ Return(f) \/ Forget(f)
    \/ SetNull
    \/ UNCHANGED vars

Spec == Init /\ [][Next]_vars

Holders(f) == held[f] + running[f] + (IF script[f] THEN 1 ELSE 0)

-----------------------------------------------------------------------------
(* A script function that a native callback still refers to is alive, also *)
(* after the script has dropped it: every holder has a reference.  The     *)
(* callbacks of a web socket are the exception: they are declared "@+"     *)
(* (bindings.cpp 11534-11537), so that nothing counts the delegate.        *)
CallbackLives ==
    name \notin DOMAIN web_socket_frame_set => \A f \in Functions : refs[f] >= Holders(f)

(* A script function that nothing refers to any more is freed: no          *)
(* reference outlives its holder.  The hooks of an application and the     *)
(* callback of a promise are the exception: they are move-assigned over    *)
(* the delegate before, whose reference is never released (scripting.cpp   *)
(* 2808-2822).                                                             *)
CallbackFreed ==
    name \notin DOMAIN application_set_on \union DOMAIN promise_when =>
        \A f \in Functions : refs[f] <= Holders(f)
=============================================================================
