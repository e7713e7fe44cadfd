----------------------------- MODULE MCScript ------------------------------
(* What scripts use of the engine for TLC: addons, deferred calls,          *)
(* callbacks, arrays, promises, the debugger and functions owning objects.  *)
(* One of them runs in a behaviour.                                         *)
EXTENDS Addons, Integers

CONSTANTS None,
          Checked  \* the components that are checked

VARIABLES
    part,  \* the component that runs in this behaviour
    s1, s2, s3, s4, s5, s6, s7, s8, s9, s10, s11, s12, s13, s14, s15, s16  \* its state

MCUserDeps == <<"string">>

AllAddons ==
    {"ctypes", "any", "array", "complex", "math", "string", "random", "dictionary",
     "exception", "mutex", "thread", "buffers", "promise", "decimal", "uint128",
     "uint256", "variant", "timestamp", "console", "schema", "schedule", "clock", "fs", "os",
     "regex", "crypto", "codec", "preprocessor", "network", "http", "smtp", "sqlite",
     "pq", "mongo", "vm", "layer", "*", "user"}

MCDirect == [a |-> AllAddons, b |-> Together]

\* The scripts of the debugger: main calls f.
Main(n) == [fn |-> "main", line |-> n, depth |-> 1]

InF(n) == [fn |-> "f", line |-> n, depth |-> 2]

\* On a line without code, and in a function.
BreakPoints == {[fn |-> "none", line |-> 2, function |-> FALSE, adjust |-> TRUE],
                [fn |-> "f", line |-> 0, function |-> TRUE, adjust |-> TRUE]}

Deferred == INSTANCE DeferredCalls WITH
    MaxChunks <- 2, call <- s1, phase <- s2, handle <- s3, refs <- s4, chunks <- s5, failed <- s6,
    sets <- s7, throws <- s8

Callbacks == INSTANCE ScriptCallbacks WITH
    Functions <- {"f", "g"}, MaxHeld <- 2, MaxRefs <- 5, name <- s1, refs <- s2, script <- s3,
    held <- s4, running <- s5

Handles == INSTANCE ScriptArray WITH
    Kind <- "handle", N <- 2, Low <- 1, Values <- {0}, Arrays <- {1, 2},
    Methods <- <<"opCmp", "opEquals">>, MaxSize <- 2, buffer <- s1, heap <- s2, held <- s3,
    want <- s4, off <- s5

Owns == INSTANCE ScriptArray WITH
    Kind <- "object", N <- 4, Low <- 1, Values <- {0, 1}, Arrays <- {1},
    Methods <- <<"opCmp", "opEquals">>, MaxSize <- 4, buffer <- s1, heap <- s2, held <- s3,
    want <- s4, off <- s5

Pair == INSTANCE ScriptArray WITH
    Kind <- "object", N <- 3, Low <- 1, Values <- {0, 1}, Arrays <- {1, 2},
    Methods <- <<"opCmp", "opEquals">>, MaxSize <- 2, buffer <- s1, heap <- s2, held <- s3,
    want <- s4, off <- s5

\* Numbers of which 32 bits hold 0 and 1, and 2 needs 64.
Numbers == INSTANCE ScriptArray WITH
    Kind <- "primitive", N <- 0, Low <- 2, Values <- 0..2, Arrays <- {1}, Methods <- <<>>,
    MaxSize <- 3, buffer <- s1, heap <- s2, held <- s3, want <- s4, off <- s5

Awaits == INSTANCE ScriptPromise WITH
    Promises <- {"a", "b", "c"}, Await <- TRUE, Subcalls <- FALSE, state <- s1, phase <- s2,
    deny <- s3, user <- s4, stops <- s5, deferred <- s6, expr <- s7, value <- s8, native <- s9,
    link <- s10, storing <- s11, callback <- s12, got <- s13, queue <- s14, loop <- s15,
    apart <- s16

Nested == INSTANCE ScriptPromise WITH
    Promises <- {"a", "b"}, Await <- FALSE, Subcalls <- TRUE, state <- s1, phase <- s2,
    deny <- s3, user <- s4, stops <- s5, deferred <- s6, expr <- s7, value <- s8, native <- s9,
    link <- s10, storing <- s11, callback <- s12, got <- s13, queue <- s14, loop <- s15,
    apart <- s16

Debug == INSTANCE Debugger WITH
    Contexts <- {"a", "b"}, None <- "none",
    Script <- [a |-> <<Main(1), InF(11), Main(3)>>, b |-> <<Main(1)>>], Initial <- "trigger",
    Points <- BreakPoints, MaxTyped <- 1, MaxRaised <- 1, Spread <- TRUE, Living <- FALSE,
    MayFail <- FALSE, pc <- s1, pos <- s2, state <- s3, aborted <- s4, shown <- s5,
    action <- s6, last_context <- s7, force <- s8, level <- s9, last_function <- s10,
    input_error <- s11, threads <- s12, points <- s13, barrier <- s14, typed <- s15,
    raised <- s16

Prompt == INSTANCE Debugger WITH
    Contexts <- {"a", "b"}, None <- "none",
    Script <- [a |-> <<Main(1), InF(11)>>, b |-> <<Main(1)>>], Initial <- "trigger",
    Points <- BreakPoints, MaxTyped <- 0, MaxRaised <- 1, Spread <- FALSE, Living <- TRUE,
    MayFail <- TRUE, pc <- s1, pos <- s2, state <- s3, aborted <- s4, shown <- s5, action <- s6,
    last_context <- s7, force <- s8, level <- s9, last_function <- s10, input_error <- s11,
    threads <- s12, points <- s13, barrier <- s14, typed <- s15, raised <- s16

Crypto == INSTANCE CryptoHandles WITH
    fun <- s1, rest <- s2, live <- s3, freed <- s4, result <- s5

ASSUME /\ Handles!ArrayAssumption /\ Owns!ArrayAssumption /\ Pair!ArrayAssumption
       /\ Numbers!ArrayAssumption

all == <<part, vars, s1, s2, s3, s4, s5, s6, s7, s8, s9, s10, s11, s12, s13, s14, s15, s16>>

-----------------------------------------------------------------------------
MCInit ==
    /\ part \in Checked
    /\ \/ /\ part = "addons" /\ Init /\ s1 = "off" /\ s2 = "off" /\ s3 = "off" /\ s4 = "off"
          /\ s5 = "off" /\ s6 = "off" /\ s7 = "off" /\ s8 = "off" /\ s9 = "off" /\ s10 = "off"
          /\ s11 = "off" /\ s12 = "off" /\ s13 = "off" /\ s14 = "off" /\ s15 = "off"
          /\ s16 = "off"
       \/ /\ part = "deferred" /\ Init /\ Deferred!Init
          /\ s9 = "off" /\ s10 = "off" /\ s11 = "off" /\ s12 = "off" /\ s13 = "off"
          /\ s14 = "off" /\ s15 = "off" /\ s16 = "off"
       \/ /\ part = "callbacks" /\ Init /\ Callbacks!Init
          /\ s6 = "off" /\ s7 = "off" /\ s8 = "off" /\ s9 = "off" /\ s10 = "off" /\ s11 = "off"
          /\ s12 = "off" /\ s13 = "off" /\ s14 = "off" /\ s15 = "off" /\ s16 = "off"
       \/ /\ part = "handles" /\ Init /\ Handles!Init
          /\ s6 = "off" /\ s7 = "off" /\ s8 = "off" /\ s9 = "off" /\ s10 = "off" /\ s11 = "off"
          /\ s12 = "off" /\ s13 = "off" /\ s14 = "off" /\ s15 = "off" /\ s16 = "off"
       \/ /\ part = "object" /\ Init /\ Owns!Init
          /\ s6 = "off" /\ s7 = "off" /\ s8 = "off" /\ s9 = "off" /\ s10 = "off" /\ s11 = "off"
          /\ s12 = "off" /\ s13 = "off" /\ s14 = "off" /\ s15 = "off" /\ s16 = "off"
       \/ /\ part = "pair" /\ Init /\ Pair!Init
          /\ s6 = "off" /\ s7 = "off" /\ s8 = "off" /\ s9 = "off" /\ s10 = "off" /\ s11 = "off"
          /\ s12 = "off" /\ s13 = "off" /\ s14 = "off" /\ s15 = "off" /\ s16 = "off"
       \/ /\ part = "numbers" /\ Init /\ Numbers!Init
          /\ s6 = "off" /\ s7 = "off" /\ s8 = "off" /\ s9 = "off" /\ s10 = "off" /\ s11 = "off"
          /\ s12 = "off" /\ s13 = "off" /\ s14 = "off" /\ s15 = "off" /\ s16 = "off"
       \/ /\ part = "await" /\ Init /\ Awaits!Init
       \/ /\ part = "subcall" /\ Init /\ Nested!Init
       \/ /\ part = "debug" /\ Init /\ Debug!Init
       \/ /\ part = "prompt" /\ Init /\ Prompt!Init
       \/ /\ part = "crypto" /\ Init /\ Crypto!Init
          /\ s6 = "off" /\ s7 = "off" /\ s8 = "off" /\ s9 = "off" /\ s10 = "off" /\ s11 = "off"
          /\ s12 = "off" /\ s13 = "off" /\ s14 = "off" /\ s15 = "off" /\ s16 = "off"

\* A step of a component.
OfAddon(A) == /\ part = "addons" /\ A
              /\ UNCHANGED <<part, s1, s2, s3, s4, s5, s6, s7, s8, s9, s10, s11, s12, s13, s14, s15,
                      s16>>
OfDeferred(A) == /\ part = "deferred" /\ A
                 /\ UNCHANGED <<part, vars, s9, s10, s11, s12, s13, s14, s15, s16>>
OfCallbacks(A) == /\ part = "callbacks" /\ A
                  /\ UNCHANGED <<part, vars, s6, s7, s8, s9, s10, s11, s12, s13, s14, s15, s16>>
OfHandles(A) == /\ part = "handles" /\ A
                /\ UNCHANGED <<part, vars, s6, s7, s8, s9, s10, s11, s12, s13, s14, s15, s16>>
OfOwns(A) == /\ part = "object" /\ A
             /\ UNCHANGED <<part, vars, s6, s7, s8, s9, s10, s11, s12, s13, s14, s15, s16>>
OfPair(A) == /\ part = "pair" /\ A
             /\ UNCHANGED <<part, vars, s6, s7, s8, s9, s10, s11, s12, s13, s14, s15, s16>>
OfNumbers(A) == /\ part = "numbers" /\ A
                /\ UNCHANGED <<part, vars, s6, s7, s8, s9, s10, s11, s12, s13, s14, s15, s16>>
OfAwaits(A) == /\ part = "await" /\ A /\ UNCHANGED <<part, vars>>
OfNested(A) == /\ part = "subcall" /\ A /\ UNCHANGED <<part, vars>>
OfDebug(A) == /\ part = "debug" /\ A /\ UNCHANGED <<part, vars>>
OfPrompt(A) == /\ part = "prompt" /\ A /\ UNCHANGED <<part, vars>>
OfCrypto(A) == /\ part = "crypto" /\ A
               /\ UNCHANGED <<part, vars, s6, s7, s8, s9, s10, s11, s12, s13, s14, s15, s16>>

MCNext ==
    \/ OfAddon(Next)
    \/ OfDeferred(Deferred!Next)
    \/ OfCallbacks(Callbacks!Next)
    \/ OfHandles(Handles!Next)
    \/ OfOwns(Owns!Next)
    \/ OfPair(Pair!Next)
    \/ OfNumbers(Numbers!Next)
    \/ OfAwaits(Awaits!Next)
    \/ OfNested(Nested!Next)
    \/ OfDebug(Debug!Next)
    \/ OfPrompt(Prompt!Next)
    \/ OfCrypto(Crypto!Next)

(* Threads run: the one that imports, the one of a context and the ones of *)
(* its promises.  A context polls until it gets the barrier, and the user  *)
(* of the debugger resumes execution in the end.                           *)
Fair ==
    /\ WF_all(OfAwaits(Awaits!Thread))
    /\ \A i \in {"a", "b", "c"} :
        WF_all(OfAwaits(Awaits!RunStop(i))) /\ WF_all(OfAwaits(Awaits!Native(i)))
    /\ WF_all(OfAwaits(Awaits!yield_if("c") \/ Awaits!retrieve_void("c")))
    /\ \A i \in {"a", "b"} :
        /\ WF_all(\/ OfAddon(Depend(i) \/ Load(i) \/ Return(i))
                  \/ OfAwaits(Awaits!yield_if(i) \/ Awaits!retrieve_void(i))
                  \/ OfPrompt(Prompt!Goes(i)))
        /\ SF_all(OfPrompt(Prompt!Retry(i))) /\ SF_all(OfPrompt(Prompt!Continue(i)))

MCSpec == MCInit /\ [][MCNext]_all

FairSpec == MCSpec /\ Fair

-----------------------------------------------------------------------------
(* What native code refers to is alive and what it has done with is given  *)
(* back: the functions of a script behind its callbacks, the handles of a  *)
(* deferred call, and the objects of openssl, files, streams and servers   *)
(* that a function owns, on every early return.  CallbackLives excepts the *)
(* callbacks of a web socket, CallbackFreed the hooks of an application    *)
(* and promise.when, Balanced the synchronous reads in chunks, NothingHeld *)
(* three returns.                                                          *)
ReferencesBalanced ==
    /\ part = "callbacks" => Callbacks!CallbackLives /\ Callbacks!CallbackFreed
    /\ part = "deferred" => Deferred!Balanced
    /\ part = "crypto" => Crypto!NothingHeld


(* A script learns how its operation ended: an await reports the failure   *)
(* of what it awaited and no other, none is dropped, a callback runs once  *)
(* the promise is settled, and a call settles its promise on every path.   *)
(* With two calls outstanding, or for one that fails while the script is   *)
(* at something else, a failure is told but not at its await (OwnError);   *)
(* Unseen names the calls whose failure the script is not told.            *)
OutcomesTold ==
    /\ part = "await" => Awaits!TypeOK /\ Awaits!OwnError /\ Awaits!NoDroppedError /\ Awaits!CallbackRuns
    /\ part = "subcall" => Nested!TypeOK /\ Nested!OwnError /\ Nested!NoDroppedError /\ Nested!CallbackRuns
    /\ part = "deferred" => Deferred!TypeOK /\ Deferred!NoneForgotten /\ Deferred!ErrorSeen

(* No context passes a break point or leaves an exception without being    *)
(* prompted, nor runs while another one is asked for; a context is         *)
(* registered while it runs.  No object a function owns is freed twice,    *)
(* but by ec_rs_to_der.                                                    *)
NothingSlipsBy ==
    /\ [](part = "debug" => Debug!TypeOK /\ Debug!Registered)
    /\ [][part = "debug" => /\ Debug!BreakPointsStop /\ Debug!ExceptionsShown
                            /\ Debug!SwitchExact]_all
    /\ [][part = "crypto" => Crypto!FreedOnce]_all

Pending(i) ==
    \/ part = "addons" /\ i # "c" /\ ~Idle(i)
    \/ part = "await" /\ Awaits!Unsettled(i)
    \/ part = "prompt" /\ i # "c" /\ Prompt!Asked(i)

Over(i) ==
    \/ part = "addons" /\ i # "c" /\ Idle(i)
    \/ part = "await" /\ ~Awaits!Unsettled(i)
    \/ part = "prompt" /\ i # "c" /\ Prompt!Granted(i)

Waiting ==
    \/ part = "await" /\ Awaits!Asleep
    \/ part = "prompt" /\ Prompt!Forced

Resumed ==
    \/ part = "await" /\ Awaits!Awake
    \/ part = "prompt" /\ ~Prompt!Forced

(* Imports return, promises are settled, a suspended context is resumed, a *)
(* context that is asked for is prompted, an exception that holds the      *)
(* others still is handled, and both a failure of the input and the end of *)
(* a script end their threads.                                             *)
ScriptsGoOn ==
    /\ \A i \in {"a", "b", "c"} : Pending(i) ~> Over(i)
    /\ Waiting ~> Resumed
    /\ (part = "await" \/ (part = "prompt" /\ Prompt!InputFailed)) ~>
        (part = "await" /\ Awaits!LoopEnded) \/ (part = "prompt" /\ Prompt!AllDone)
=============================================================================
