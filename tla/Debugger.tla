------------------------------ MODULE Debugger ------------------------------
(***************************************************************************)
(* debugger_context of scripting.cpp with the script contexts it is        *)
(* attached to, each on a thread of its own.  The engine calls             *)
(* line_callback before every line, for an uncaught exception and when a   *)
(* context ends.  The callback registers the context, polls for the        *)
(* thread_barrier until the command in force lets it through, and either   *)
(* returns or prompts for commands while it holds the barrier.             *)
(*                                                                         *)
(* pc of a context: "run" outside the callback, "retry" at the barrier,    *)
(* "prompt" at the prompt, "exec" back in the engine, "done" ended.        *)
(* A script is the sequence of lines it will execute.  Commands that only  *)
(* print are left out.                                                     *)
(***************************************************************************)
EXTENDS Integers, SequencesExt

CONSTANTS
  Contexts,   \* script contexts
  None,       \* no context or function
  Script,     \* context -> sequence of lines: function, line number, depth
  Initial,    \* action the debugger starts with
  Points,     \* break points the user may add: function, line, by function
  MaxTyped,   \* commands that add or delete break points
  MaxRaised,  \* uncaught exceptions
  Spread,     \* TRUE: no exception while another one is handled
  Living,     \* TRUE: the user switches only to contexts that still run
  MayFail     \* TRUE: the input may end

VARIABLES
  pc, pos, state, aborted,           \* per context
  shown,                             \* context -> prompted for the current line
  action, last_context, force, level, last_function, input_error,
  threads,                           \* registered contexts
  points,                            \* break_points
  barrier,                           \* holder of thread_barrier
  typed, raised

ctx == <<pc, pos, state, aborted>>
user == <<typed, raised>>
vars == <<pc, pos, state, aborted, shown, action, last_context, force, level, last_function,
          input_error, threads, points, barrier, typed, raised>>

\* A break point moves by less than this many lines.
Near == 10

Line(t) == Script[t][pos[t]]

\* GetState() = asEXECUTION_EXCEPTION: in the exception callback, and in the
\* last call of line_callback of a context that failed.
Raised(t) == state[t] \in {"exception", "failed"}

-----------------------------------------------------------------------------
(* Break points. *)

\* asIScriptFunction::FindNextLineWithCode for a line inside the function.
FindNextLineWithCode(fn, line) ==
  LET lines == {Script[t][i].line : <<t, i>> \in
                  {<<u, j>> \in Contexts \X (1..5) : j <= Len(Script[u]) /\ Script[u][j].fn = fn}}
      later == {l \in lines : l >= line}
  IN  IF later = {} \/ \A l \in lines : line < l THEN -1
      ELSE CHOOSE l \in later : \A m \in later : l <= m

\* On entering a function: its deferred break points become line break
\* points here, and line break points move to the next line with code.
Adjusted(p, here) ==
  IF p.function THEN
    IF p.fn = here.fn THEN [fn |-> None, line |-> here.line, function |-> FALSE, adjust |-> FALSE] ELSE p
  ELSE LET n == FindNextLineWithCode(here.fn, p.line)
       IN  IF p.adjust /\ n >= 0
           THEN [p EXCEPT !.adjust = FALSE, !.line = IF n - @ < Near THEN n ELSE @]
           ELSE p

Entered(here) ==
  IF last_function = here.fn THEN points
  ELSE [n \in DOMAIN points |-> Adjusted(points[n], here)]

Hit(list, here) == \E n \in DOMAIN list : ~list[n].function /\ list[n].line = here.line

\* check_break_point: its effects; the result is Hit(Entered(here), here).
check_break_point(here) == points' = Entered(here) /\ last_function' = here.fn

-----------------------------------------------------------------------------
Init ==
  /\ pc = [t \in Contexts |-> "run"]
  /\ pos = [t \in Contexts |-> 1]
  /\ state = [t \in Contexts |-> "active"]
  /\ aborted = [t \in Contexts |-> FALSE]
  /\ shown = [t \in Contexts |-> FALSE]
  /\ action = Initial /\ last_context = None /\ force = 0 /\ level = 0
  /\ last_function = None /\ input_error = FALSE
  /\ threads = <<>> /\ points = <<>> /\ barrier = None
  /\ typed = 0 /\ raised = 0

\* line_callback is called: a context that ended is removed, any other one
\* is registered; an exception asks the other contexts to wait.
line_callback(t) ==
  /\ pc[t] = "run"
  /\ threads' = (CASE state[t] = "ended" -> SelectSeq(threads, LAMBDA u : u # t)
                   [] t \in Range(threads) -> threads
                   [] OTHER -> Append(threads, t))
  /\ pc' = [pc EXCEPT ![t] = IF state[t] = "ended" THEN "done" ELSE "retry"]
  /\ force' = (IF Raised(t) THEN 1 ELSE force)
  /\ UNCHANGED <<pos, state, aborted, shown, action, last_context, level, last_function, input_error,
                 points, barrier, user>>

Prompts(t) == pc' = [pc EXCEPT ![t] = "prompt"] /\ barrier' = t /\ shown' = [shown EXCEPT ![t] = TRUE]

Returns(t) == pc' = [pc EXCEPT ![t] = "exec"] /\ barrier' = None /\ UNCHANGED shown

Checks(t) ==
  /\ check_break_point(Line(t))
  /\ IF Hit(Entered(Line(t)), Line(t)) THEN Prompts(t) ELSE Returns(t)

Stops(t) == Prompts(t) /\ UNCHANGED <<points, last_function>>

AtBarrier(t) ==
  /\ pc[t] = "retry" /\ barrier = None
  /\ last_context' = t
  /\ UNCHANGED <<pos, state, aborted, level, input_error, threads, user>>

\* The exception this context waits with goes first.
RetryException(t) ==
  /\ AtBarrier(t)
  /\ force > 0 /\ Raised(t)
  /\ action' = "trigger" /\ force' = 0
  /\ Stops(t)

Free(t) == AtBarrier(t) /\ force = 0 /\ UNCHANGED force

RetryNext(t) == Free(t) /\ action = "next" /\ Checks(t) /\ UNCHANGED action

\* Every other context waits until the chosen one comes by.
RetryMatch(t) == Free(t) /\ action = "match" /\ last_context = t /\ Stops(t) /\ action' = "trigger"

BrokenStepOver(t) ==
  /\ Free(t) /\ action = "step_over" /\ UNCHANGED action
  /\ IF Line(t).depth > level THEN Returns(t) /\ UNCHANGED <<points, last_function>> ELSE Stops(t)

RetryStepOver(t) ==
  /\ Free(t) /\ action = "step_over" /\ UNCHANGED action
  /\ IF Line(t).depth > level THEN Checks(t) ELSE Stops(t)

RetryStepOut(t) ==
  /\ Free(t) /\ action = "step_out" /\ UNCHANGED action
  /\ IF Line(t).depth >= level THEN Checks(t) ELSE Stops(t)

RetryStepInto(t) ==
  Free(t) /\ action = "step_into" /\ check_break_point(Line(t)) /\ Prompts(t) /\ UNCHANGED action

RetryInterrupt(t) == Free(t) /\ action = "interrupt" /\ Stops(t) /\ action' = "trigger"

RetryTrigger(t) == Free(t) /\ action = "trigger" /\ Stops(t) /\ UNCHANGED action

Retry(t) ==
  \/ RetryException(t) \/ RetryNext(t) \/ RetryMatch(t) \/ RetryStepOver(t) \/ RetryStepOut(t)
  \/ RetryStepInto(t) \/ RetryInterrupt(t) \/ RetryTrigger(t)

-----------------------------------------------------------------------------
(* The prompt. *)

AtPrompt(t) == pc[t] = "prompt" /\ ~input_error

\* After the input: back to the barrier when another context was asked for
\* or an exception is waiting, else back to the engine.
Leave(t, next) ==
  /\ pc' = [pc EXCEPT ![t] = IF next = "match" \/ force > 0 THEN "retry" ELSE "exec"]
  /\ barrier' = None

Resume(t, next, depth) ==
  /\ AtPrompt(t)
  /\ action' = next
  /\ level' = depth
  /\ Leave(t, next)
  /\ UNCHANGED <<pos, state, aborted, shown, last_context, force, last_function, input_error, threads,
                 points, user>>

Continue(t) == Resume(t, "next", level)

StepInto(t) == Resume(t, "step_into", level)

StepOver(t) == Resume(t, "step_over", Line(t).depth)

StepOut(t) == Resume(t, "step_out", Line(t).depth)

\* "thread": another registered context is asked for.
Thread(t) ==
  \E u \in Range(threads) \ {t} :
    /\ AtPrompt(t)
    /\ Living => state[u] = "active"
    /\ action' = "match"
    /\ last_context' = u
    /\ Leave(t, "match")
    /\ UNCHANGED <<pos, state, aborted, shown, force, level, last_function, input_error, threads, points, user>>

\* Commands after which the prompt stays.
Type(t) ==
  /\ AtPrompt(t) /\ typed < MaxTyped
  /\ typed' = typed + 1
  /\ UNCHANGED <<pc, pos, state, shown, action, last_context, force, level, last_function, input_error,
                 threads, barrier, raised>>

Break(t) == \E p \in Points : Type(t) /\ points' = Append(points, p) /\ UNCHANGED aborted

Delete(t) ==
  /\ Type(t) /\ UNCHANGED aborted
  /\ \/ points' = <<>>
     \/ \E n \in DOMAIN points : points' = RemoveAt(points, n)

Abort(t) == Type(t) /\ aborted' = [aborted EXCEPT ![t] = TRUE] /\ UNCHANGED points

\* The input ends: every registered context is aborted, and from then on
\* nobody is prompted.
Fail(t) ==
  /\ MayFail /\ AtPrompt(t)
  /\ input_error' = TRUE
  /\ aborted' = [u \in Contexts |-> aborted[u] \/ u \in Range(threads)]
  /\ Leave(t, action)
  /\ UNCHANGED <<pos, state, shown, action, last_context, force, level, last_function, threads, points, user>>

\* input returns at once after a failure.
Skip(t) ==
  /\ pc[t] = "prompt" /\ input_error
  /\ Leave(t, action)
  /\ UNCHANGED <<pos, state, aborted, shown, action, last_context, force, level, last_function,
                 input_error, threads, points, user>>

Command(t) ==
  \/ Continue(t) \/ StepInto(t) \/ StepOver(t) \/ StepOut(t) \/ Thread(t)
  \/ Break(t) \/ Delete(t) \/ Abort(t) \/ Fail(t)

\* debugger_context::interrupt, from any thread.
interrupt ==
  /\ barrier = None
  /\ action \in {"next", "step_into", "step_out"}
  /\ action' = "interrupt"
  /\ UNCHANGED <<ctx, shown, last_context, force, level, last_function, input_error, threads, points,
                 barrier, user>>

-----------------------------------------------------------------------------
(* The engine, as the callbacks rely on it: the line runs, fails with an   *)
(* exception, or was the last one; the callback is called once more with   *)
(* the state in which the context ends.                                    *)

Pending(t) == Raised(t) /\ pc[t] # "done"

Quiet == \A u \in Contexts : ~Pending(u)

Engine(t) ==
  /\ pc[t] = "exec"
  /\ shown' = [shown EXCEPT ![t] = FALSE]
  /\ UNCHANGED <<aborted, action, last_context, force, level, last_function, input_error, threads, points,
                 barrier, typed>>

Execute(t) ==
  /\ Engine(t)
  /\ UNCHANGED raised
  /\ pc' = [pc EXCEPT ![t] = IF state[t] = "failed" THEN "done" ELSE "run"]
  /\ CASE state[t] = "failed" -> UNCHANGED <<pos, state>>
       [] state[t] = "exception" -> state' = [state EXCEPT ![t] = "failed"] /\ UNCHANGED pos
       [] aborted[t] \/ pos[t] = Len(Script[t]) -> state' = [state EXCEPT ![t] = "ended"] /\ UNCHANGED pos
       [] OTHER -> pos' = [pos EXCEPT ![t] = @ + 1] /\ UNCHANGED state

Raise(t) ==
  /\ Engine(t)
  /\ state[t] = "active" /\ ~aborted[t] /\ raised < MaxRaised
  /\ Spread => Quiet
  /\ raised' = raised + 1
  /\ pc' = [pc EXCEPT ![t] = "run"]
  /\ state' = [state EXCEPT ![t] = "exception"]
  /\ UNCHANGED pos

Ended == (\A t \in Contexts : pc[t] = "done") /\ UNCHANGED vars

\* Every context polls for one that was asked for and will not come.
Waits ==
  /\ action = "match" /\ barrier = None
  /\ \A t \in Contexts : pc[t] \in {"retry", "done"}
  /\ pc[last_context] = "done"
  /\ UNCHANGED vars

Step(t) == line_callback(t) \/ Retry(t) \/ Command(t) \/ Skip(t) \/ Execute(t) \/ Raise(t)

Next == (\E t \in Contexts : Step(t)) \/ interrupt \/ Ended \/ Waits

Goes(t) == line_callback(t) \/ Execute(t) \/ Skip(t) \/ Command(t)

\* The engine and the callback go on; the polling context gets the barrier
\* in the end; the user resumes execution in the end.
Fairness ==
  \A t \in Contexts : WF_vars(Goes(t)) /\ SF_vars(Retry(t)) /\ SF_vars(Continue(t))

Spec == Init /\ [][Next]_vars /\ Fairness

-----------------------------------------------------------------------------
(***************************************************************************)
(* Properties.                                                             *)
(***************************************************************************)
TypeOK ==
  /\ pc \in [Contexts -> {"run", "retry", "prompt", "exec", "done"}]
  /\ state \in [Contexts -> {"active", "exception", "failed", "ended"}]
  /\ action \in {"trigger", "interrupt", "match", "next", "step_into", "step_over", "step_out"}
  /\ barrier \in Contexts \cup {None} /\ last_context \in Contexts \cup {None}
  /\ force \in 0..1 /\ Range(threads) \subseteq Contexts

\* A context that passes a line on which some break point stands was
\* prompted for it, whatever commands other contexts were given meanwhile.
BreakPointsStop ==
  \A t \in Contexts :
    pc[t] = "retry" /\ pc'[t] = "exec" /\ state[t] = "active" => ~Hit(points', Line(t))

\* Nobody leaves an exception behind unseen: the context is prompted for it
\* before it ends.
ExceptionsShown == \A t \in Contexts : Raised(t) /\ pc'[t] = "exec" => shown[t]

\* A context is registered once, from its first line until it ended, so that
\* the failure of the input reaches it; one that ended is not aborted later.
Registered ==
  /\ \A t \in Contexts : pc[t] = "done" /\ state[t] = "ended" => t \notin Range(threads)
  /\ \A t \in Contexts : pc[t] \in {"retry", "prompt", "exec"} => t \in Range(threads)
  /\ \A i, j \in DOMAIN threads : threads[i] = threads[j] => i = j

\* While a context is asked for, no other one is prompted or passes a line,
\* unless with an exception.
SwitchExact ==
  \A t \in Contexts :
    action = "match" /\ pc[t] = "retry" /\ pc'[t] # "retry" => t = last_context \/ Raised(t)

\* A request for a context that still runs is granted, or overtaken by an
\* exception or the end of that context.
Asked(t) == action = "match" /\ last_context = t /\ state[t] = "active"

Granted(t) == pc[t] = "prompt" \/ ~Asked(t)

\* While an exception waits, the other contexts hold still, and it is
\* handled; after the input failed every context comes to its end.
Forced == force > 0

InputFailed == input_error

AllDone == \A t \in Contexts : pc[t] = "done"
=============================================================================
