----------------------------- MODULE Multiplexer -----------------------------
(***************************************************************************)
(* network::multiplexer (network.cpp): sockets with at most one read and   *)
(* one write callback, the epoll set, the map of socket timers, and the    *)
(* loop that dispatches events and expired timers, against threads that    *)
(* register and cancel callbacks.                                          *)
(*                                                                         *)
(* Two kinds of locks are involved: events.mutex of each socket, and       *)
(* multiplexer::exclusive around the timers.  A thread keeps the mutex of  *)
(* its socket while it waits for `exclusive`; dispatch_timers keeps        *)
(* `exclusive` while it waits for the mutex of the socket that expired.    *)
(***************************************************************************)
EXTENDS Integers, FiniteSets

CONSTANTS
    Sockets,
    Callers,        \* threads that call when_readable, when_writeable, ...
    Dispatcher,     \* the thread that runs try_dispatch
    Requests,       \* the callbacks that are registered
    Timeouts,       \* values given to set_io_timeout
    Cancels,        \* whether callers cancel sockets that somebody waits for
    Retimes,        \* whether set_io_timeout is called on such sockets
    Horizon,        \* bound: from here on no caller registers, no peer answers
    MaxClock,       \* bound: the clock stops here
    None

Threads == Callers \cup {Dispatcher}
Ways == {"r", "w"}

MultiplexerAssumption ==
    /\ Dispatcher \notin Callers
    /\ None \notin Threads /\ None \notin Sockets /\ None \notin Requests
    /\ IsFiniteSet(Sockets)
    /\ Timeouts \subseteq Nat
    /\ Cancels \in BOOLEAN /\ Retimes \in BOOLEAN
    /\ Horizon \in Nat /\ MaxClock \in Nat

VARIABLES
    callback,       \* events.read_callback and write_callback of each socket
    timeout,        \* events.timeout
    expiration,     \* events.expiration: 0, -1 when tracked, or a key of timers
    mutex,          \* holder of events.mutex
    interest,       \* what epoll watches for each socket
    timers,         \* multiplexer::timers: pairs <<key, socket>>
    trackers,       \* multiplexer::trackers
    exclusive,      \* holder of multiplexer::exclusive
    frame,          \* what each thread has left to do under a socket's mutex
    loop,           \* where the dispatcher is
    ready,          \* the events of handle.wait() that are not dispatched yet
    expired,        \* the timer that dispatch_timers is at
    time,           \* the clock that dispatch() has read
    clock,
    answer          \* history: what each callback was called with

events == <<callback, timeout, expiration, mutex>>
polling == <<loop, ready, expired, time>>
vars == <<events, interest, timers, trackers, exclusive, frame, polling, clock, answer>>

-----------------------------------------------------------------------------
(* A thread inside add_timeout or remove_timeout: the socket whose mutex   *)
(* it holds, the callbacks that it has taken out and calls once it has     *)
(* unlocked, and with what.  `expires` is the key to add, 0 for a tracker; *)
(* `readd` says that add_timeout follows remove_timeout.                   *)
NoFrame == [step |-> "none", sock |-> None, kind |-> "none", expires |-> 0,
            taken |-> {}, event |-> "none", readd |-> FALSE]

Frames == [step : {"none", "add", "remove"}, sock : Sockets \cup {None},
           kind : {"none", "timer", "tracker"}, expires : Nat,
           taken : SUBSET Requests, event : {"none", "finish", "cancel", "reset",
           "discarded"}, readd : BOOLEAN]

Answers == {"fresh", "waiting", "finish", "timeout", "reset", "cancel", "discarded"}

Listening(s) == \E d \in Ways : callback[s][d] # None
Wanted(s) == {d \in Ways : callback[s][d] # None}
Keys == {e[1] : e \in timers}

(* cospawn of the callbacks in `taken`, when the mutex is free again.      *)
Answer(taken, event) ==
    answer' = [r \in Requests |-> IF r \in taken THEN event ELSE answer[r]]

(* Take the callbacks of directions D out of a socket.                     *)
Taken(s, D) == {callback[s][d] : d \in D} \ {None}
Cleared(s, D) == [callback EXCEPT ![s] = [d \in Ways |-> IF d \in D THEN None ELSE @[d]]]

Expires(s, now) == IF timeout[s] > 0 THEN now + timeout[s] ELSE 0

Init ==
    /\ callback = [s \in Sockets |-> [d \in Ways |-> None]]
    /\ timeout \in [Sockets -> Timeouts]
    /\ expiration = [s \in Sockets |-> 0]
    /\ mutex = [s \in Sockets |-> None]
    /\ interest = [s \in Sockets |-> {}]
    /\ timers = {} /\ trackers = {} /\ exclusive = None
    /\ frame = [p \in Threads |-> NoFrame]
    /\ loop = "wait" /\ ready = [s \in Sockets |-> {}] /\ expired = None
    /\ time = 0 /\ clock = 0
    /\ answer = [r \in Requests |-> "fresh"]

Idle(p) == frame[p] = NoFrame

-----------------------------------------------------------------------------
(* epoll_ctl: ADD fails for a socket that is in the set, MOD for one that  *)
(* is not.                                                                 *)
epoll_add(s, D) == IF interest[s] = {} THEN [interest EXCEPT ![s] = D] ELSE interest

epoll_update(s, D) == IF interest[s] # {} THEN [interest EXCEPT ![s] = D] ELSE interest
epoll_remove(s) == [interest EXCEPT ![s] = {}]

(* when_readable and when_writeable.  The socket is added to epoll unless  *)
(* the same direction was registered, also if the other one was.           *)
when(p, s, d, r) ==
    /\ p \in Callers /\ Idle(p) /\ mutex[s] = None
    /\ answer[r] = "fresh" /\ clock < Horizon
    /\ callback' = [callback EXCEPT ![s][d] = r]
    /\ interest' = IF callback[s][d] # None THEN epoll_update(s, Wanted(s) \cup {d})
                   ELSE epoll_add(s, Wanted(s) \cup {d})
    /\ answer' = [q \in Requests |-> IF q = r THEN "waiting"
                                     ELSE IF q = callback[s][d] THEN "cancel"
                                     ELSE answer[q]]
    /\ IF Listening(s)
       THEN UNCHANGED <<mutex, frame>>
       ELSE /\ mutex' = [mutex EXCEPT ![s] = p]
            /\ frame' = [frame EXCEPT ![p] = [NoFrame EXCEPT
                            !.step = "add", !.sock = s, !.expires = Expires(s, clock)]]
    /\ UNCHANGED <<timeout, expiration, timers, trackers, exclusive, polling, clock>>

(* The body of cancel_events and of the end of dispatch_events: callbacks  *)
(* D of a socket are taken out; remove_timeout, which reads the expiration *)
(* before it locks, is left to the frame of the thread if it has to lock.  *)
Unlisten(p, s, D, event) ==
    LET taken == Taken(s, D)
    IN  /\ callback' = Cleared(s, D)
        /\ interest' = IF taken # {} THEN epoll_remove(s) ELSE interest
        /\ IF taken = {} \/ expiration[s] = 0
           THEN Answer(taken, event) /\ UNCHANGED <<mutex, frame>>
           ELSE /\ mutex' = [mutex EXCEPT ![s] = p]
                /\ frame' = [frame EXCEPT ![p] = [NoFrame EXCEPT
                        !.step = "remove", !.sock = s, !.taken = taken, !.event = event,
                        !.kind = IF expiration[s] > 0 THEN "timer" ELSE "tracker"]]
                /\ UNCHANGED answer

cancel_events(p, s, event) == mutex[s] = None /\ Unlisten(p, s, Ways, event)

(* cancel_events and clear_events called by a thread of the program; they  *)
(* do nothing to a socket that nobody waits for.                           *)
cancel(p, s, event) ==
    /\ p \in Callers /\ Idle(p)
    /\ Cancels /\ Listening(s)
    /\ cancel_events(p, s, event)
    /\ UNCHANGED <<timeout, expiration, timers, trackers, exclusive, polling, clock>>

(* set_io_timeout, which takes no lock.  The network code itself calls it  *)
(* on sockets that nobody waits for only.                                  *)
set_io_timeout(s, t) ==
    /\ Retimes \/ (~Listening(s) /\ mutex[s] = None)
    /\ timeout[s] # t /\ clock < Horizon
    /\ timeout' = [timeout EXCEPT ![s] = t]
    /\ UNCHANGED <<callback, expiration, mutex, interest, timers, trackers, exclusive,
                   frame, polling, clock, answer>>

-----------------------------------------------------------------------------
(* The critical sections on `exclusive`, of a thread that holds a mutex.   *)

Unlock(p) ==
    /\ mutex' = [mutex EXCEPT ![frame[p].sock] = None]
    /\ frame' = [frame EXCEPT ![p] = NoFrame]
    /\ Answer(frame[p].taken, frame[p].event)

(* The first key from `at` on that no timer has.                           *)
FreeKey(at) ==
    CHOOSE k \in at..(at + Cardinality(timers)) :
        k \notin Keys /\ \A m \in at..(k - 1) : m \in Keys

(* Faulty add_timeout: the timer of another socket is overwritten.         *)
add_timeout_overwrites(p) ==
    LET s == frame[p].sock  k == frame[p].expires
    IN  /\ frame[p].step = "add" /\ exclusive = None
        /\ timers' = IF k > 0 THEN {e \in timers : e[1] # k} \cup {<<k, s>>} ELSE timers
        /\ trackers' = IF k > 0 THEN trackers ELSE trackers \cup {s}
        /\ expiration' = [expiration EXCEPT ![s] = IF k > 0 THEN k ELSE -1]
        /\ Unlock(p)
        /\ UNCHANGED <<callback, timeout, interest, exclusive, polling, clock>>

add_timeout(p) ==
    LET s == frame[p].sock
    IN  /\ frame[p].step = "add" /\ exclusive = None
        /\ IF frame[p].expires > 0
           THEN \E k \in {FreeKey(frame[p].expires)} :
                    /\ timers' = timers \cup {<<k, s>>}
                    /\ expiration' = [expiration EXCEPT ![s] = k]
                    /\ UNCHANGED trackers
           ELSE /\ trackers' = trackers \cup {s}
                /\ expiration' = [expiration EXCEPT ![s] = -1]
                /\ UNCHANGED timers
        /\ Unlock(p)
        /\ UNCHANGED <<callback, timeout, interest, exclusive, polling, clock>>

(* The key is read again under the lock.                                   *)
remove_timeout(p) ==
    LET s == frame[p].sock
    IN  /\ frame[p].step = "remove" /\ exclusive = None
        /\ expiration' = [expiration EXCEPT ![s] = 0]
        /\ IF frame[p].kind = "timer"
           THEN timers' = {e \in timers : e[1] # expiration[s]} /\ UNCHANGED trackers
           ELSE trackers' = trackers \ {s} /\ UNCHANGED timers
        /\ IF frame[p].readd
           THEN /\ frame' = [frame EXCEPT ![p].step = "add"]
                /\ UNCHANGED <<mutex, answer>>
           ELSE Unlock(p)
        /\ UNCHANGED <<callback, timeout, interest, exclusive, polling, clock>>

-----------------------------------------------------------------------------
(* dispatch(): wait for events, dispatch each, then the timers.            *)

(* handle.wait(): any of what epoll watches, or an error on the socket.    *)
Reported(s) ==
    IF interest[s] = {} \/ clock >= Horizon THEN {{}}
    ELSE SUBSET interest[s] \cup {{"c"}}

dispatch ==
    /\ loop = "wait"
    /\ \E f \in [Sockets -> SUBSET {"r", "w", "c"}] :
        /\ \A s \in Sockets : f[s] \in Reported(s)
        /\ ready' = f
    /\ time' = clock
    /\ loop' = "events"
    /\ UNCHANGED <<events, interest, timers, trackers, exclusive, frame, expired, clock,
                   answer>>

(* Some of the directions have an event, others are still waited for: the  *)
(* timer starts anew.                                                      *)
StillListening(s, D) ==
    LET taken == Taken(s, D)
    IN  /\ callback' = Cleared(s, D)
        /\ interest' = IF taken # {} THEN epoll_update(s, Wanted(s) \ D) ELSE interest
        /\ mutex' = [mutex EXCEPT ![s] = Dispatcher]
        /\ frame' = [frame EXCEPT ![Dispatcher] = [NoFrame EXCEPT
                        !.step = IF expiration[s] = 0 THEN "add" ELSE "remove",
                        !.sock = s, !.taken = taken, !.event = "finish", !.readd = TRUE,
                        !.kind = IF expiration[s] > 0 THEN "timer" ELSE "tracker",
                        !.expires = Expires(s, time)]]
        /\ UNCHANGED answer

dispatch_events(s) ==
    /\ loop = "events" /\ Idle(Dispatcher) /\ ready[s] # {} /\ mutex[s] = None
    /\ ready' = [ready EXCEPT ![s] = {}]
    /\ IF "c" \in ready[s] THEN cancel_events(Dispatcher, s, "reset")
       ELSE IF Wanted(s) \ ready[s] # {} THEN StillListening(s, ready[s])
       ELSE Unlisten(Dispatcher, s, ready[s], "finish")
    /\ UNCHANGED <<timeout, expiration, timers, trackers, exclusive, loop, expired, time,
                   clock>>

(* dispatch_timers returns at once if there is no timer; try_dispatch then *)
(* enqueues itself again.                                                  *)
events_dispatched ==
    /\ loop = "events" /\ Idle(Dispatcher) /\ \A s \in Sockets : ready[s] = {}
    /\ loop' = IF timers = {} THEN "wait" ELSE "lock"
    /\ UNCHANGED <<events, interest, timers, trackers, exclusive, frame, ready, expired,
                   time, clock, answer>>

lock_timers ==
    /\ loop = "lock" /\ exclusive = None
    /\ exclusive' = Dispatcher
    /\ loop' = "timers"
    /\ UNCHANGED <<events, interest, timers, trackers, frame, ready, expired, time, clock,
                   answer>>

IsFirst(e) == \A o \in timers : e[1] <= o[1]

(* The first timer has expired.  Its socket is told unless its timeout has *)
(* been set to 0 since.                                                    *)
dispatch_timers ==
    /\ loop = "timers"
    /\ \E e \in timers :
        /\ IsFirst(e) /\ e[1] <= time
        /\ expiration' = [expiration EXCEPT ![e[2]] = 0]
        /\ IF timeout[e[2]] > 0
           THEN expired' = e[2] /\ loop' = "expire" /\ UNCHANGED timers
           ELSE timers' = timers \ {e} /\ UNCHANGED <<expired, loop>>
    /\ UNCHANGED <<callback, timeout, mutex, interest, trackers, exclusive, frame, ready,
                   time, clock, answer>>

(* Faulty expire: the timer goes and nobody is told.                       *)
expire_silent ==
    /\ loop = "expire" /\ mutex[expired] = None
    /\ timers' = {e \in timers : ~IsFirst(e)}
    /\ expired' = None /\ loop' = "timers"
    /\ UNCHANGED <<events, interest, trackers, exclusive, frame, ready, time, clock,
                   answer>>

(* cancel_events(timeout), with `exclusive` held, and timers.erase(it).    *)
expire ==
    /\ loop = "expire" /\ mutex[expired] = None /\ expiration[expired] = 0
    /\ callback' = Cleared(expired, Ways)
    /\ interest' = IF Listening(expired) THEN epoll_remove(expired) ELSE interest
    /\ Answer(Taken(expired, Ways), "timeout")
    /\ timers' = {e \in timers : ~IsFirst(e)}
    /\ expired' = None /\ loop' = "timers"
    /\ UNCHANGED <<timeout, expiration, mutex, trackers, exclusive, frame, ready, time,
                   clock>>

timers_dispatched ==
    /\ loop = "timers" /\ \A k \in Keys : k > time
    /\ exclusive' = None
    /\ loop' = "wait"
    /\ UNCHANGED <<events, interest, timers, trackers, frame, ready, expired, time, clock,
                   answer>>

tick ==
    /\ clock < MaxClock
    /\ clock' = clock + 1
    /\ UNCHANGED <<events, interest, timers, trackers, exclusive, frame, polling, answer>>

-----------------------------------------------------------------------------
Timeout(p) == add_timeout(p) \/ remove_timeout(p)

Dispatch ==
    \/ dispatch \/ events_dispatched \/ lock_timers \/ dispatch_timers \/ expire
    \/ timers_dispatched
    \/ \E s \in Sockets : dispatch_events(s)

Next ==
    \/ \E p \in Callers, s \in Sockets :
        \/ \E d \in Ways, r \in Requests : when(p, s, d, r)
        \/ \E event \in {"cancel", "discarded"} : cancel(p, s, event)
    \/ \E s \in Sockets, t \in Timeouts : set_io_timeout(s, t)
    \/ \E p \in Threads : Timeout(p)
    \/ Dispatch
    \/ tick

Spec == Init /\ [][Next]_vars

(* The dispatcher is a task that is always enqueued again; a mutex that is *)
(* free again and again is acquired; time passes.                          *)
Fairness ==
    /\ SF_vars(Dispatch) /\ WF_vars(tick)
    /\ \A p \in Threads : SF_vars(Timeout(p))

FairSpec == Spec /\ Fairness

-----------------------------------------------------------------------------
(* The type of the state.                                                  *)
TypeOK ==
    /\ callback \in [Sockets -> [Ways -> Requests \cup {None}]]
    /\ timeout \in [Sockets -> Timeouts]
    /\ expiration \in [Sockets -> Int]
    /\ mutex \in [Sockets -> Threads \cup {None}]
    /\ interest \in [Sockets -> SUBSET Ways]
    /\ timers \subseteq Nat \X Sockets /\ trackers \subseteq Sockets
    /\ exclusive \in {None, Dispatcher}
    /\ frame \in [Threads -> Frames]
    /\ loop \in {"wait", "events", "lock", "timers", "expire"}
    /\ ready \in [Sockets -> SUBSET {"r", "w", "c"}]
    /\ expired \in Sockets \cup {None} /\ time \in Nat /\ clock \in Nat
    /\ answer \in [Requests -> Answers]
    /\ \A p \in Threads : frame[p].sock # None => mutex[frame[p].sock] = p

(* A callback that was registered and not called yet is in one slot of one *)
(* socket, or was taken out by one thread that is about to call it; none   *)
(* that was called or discarded is anywhere.  So each is called once.      *)
CalledOnce ==
    \A r \in Requests :
        LET slots == {x \in Sockets \X Ways : callback[x[1]][x[2]] = r}
            owners == {p \in Threads : r \in frame[p].taken}
        IN  Cardinality(slots) + Cardinality(owners) = IF answer[r] = "waiting" THEN 1 ELSE 0

(* A socket whose mutex is free is in the timers or the trackers exactly   *)
(* while somebody waits for it, once, and under the key that it knows: the *)
(* raw pointers in there never outlive the callbacks that keep the socket. *)
(* dispatch_timers is at liberty with the one that it has just expired;    *)
(* a timer that expires after its timeout was set to 0 is gone for good.   *)
TimersMatch ==
    \A s \in Sockets : mutex[s] = None /\ s # expired =>
        /\ expiration[s] # 0 => Listening(s)
        /\ Listening(s) => expiration[s] # 0 \/ Retimes
        /\ {e[1] : e \in {o \in timers : o[2] = s}} = {k \in {expiration[s]} : k > 0}
        /\ s \in trackers <=> expiration[s] < 0

(* "socket timeout update de-sync happend" of remove_timeout: the timer    *)
(* that a thread is about to remove is there.                              *)
InSync ==
    \A p \in Threads :
        frame[p].step = "remove" /\ frame[p].kind = "timer" /\ exclusive = None
            => <<expiration[frame[p].sock], frame[p].sock>> \in timers

(* What somebody waits for is polled; if both directions of a socket are   *)
(* waited for, one of them may be left out, because when_readable then     *)
(* adds a socket to epoll that is already there.                           *)
Polled ==
    \A s \in Sockets : mutex[s] = None =>
        /\ interest[s] \subseteq Wanted(s)
        /\ interest[s] # Wanted(s) => interest[s] # {} /\ Wanted(s) = Ways

(* The dispatcher, which holds `exclusive`, and a thread that holds the    *)
(* mutex of the expired socket do not wait for each other.                 *)
NoDeadlock ==
    loop = "expire" => mutex[expired] = None

(* Whoever waits on a socket that has a timeout is called.                 *)
Awaited(s, r) == timeout[s] > 0 /\ \E d \in Ways : callback[s][d] = r

Called(r) == answer[r] # "waiting"
=============================================================================
