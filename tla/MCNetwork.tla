----------------------------- MODULE MCNetwork -----------------------------
(* The network for TLC. A behaviour is one of SocketWrite, whose state is   *)
(* that of the module it extends, of SocketRead, of Multiplexer, of Uplinks *)
(* or of SocketServer.                                                      *)
EXTENDS SocketWrite

CONSTANT None

VARIABLES
    part,  \* the component that runs in this behaviour
    s1, s2, s3, s4, s5, s6, s7, s8, s9, s10, s11, s12, s13, s14, s15, s16, s17  \* its state

\* SocketWrite while another module runs.
Idle == Init /\ kind = "buffer" /\ payload = 1 /\ available = payload /\ open

Sockets == {"s1", "s2"}
Requests == 1..2
Clients == 1..3
Streams == 1..2
Connections == 1..3

Read == INSTANCE SocketRead WITH
    Modes <- {"read_queued", "read_until", "read_until_queued", "read_until_chunked", "read_until_chunked_queued"},
    Bytes <- {1, 2}, MaxStream <- 4, Matches <- {<<1, 2>>}, BufferSize <- 2, Limits <- {2, 9},
    mode <- s1, stream <- s2, match <- s3, valid <- s4,
    arrived <- s5, peer <- s6, taken <- s7, pc <- s8, cache <- s9, chunk <- s10, length <- s11,
    index <- s12, again <- s13, left <- s14, merge <- s15, rest <- s16, result <- s17

Poll == INSTANCE Multiplexer WITH
    Callers <- {"p1"}, Dispatcher <- "d", Timeouts <- {0, 1}, Cancels <- FALSE,
    Retimes <- FALSE, Horizon <- 1, MaxClock <- 2, callback <- s1, timeout <- s2,
    expiration <- s3, mutex <- s4, interest <- s5, timers <- s6, trackers <- s7,
    exclusive <- s8, frame <- s9, loop <- s10, ready <- s11, expired <- s12, time <- s13,
    clock <- s14, answer <- s15

Cancel == INSTANCE Multiplexer WITH
    Sockets <- {"s1"}, Callers <- {"p1", "p2"}, Dispatcher <- "d", Timeouts <- {0, 1},
    Cancels <- TRUE, Retimes <- FALSE, Horizon <- 1, MaxClock <- 2, callback <- s1,
    timeout <- s2, expiration <- s3, mutex <- s4, interest <- s5, timers <- s6, trackers <- s7,
    exclusive <- s8, frame <- s9, loop <- s10, ready <- s11, expired <- s12, time <- s13,
    clock <- s14, answer <- s15

Retime == INSTANCE Multiplexer WITH
    Sockets <- {"s1"}, Callers <- {"p1"}, Dispatcher <- "d", Timeouts <- {0, 1},
    Cancels <- FALSE, Retimes <- TRUE, Horizon <- 1, MaxClock <- 2, callback <- s1,
    timeout <- s2, expiration <- s3, mutex <- s4, interest <- s5, timers <- s6, trackers <- s7,
    exclusive <- s8, frame <- s9, loop <- s10, ready <- s11, expired <- s12, time <- s13,
    clock <- s14, answer <- s15

Pool == INSTANCE Uplinks WITH
    Addresses <- {"a1"}, MaxDuplicates <- 1, Stale <- FALSE, Reconnects <- FALSE,
    MaxPending <- 0, pool <- s1, refs <- s2, armed <- s3, fired <- s4, closed <- s5, pc <- s6,
    held <- s7, address <- s8, over <- s9

Again == INSTANCE Uplinks WITH
    Clients <- 1..2, Addresses <- {"a1", "a2"}, MaxDuplicates <- 1, Stale <- FALSE,
    Reconnects <- TRUE, MaxPending <- 0, pool <- s1, refs <- s2, armed <- s3, fired <- s4,
    closed <- s5, pc <- s6, held <- s7, address <- s8, over <- s9

Server == INSTANCE SocketServer WITH
    Secure <- TRUE, MaxConnections <- 2, KeepAlive <- 2, Backlog <- 1, LateAccepts <- FALSE,
    GivesUp <- FALSE, Restarts <- 2, state <- s1, router <- s2, active <- s3, inactive <- s4,
    pc <- s5, reuses <- s6, abort <- s7, waits <- s8, checked <- s9, unlistener <- s10,
    starts <- s11

ASSUME /\ Read!SocketReadAssumption /\ Poll!MultiplexerAssumption
       /\ Cancel!MultiplexerAssumption /\ Retime!MultiplexerAssumption /\ Pool!UplinksAssumption
       /\ Again!UplinksAssumption /\ Server!SocketServerAssumption

all == <<part, vars, s1, s2, s3, s4, s5, s6, s7, s8, s9, s10, s11, s12, s13, s14, s15, s16, s17>>

-----------------------------------------------------------------------------
MCInit ==
    \/ /\ part = "write" /\ Init /\ s1 = "off" /\ s2 = "off" /\ s3 = "off" /\ s4 = "off"
       /\ s5 = "off" /\ s6 = "off" /\ s7 = "off" /\ s8 = "off" /\ s9 = "off" /\ s10 = "off"
       /\ s11 = "off" /\ s12 = "off" /\ s13 = "off" /\ s14 = "off" /\ s15 = "off" /\ s16 = "off"
       /\ s17 = "off"
    \/ /\ part = "read" /\ Idle /\ Read!Init
    \/ /\ part = "poll" /\ Idle /\ Poll!Init /\ s16 = "off" /\ s17 = "off"
    \/ /\ part = "cancel" /\ Idle /\ Cancel!Init /\ s16 = "off" /\ s17 = "off"
    \/ /\ part = "retime" /\ Idle /\ Retime!Init /\ s16 = "off" /\ s17 = "off"
    \/ /\ part = "uplinks" /\ Idle /\ Pool!Init /\ s10 = "off" /\ s11 = "off" /\ s12 = "off"
       /\ s13 = "off" /\ s14 = "off" /\ s15 = "off" /\ s16 = "off" /\ s17 = "off"
    \/ /\ part = "reconnect" /\ Idle /\ Again!Init /\ s10 = "off" /\ s11 = "off" /\ s12 = "off"
       /\ s13 = "off" /\ s14 = "off" /\ s15 = "off" /\ s16 = "off" /\ s17 = "off"
    \/ /\ part = "server" /\ Idle /\ Server!Init /\ s12 = "off" /\ s13 = "off" /\ s14 = "off"
       /\ s15 = "off" /\ s16 = "off" /\ s17 = "off"

\* A step of a component.
OfWrite(A) == /\ part = "write" /\ A
              /\ UNCHANGED <<part, s1, s2, s3, s4, s5, s6, s7, s8, s9, s10, s11, s12, s13, s14, s15,
                      s16, s17>>
OfRead(A) == /\ part = "read" /\ A /\ UNCHANGED <<part, vars>>
OfPoll(A) == /\ part = "poll" /\ A /\ UNCHANGED <<part, vars, s16, s17>>
OfCancel(A) == /\ part = "cancel" /\ A /\ UNCHANGED <<part, vars, s16, s17>>
OfRetime(A) == /\ part = "retime" /\ A /\ UNCHANGED <<part, vars, s16, s17>>
OfPool(A) == /\ part = "uplinks" /\ A
             /\ UNCHANGED <<part, vars, s10, s11, s12, s13, s14, s15, s16, s17>>
OfAgain(A) == /\ part = "reconnect" /\ A
              /\ UNCHANGED <<part, vars, s10, s11, s12, s13, s14, s15, s16, s17>>
OfServer(A) == /\ part = "server" /\ A /\ UNCHANGED <<part, vars, s12, s13, s14, s15, s16, s17>>

MCNext ==
    \/ OfWrite(Next)
    \/ OfRead(Read!Next)
    \/ OfPoll(Poll!Next)
    \/ OfCancel(Cancel!Next)
    \/ OfRetime(Retime!Next)
    \/ OfPool(Pool!Next)
    \/ OfAgain(Again!Next)
    \/ OfServer(Server!Next)

(* Code that can run does. *)
Runs(i) ==
    \/ OfWrite(Wakes) \/ OfRead(Read!Run) \/ OfPoll(Poll!tick)
    \/ OfPool(Pool!Step(i)) \/ OfServer(Server!Task(i))

(* The multiplexer answers whoever waits, and a client is done with its    *)
(* stream some day.                                                        *)
Answers(i) == OfRead(Read!Wakes) \/ OfPool(Pool!Leave(i)) \/ OfServer(Server!answer(i))

(* What was sent arrives, queued callbacks run, and unlisten() goes on.    *)
Follows(i) ==
    \/ OfRead(Read!deliver)
    \/ i \in Streams /\ OfPool(Pool!Callback(i))
    \/ OfServer(IF i = 1 THEN Server!free_all ELSE Server!unlistened)

(* Strongly fair: a socket that is writeable takes something in the end, a *)
(* mutex that is free again and again is acquired, a request is done.      *)
Succeeds(i) ==
    \/ OfWrite(Progress)
    \/ OfPoll(IF i = 1 THEN Poll!Dispatch ELSE Poll!Timeout(<<"d", "p1">>[i - 1]))
    \/ OfServer(Server!Completes(i))

(* The fairness of the modules: one of them runs in a behaviour, so that   *)
(* each condition is one of that module's.                                 *)
Fair ==
    \A i \in 1..3 :
        WF_all(Runs(i)) /\ WF_all(Answers(i)) /\ WF_all(Follows(i)) /\ SF_all(Succeeds(i))

MCSpec == MCInit /\ [][MCNext]_all /\ Fair

-----------------------------------------------------------------------------
(* A reader gets the bytes of the stream in their order, each once, stops  *)
(* at an occurrence of what it looks for, the first that does not begin    *)
(* inside of a partial match, or at the number of bytes asked for, however *)
(* the stream is cut into packets.  read_until_queued gets less: not what  *)
(* its buffer held whenever it had to wait.                                *)
ReadsExactly ==
    part = "read" => /\ Read!TypeOK /\ Read!NothingLost /\ Read!StopsAtFirst
                     /\ Read!FinishesWhole

(* Every callback that the multiplexer was given is in one place until it  *)
(* is called, and the timers, the trackers and the polled directions are   *)
(* those of the sockets somebody waits on: "socket timeout update de-sync" *)
(* is never reached.                                                       *)
CallbacksTracked ==
    /\ part = "poll" => /\ Poll!TypeOK /\ Poll!CalledOnce /\ Poll!TimersMatch
                        /\ Poll!InSync /\ Poll!Polled /\ Poll!NoDeadlock
    /\ part = "cancel" => /\ Cancel!TypeOK /\ Cancel!CalledOnce /\ Cancel!TimersMatch
                          /\ Cancel!InSync /\ Cancel!Polled
    /\ part = "retime" => /\ Retime!TypeOK /\ Retime!TimersMatch /\ Retime!InSync

(* The reference count of a pooled stream is the number of those who have  *)
(* it, it is never in the pool and with a client, and a request waits only *)
(* while another client has what it waits for.                             *)
StreamsCounted ==
    /\ part = "uplinks" => Pool!TypeOK /\ Pool!RefsExact /\ Pool!WaitsForHolder
    /\ part = "reconnect" => Again!TypeOK /\ Again!RefsExact

(* A connection of a server is owned by one task or by the pool, no more   *)
(* than max_connections are served, none uses a released router or serves  *)
(* more requests than keep_alive_max_count.                                *)
ConnectionsOwned ==
    part = "server" => /\ Server!TypeOK /\ Server!OneOwner /\ Server!Bounded
                       /\ Server!RouterAlive /\ Server!KeptAlive

(* The uplinks are a pool of leases: each step lends, takes back or passes *)
(* on one stream.                                                          *)
UplinksLease ==
    /\ part = "uplinks" => Pool!Lease!Init
    /\ [][part = "uplinks" => [Pool!Lease!Next]_(Pool!Lent)]_all

\* What is waited for in a behaviour: the i-th callback, the i-th client, or what there is.
Waits(i) ==
    \/ part = "write" /\ available = payload
    \/ part = "read"
    \/ part = "poll" /\ i \in Requests /\ \E s \in Sockets : Poll!Awaited(s, i)
    \/ part = "uplinks" /\ Pool!Waiting(i)
    \/ part = "server" /\ Server!Unlistening

Comes(i) ==
    \/ part = "write" /\ pc \in {"end", "refused"}
    \/ part = "read" /\ Read!Settled
    \/ part = "poll" /\ i \in Requests /\ Poll!Called(i)
    \/ part = "uplinks" /\ ~Pool!Waiting(i)
    \/ part = "server" /\ ~Server!Unlistening

(* Nobody waits for ever: a write ends (write_file_queued that finds after *)
(* a wait that sendfile is not supported ends without its callback), the   *)
(* promise of a read is settled, whoever waits on a socket that has a      *)
(* timeout is called, a request for a pooled stream is answered, and       *)
(* unlisten() returns (connections that are inserted after it has aborted  *)
(* the others are left out: LateAccepts).                                  *)
NobodyWaitsForEver == \A i \in Clients : Waits(i) ~> Comes(i)
=============================================================================
