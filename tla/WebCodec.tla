------------------------------ MODULE WebCodec ------------------------------
(***************************************************************************)
(* The web socket wire format: the header web_socket_frame::send writes    *)
(* and the parser web_codec::parse_frame runs over what the socket         *)
(* returns, one read at a time.  A token [msg, n] of the wire is n bytes   *)
(* of payload of the msg-th frame or, for msg = 0, the header byte n.  A   *)
(* reader feeds the parser one read after the other, and takes messages from the  *)
(* queue when the socket has nothing more to give (the "process" state of  *)
(* web_socket_frame::update).                                              *)
(***************************************************************************)
EXTENDS Integers, Sequences, SequencesExt

CONSTANTS
    Ops,        \* opcodes of the frames a peer sends
    Sizes,      \* payload sizes
    Frames,     \* how many frames the peer sends
    Splits      \* a read may end inside a frame

op_next == 0
op_text == 1
op_binary == 2
op_close == 8
op_ping == 9
op_pong == 10

Frame == [op : Ops, size : Sizes, mask : BOOLEAN, final : BOOLEAN]

\* What a peer may send: control frames are short, and a message goes on
\* exactly after a frame that was not final
Goes(fs, i) == \E k \in 1..(i - 1) : /\ ~fs[k].final
                                     /\ \A l \in (k + 1)..(i - 1) : fs[l].op >= 8
WellFormed(fs) ==
    \A i \in DOMAIN fs : /\ fs[i].op >= 8 => fs[i].final /\ fs[i].size < 126
                         /\ fs[i].op < 8 => (fs[i].op = op_next <=> Goes(fs, i))

BigEndian(n, w) == [i \in 1..w |-> IF w - i >= 4 THEN 0 ELSE (n \div 256^(w - i)) % 256]

send(f) ==
    <<(IF f.final THEN 128 ELSE 0) + f.op>>
    \o (LET m == IF f.mask THEN 128 ELSE 0
        IN  CASE f.size < 126 -> <<m + f.size>>
              [] f.size <= 65535 -> <<m + 126>> \o BigEndian(f.size, 2)
              [] OTHER -> <<m + 127>> \o BigEndian(f.size, 8))
    \o (IF f.mask THEN <<1, 2, 3, 4>> ELSE <<>>)

Payload(i, n) == IF n = 0 THEN <<>> ELSE <<[msg |-> i, n |-> n]>>
Header(bytes) == [i \in DOMAIN bytes |-> [msg |-> 0, n |-> bytes[i]]]
Wire(fs) == FlattenSeq([i \in DOMAIN fs |-> Header(send(fs[i])) \o Payload(i, fs[i].size)])

-----------------------------------------------------------------------------
(* The parser: state, and what it has queued.  A message of the queue is   *)
(* its opcode and the payload tokens it is made of.                        *)
web_codec ==
    [state |-> "begin", left |-> 0, final |-> FALSE, control |-> FALSE, fragment |-> FALSE, opcode |-> 0,
     masked |-> FALSE, remains |-> 0, queue |-> <<>>]

Shift(byte, bits) == IF byte = 0 THEN 0 ELSE byte * 2^bits
AfterLength(c) == IF c.masked THEN [c EXCEPT !.state = "mask", !.left = 4] ELSE [c EXCEPT !.state = "end"]
Queue(c, op, parts) == [c EXCEPT !.queue = Append(@, [op |-> op, parts |-> parts])]

\* A step returns the codec and whether the rest of the buffer is parsed
Go(c) == [c |-> c, more |-> TRUE]
Stop(c) == [c |-> c, more |-> FALSE]

\* fetch_payload: only a final or a control frame leads back to "begin"
fetch_payload(c) == IF ~c.control /\ ~c.final THEN Stop(c) ELSE Go([c EXCEPT !.state = "begin"])

begin(c, b) ==
    LET op == b % 16
        n == [c EXCEPT !.final = b >= 128, !.state = "length"]
    IN  CASE (b \div 16) % 8 # 0 -> Stop(c)
          [] op = 0 -> IF c.fragment THEN Go([n EXCEPT !.control = FALSE]) ELSE Stop([c EXCEPT !.final = b >= 128])
          [] op >= 8 -> IF op \in {op_close, op_ping, op_pong} /\ n.final
                        THEN Go([n EXCEPT !.control = TRUE, !.opcode = op]) ELSE Stop([c EXCEPT !.final = b >= 128])
          [] OTHER -> IF op \in {op_text, op_binary}
                      THEN Go([n EXCEPT !.control = FALSE, !.fragment = ~n.final, !.opcode = op])
                      ELSE Stop([c EXCEPT !.final = b >= 128])

length(c, b) ==
    LET len == b % 128
        m == [c EXCEPT !.masked = b >= 128, !.remains = len]
        a == AfterLength(m)
    IN  CASE c.control /\ len > 125 -> Stop([c EXCEPT !.masked = b >= 128])
          [] ~c.control /\ len = 126 -> Go([m EXCEPT !.state = "length16", !.left = 2, !.remains = 0])
          [] ~c.control /\ len = 127 -> Go([m EXCEPT !.state = "length64", !.left = 8, !.remains = 0])
          [] OTHER -> IF a.state = "end" /\ len = 0 THEN fetch_payload(Queue(a, a.opcode, <<>>)) ELSE Go(a)

\* length160, length161 and length640 to length647
length_bytes(c, b, least) ==
    LET n == [c EXCEPT !.remains = @ + Shift(b, 8 * (c.left - 1)), !.left = @ - 1]
    IN  CASE n.left > 0 -> Go(n)
          [] n.remains < least -> Stop(AfterLength(n))
          [] OTHER -> Go(AfterLength(n))

\* mask0 to mask3
mask(c, b) ==
    LET n == [c EXCEPT !.left = @ - 1, !.state = IF c.left = 1 THEN "end" ELSE @]
    IN  IF n.state = "end" /\ n.remains = 0 THEN fetch_payload(Queue(n, n.opcode, <<>>)) ELSE Go(n)

\* The payload that has arrived: a new message, or more of the first one
\* of the queue
payload(c, t) ==
    LET n == IF t.n > c.remains THEN c.remains ELSE t.n
        part == IF n = 0 THEN <<>> ELSE <<[t EXCEPT !.n = n]>>
        q == IF c.opcode = op_next /\ c.queue # <<>>
             THEN [c EXCEPT !.queue[1].parts = @ \o part]
             ELSE Queue(c, IF c.opcode = op_next THEN op_text ELSE c.opcode, part)
        d == [q EXCEPT !.opcode = op_next, !.remains = @ - n]
    IN  IF d.remains = 0 THEN fetch_payload(d) ELSE Go(d)

\* In "end" a header byte of the next frame is a payload of no bytes
Step(c, t) ==
    CASE c.state = "end" -> payload(c, IF t.msg = 0 THEN [t EXCEPT !.n = 0] ELSE t)
      [] c.state = "begin" -> begin(c, t.n)
      [] c.state = "length" -> length(c, t.n)
      [] c.state = "length16" -> length_bytes(c, t.n, 126)
      [] c.state = "length64" -> length_bytes(c, t.n, 65536)
      [] OTHER -> mask(c, t.n)

RECURSIVE parse_frame(_, _)
parse_frame(c, buffer) ==
    IF buffer = <<>> THEN c
    ELSE LET r == Step(c, Head(buffer)) IN IF r.more THEN parse_frame(r.c, Tail(buffer)) ELSE r.c

-----------------------------------------------------------------------------
VARIABLES
    frames,     \* what the peer sends
    wire,       \* tokens that have not been read
    codec,
    blocked,    \* the last read said that it would block
    delivered,  \* messages that update() has handed to receive
    torn        \* a read has ended inside a payload

vars == <<frames, wire, codec, blocked, delivered, torn>>

Init ==
    /\ frames \in {fs \in UNION {[1..n -> Frame] : n \in 1..Frames} : WellFormed(fs)}
    /\ wire = Wire(frames)
    /\ codec = web_codec
    /\ blocked = TRUE
    /\ delivered = <<>> /\ torn = FALSE

\* The tokens one read returns: whole frames, or any number of bytes
FrameEnds == {Len(Wire(frames)) - Len(Wire(SubSeq(frames, 1, i))) : i \in DOMAIN frames}
Ends == {n \in 1..Len(wire) : Splits \/ Len(wire) - n \in FrameEnds}

\* update() in "process": the socket has data
Read ==
    /\ \E n \in Ends :
          /\ wire' = SubSeq(wire, n + 1, Len(wire))
          /\ codec' = parse_frame(codec, SubSeq(wire, 1, n))
    /\ blocked' = FALSE
    /\ UNCHANGED <<frames, delivered, torn>>

\* the same, when a read ends inside a payload (at most once for each)
ReadPart ==
    /\ Splits /\ wire # <<>>
    /\ \E n \in 1..Len(wire) :
          /\ wire[n].msg # 0 /\ wire[n].n = frames[wire[n].msg].size /\ wire[n].n > 1
          /\ wire' = <<[wire[n] EXCEPT !.n = @ - 1]>> \o SubSeq(wire, n + 1, Len(wire))
          /\ codec' = parse_frame(codec, SubSeq(wire, 1, n - 1) \o <<[wire[n] EXCEPT !.n = 1]>>)
    /\ blocked' = FALSE /\ torn' = TRUE
    /\ UNCHANGED <<frames, delivered>>

\* The read would block: the first message of the queue is delivered, if
\* there is one
get_frame ==
    /\ ~blocked \/ codec.queue # <<>>
    /\ blocked' = TRUE
    /\ IF codec.queue = <<>>
       THEN UNCHANGED <<codec, delivered>>
       ELSE /\ delivered' = Append(delivered, Head(codec.queue))
            /\ codec' = [codec EXCEPT !.queue = Tail(@)]
    /\ UNCHANGED <<frames, wire, torn>>

Done == wire = <<>> /\ blocked /\ codec.queue = <<>> /\ UNCHANGED vars

Next == Read \/ ReadPart \/ get_frame \/ Done

Spec == Init /\ [][Next]_vars

-----------------------------------------------------------------------------
(* The codec stays in a state of its machine and queues known opcodes.     *)
TypeOK ==
    /\ codec.state \in {"begin", "length", "length16", "length64", "mask", "end"}
    /\ codec.left \in 0..8 /\ codec.remains \in Nat
    /\ \A i \in DOMAIN codec.queue : codec.queue[i].op \in Ops \cup {op_text}

Bytes(parts) == FoldSeq(LAMBDA p, n : p.n + n, 0, parts)
Messages == [i \in DOMAIN frames |-> [op |-> frames[i].op, parts |-> Payload(i, frames[i].size)]]

(* The frames up to the first that is not final: parse_frame stays in      *)
(* "end" after that one and reads no frame again.                          *)
Fragments == {i \in DOMAIN frames : ~frames[i].final}
Readable == {i \in DOMAIN frames : \A k \in Fragments : i <= k}

(* What send() writes parse_frame() reads back: while no read has ended    *)
(* inside a payload, the messages handed to receive are the frames the     *)
(* peer sent, each with its opcode and payload, in order, whatever the     *)
(* sizes, the masking, the number of frames per read and the cuts of their *)
(* headers.  It is not so after a frame that is not final: what comes next *)
(* is lost, or an empty message.                                           *)
FramesDelivered ==
    LET got == delivered \o codec.queue IN
    ~torn => \A i \in DOMAIN got :
                \/ i \in Readable /\ got[i] = Messages[i]
                \/ i \notin Readable /\ Fragments # {} /\ got[i].parts = <<>>

(* No byte is lost or made up when reads end inside of payloads: the       *)
(* payload bytes that were delivered, queued and not yet read are as many  *)
(* as were sent.  More is not promised: the rest of a payload is added to  *)
(* the first message of the queue, or becomes a text of its own.           *)
BytesConserved ==
    Fragments = {} =>
        Bytes(FlattenSeq([i \in DOMAIN delivered |-> delivered[i].parts]))
        + Bytes(FlattenSeq([i \in DOMAIN codec.queue |-> codec.queue[i].parts]))
        + Bytes(SelectSeq(wire, LAMBDA t : t.msg # 0))
        = Bytes([i \in DOMAIN frames |-> [msg |-> i, n |-> frames[i].size]])
=============================================================================
