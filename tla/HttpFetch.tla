----------------------------- MODULE HttpFetch -----------------------------
(***************************************************************************)
(* http::client::fetch downloads the body of a response: what came with    *)
(* the head (the prefetch) first, then from the socket, in pieces that the *)
(* network cuts anywhere.  A chunked body goes through                     *)
(* parser::parse_decode_chunked, which keeps its state from one piece to   *)
(* the next and has one action per case of its switch here.  A body that   *)
(* is neither announced nor chunked is not read to the end of the          *)
(* connection: content_frame::prepare makes it limited, with length zero,  *)
(* so that the branch of fetch for it (6237-6267) is never taken.          *)
(* Symbols are numbers: 0..15 are hexadecimal digits; in the data of a     *)
(* chunk every symbol may occur.                                           *)
(***************************************************************************)
EXTENDS Integers, Sequences, SequencesExt, FiniteSets

CONSTANTS
    Kinds,        \* the messages that are tried: "limited", "chunked", "bare" (no
                  \* length is announced), "form" (multipart/form-data)
    Sizes,        \* the values of max_size that are tried
    Prefetched,   \* how many symbols of the body came with the head
    Aborts,       \* TRUE: the connection may break
    MaxHex        \* the digits of a chunk's length, sizeof(size_t) * 2

FetchAssumption == /\ Sizes \subseteq Nat \ {0} /\ Prefetched \subseteq Nat
                   /\ Aborts \in BOOLEAN /\ MaxHex \in Nat \ {0}

VARIABLES
    msg,          \* what the peer sends: [kind, wire, body]
    wire,         \* what of it the socket still has
    content,      \* content_frame: length, offset, prefetch, limited, data
    chunked,      \* chunked_state: state, length, hex_count
    call,         \* the buffer being decoded: buf, src, dst
    max, sub,     \* max_size and subresult of the running fetch
    eat,          \* the running fetch throws away what it reads
    pc, ok,       \* where fetch is; whether every fetch ended well
    taken, eaten, \* what the caller has got; something was thrown away
    faults        \* "reset": a fetch began inside of a chunk; "overlap": a fetch
                  \* was answered with more of the prefetch than it asked for;
                  \* "cut": a fetch of just the prefetch finalized the body

vars == <<msg, wire, content, chunked, call, max, sub, eat, pc, ok, taken, eaten, faults>>

CR == 20
LF == 21
Other == 22
Everything == 1000   \* numeric_limits<size_t>::max()

Body == <<CR, 0, LF>>
Messages ==
    { [kind |-> "limited", wire |-> Body \o <<7, LF>>, body |-> Body \o <<7, LF>>],
      [kind |-> "bare", wire |-> Body, body |-> Body],
      [kind |-> "form", wire |-> Body, body |-> Body],
      [kind |-> "chunked", body |-> Body,
       wire |-> <<3, CR, LF>> \o Body \o <<CR, LF, 0, CR, LF, CR, LF>>],
      [kind |-> "chunked", body |-> <<7>> \o Body,
       wire |-> <<0, 1, LF, 7, LF, 3, Other, 0, LF>> \o Body \o <<LF, 0, LF, Other, LF, LF>>] }

Smaller(a, b) == IF a < b THEN a ELSE b
Piece(s, k) == SubSeq(s, 1, k)
Rest(s, k) == SubSeq(s, k + 1, Len(s))

NoChunk == [state |-> "size", length |-> 0, hex |-> 0]
NoCall == [buf |-> <<>>, src |-> 0, dst |-> <<>>]

(* content_frame::prepare: limited unless chunked.                         *)
prepare(m, p) ==
    [length |-> IF m.kind \in {"limited", "form"} THEN Len(m.wire) ELSE 0,
     offset |-> p, prefetch |-> p, limited |-> m.kind # "chunked", data |-> Piece(m.wire, p),
     exceeds |-> FALSE]

is_finalized ==
    /\ content.prefetch = 0
    /\ IF content.limited THEN content.offset >= content.length \/ Len(content.data) >= content.length
       ELSE content.offset >= content.length /\ content.length > 0

finalize(c) == [c EXCEPT !.length = c.offset, !.limited = TRUE]

Init ==
    /\ msg \in {m \in Messages : m.kind \in Kinds}
    /\ \E p \in Prefetched : p <= Len(msg.wire) /\ content = prepare(msg, p) /\ wire = Rest(msg.wire, p)
    /\ chunked = NoChunk /\ call = NoCall /\ max = 0 /\ sub = -1 /\ eat = FALSE
    /\ pc = "idle" /\ ok = TRUE /\ taken = <<>> /\ eaten = FALSE /\ faults = {}

(* The promise of a fetch is answered; the caller takes what data holds.   *)
Answer(good, c) ==
    /\ pc' = "idle" /\ ok' = (ok /\ good) /\ content' = c
    /\ taken' = IF good THEN taken \o c.data ELSE taken
    /\ eaten' = (eaten \/ eat')
    /\ faults' = faults \cup {f \in {"overlap", "cut"} :
                               IF f = "overlap" THEN good /\ c.prefetch > 0 ELSE c.length < content.length}

(* What the last fetch has delivered is erased, what it has not is kept.   *)
Unread(c) == Rest(c.data, Len(c.data) - c.prefetch)

prepare_for_chunked_parsing == chunked' = IF content.limited THEN chunked ELSE NoChunk
Reset == IF content.limited \/ chunked = NoChunk THEN faults ELSE faults \cup {"reset"}

(* fetch with bytes of the body that came with the head.                   *)
fetch_prefetched(size) ==
    LET n == Smaller(size, content.prefetch)
        c == [content EXCEPT !.data = Unread(content), !.prefetch = @ - n]
    IN  /\ content.prefetch > 0
        /\ prepare_for_chunked_parsing
        /\ max' = size - n /\ sub' = -1
        /\ IF ~content.limited
           THEN /\ pc' = "prefetch" /\ content' = c
                /\ call' = [NoCall EXCEPT !.buf = Piece(c.data, n)]
                /\ faults' = Reset /\ UNCHANGED <<ok, taken, eaten>>
           ELSE /\ call' = NoCall
                /\ IF c.prefetch > 0 THEN Answer(TRUE, c)
                   ELSE pc' = "entry" /\ content' = c /\ UNCHANGED <<ok, taken, eaten, faults>>
        /\ UNCHANGED <<msg, wire>>

fetch_fresh(size) ==
    /\ content.prefetch = 0
    /\ prepare_for_chunked_parsing
    /\ max' = size /\ sub' = -1
    /\ pc' = "entry" /\ content' = [content EXCEPT !.data = <<>>] /\ faults' = Reset
    /\ UNCHANGED <<msg, wire, call, ok, taken, eaten>>

(* client::fetch of a form, which has to be stored, of what exceeds, or    *)
(* after the stream was closed.                                            *)
fetch_refused ==
    /\ pc = "idle" /\ ok /\ ~is_finalized
    /\ msg.kind = "form" \/ content.exceeds \/ Aborts
    /\ eat' = eat /\ Answer(FALSE, [content EXCEPT !.exceeds = @ \/ msg.kind = "form"])
    /\ UNCHANGED <<msg, wire, chunked, call, max, sub>>

(* client::fetch; with eat the size is unlimited (client::skip).           *)
fetch ==
    /\ pc = "idle" /\ ok /\ ~is_finalized /\ ~content.exceeds /\ msg.kind # "form"
    /\ \/ eat' = FALSE /\ \E size \in Sizes : fetch_prefetched(size) \/ fetch_fresh(size)
       \/ eat' = TRUE /\ (fetch_prefetched(Everything) \/ fetch_fresh(Everything))

(* One case of the switch of parse_decode_chunked each.  A buffer that is  *)
(* exhausted ends the call.                                                *)
Parsing == pc \in {"prefetch", "decode"}
Left == Len(call.buf) - call.src
Symbol == call.buf[call.src + 1]
Parses(state) == Parsing /\ chunked.state = state /\ Left > 0
StillParses == UNCHANGED <<msg, wire, content, max, sub, eat, pc, ok, taken, eaten, faults>>

(* The caller's half of a finished call, in the read callback of fetch.    *)
ReadReturn(result, dst) ==
    /\ pc = "decode"
    /\ sub' = result
    /\ IF result = -1 THEN content' = content
       ELSE content' = [content EXCEPT !.offset = @ + Len(dst),
                                       !.data = IF eat THEN @ ELSE @ \o dst]
    /\ pc' = IF result = -2 THEN "reading" ELSE "unanswered"
    /\ UNCHANGED <<msg, wire, max, eat, ok, taken, eaten, faults>>

(* The same for the prefetch: the encoding is erased from the data.        *)
PrefetchReturn(result, dst) ==
    LET c == [content EXCEPT !.data = dst \o Rest(@, Len(call.buf))] IN
    /\ pc = "prefetch"
    /\ eat' = eat
    /\ IF result = -1 THEN Answer(FALSE, content)
       ELSE IF result = 0 THEN Answer(TRUE, finalize(c))
       ELSE pc' = "entry" /\ content' = c /\ UNCHANGED <<ok, taken, eaten, faults>>
    /\ UNCHANGED <<msg, wire, max, sub>>

Return(result, dst) == /\ call' = NoCall
                       /\ ReadReturn(result, dst) \/ PrefetchReturn(result, dst)

Exhausted == Parsing /\ Left = 0 /\ Return(-2, call.dst) /\ UNCHANGED chunked

chunk_size ==
    /\ Parses("size")
    /\ IF Symbol \in 0..15 /\ chunked.hex < MaxHex
       THEN /\ chunked' = [chunked EXCEPT !.length = @ * 16 + Symbol, !.hex = @ + 1]
            /\ call' = [call EXCEPT !.src = @ + 1] /\ StillParses
       ELSE IF Symbol \in 0..15 \/ chunked.hex = 0 THEN Return(-1, call.dst) /\ UNCHANGED chunked
       ELSE chunked' = [chunked EXCEPT !.state = "ext", !.hex = 0] /\ UNCHANGED call /\ StillParses

chunk_ext ==
    /\ Parses("ext")
    /\ chunked' = [chunked EXCEPT !.state = IF Symbol # LF THEN "ext"
                                            ELSE IF chunked.length = 0 THEN "head" ELSE "data"]
    /\ call' = [call EXCEPT !.src = @ + 1] /\ StillParses

(* Faulty case data: the length of a chunk that is cut stays.              *)
chunk_data_cut ==
    /\ Parses("data")
    /\ LET n == Smaller(Left, chunked.length) IN
        /\ chunked' = [chunked EXCEPT !.length = IF Left < @ THEN @ ELSE 0,
                                      !.state = IF Left < chunked.length THEN "data" ELSE "end"]
        /\ call' = [call EXCEPT !.src = @ + n, !.dst = @ \o SubSeq(call.buf, call.src + 1, call.src + n)]
    /\ StillParses

chunk_data ==
    /\ Parses("data")
    /\ LET n == Smaller(Left, chunked.length) IN
        /\ chunked' = [chunked EXCEPT !.length = @ - n, !.state = IF Left < chunked.length THEN "data" ELSE "end"]
        /\ call' = [call EXCEPT !.src = @ + n, !.dst = @ \o SubSeq(call.buf, call.src + 1, call.src + n)]
    /\ StillParses

chunk_end ==
    /\ Parses("end")
    /\ IF Symbol \in {CR, LF}
       THEN /\ chunked' = [chunked EXCEPT !.state = IF Symbol = LF THEN "size" ELSE "end"]
            /\ call' = [call EXCEPT !.src = @ + 1] /\ StillParses
       ELSE Return(-1, call.dst) /\ UNCHANGED chunked

(* The trailer: an empty line completes the message.                       *)
chunk_head ==
    /\ Parses("head")
    /\ IF Symbol = LF THEN Return(Left - 1, call.dst) /\ UNCHANGED chunked
       ELSE /\ chunked' = [chunked EXCEPT !.state = IF Symbol = CR THEN "head" ELSE "middle"]
            /\ call' = [call EXCEPT !.src = @ + 1] /\ StillParses

chunk_middle ==
    /\ Parses("middle")
    /\ chunked' = [chunked EXCEPT !.state = IF Symbol = LF THEN "head" ELSE "middle"]
    /\ call' = [call EXCEPT !.src = @ + 1] /\ StillParses

parse_decode_chunked ==
    Exhausted \/ chunk_size \/ chunk_ext \/ chunk_data \/ chunk_end \/ chunk_head \/ chunk_middle

(* What is left to read: nothing, or no more than max_size.  The length    *)
(* less the offset is a size_t: huge when the offset is larger.            *)
entry ==
    LET beyond == content.limited /\ content.offset > content.length
        m == IF content.limited /\ ~beyond THEN Smaller(max, content.length - content.offset) ELSE max
    IN
    /\ pc = "entry"
    /\ max' = m /\ eat' = eat
    /\ IF m > 0 /\ ~beyond THEN pc' = "reading" /\ UNCHANGED <<content, ok, taken, eaten, faults>>
       ELSE IF m > 0 THEN Answer(FALSE, content)
       ELSE Answer(TRUE, IF content.limited THEN finalize(content) ELSE content)
    /\ UNCHANGED <<msg, wire, chunked, call, sub>>

(* read_queued gives the callback the next piece.                          *)
piece ==
    /\ pc = "reading"
    /\ \E k \in 1..Smaller(max, Len(wire)) :
        /\ wire' = Rest(wire, k) /\ max' = max - k
        /\ IF content.limited
           THEN /\ content' = [content EXCEPT !.offset = @ + k,
                                              !.data = IF eat THEN @ ELSE @ \o Piece(wire, k)]
                /\ UNCHANGED <<pc, call>>
           ELSE /\ call' = [NoCall EXCEPT !.buf = Piece(wire, k)]
                /\ pc' = "decode" /\ UNCHANGED content
    /\ UNCHANGED <<msg, chunked, sub, eat, ok, taken, eaten, faults>>

(* The last event of the read: finished, or (good = FALSE) broken.         *)
ended(good) ==
    /\ pc = "reading"
    /\ eat' = eat
    /\ Answer(good, IF (IF content.limited THEN content.length <= content.offset ELSE sub # -2)
                    THEN finalize(content) ELSE content)
    /\ UNCHANGED <<msg, wire, chunked, call, max, sub>>

finish == max = 0 /\ ended(TRUE)
abort == Aborts /\ max > 0 /\ ended(FALSE)

(* A fetch that is never answered, a body that is read, and a broken       *)
(* connection rest.                                                        *)
Rests == (pc = "unanswered" \/ (pc = "idle" /\ (is_finalized \/ ~ok))) /\ UNCHANGED vars

Next == fetch_refused \/ fetch \/ parse_decode_chunked \/ entry \/ piece \/ finish \/ abort \/ Rests

Works == parse_decode_chunked \/ entry \/ piece \/ finish

Spec == Init /\ [][Next]_vars /\ WF_vars(Works)

(***************************************************************************)
(* Properties                                                              *)
(***************************************************************************)

Got == IF pc = "idle" \/ eat THEN taken ELSE taken \o content.data

(* What the fetches of client::fetch put into content.data is, whatever    *)
(* the cuts of the network, the beginning of the body: no byte twice, none *)
(* missing, none of the encoding.  It is not so after a fetch that asked   *)
(* for no more than had come with the head, and of a chunked body after a  *)
(* fetch that ended inside of a chunk, since each fetch starts the decoder *)
(* again.                                                                  *)
FetchExact ==
    ~eaten /\ faults = {} /\ (pc = "idle" \/ content.prefetch = 0) /\ pc # "prefetch" =>
        IsPrefix(Got, msg.body)

(* A response that client::send takes for finalized, or whose last chunk   *)
(* was decoded, has left nothing of its body on the connection, where the  *)
(* next response would begin with it, and is in content.data whole.  Two   *)
(* things are not claimed: a response that announces no length counts as   *)
(* finalized before its body is read, and a fetch that decodes the end of  *)
(* a chunked body from the socket is not answered.                         *)
CleanStream ==
    /\ msg.kind \in {"limited", "chunked"} /\ faults = {}
    /\ \/ pc = "idle" /\ ok /\ is_finalized
       \/ pc = "unanswered" /\ sub >= 0
    => wire = <<>> /\ (eaten \/ eat \/ Got = msg.body)

(* parse_decode_chunked finds no error in a well formed message that it    *)
(* reads from its beginning.                                               *)
NoFalseError == "reset" \notin faults => ~(pc = "unanswered" /\ sub = -1)

(* Every fetch of a body that is not chunked is answered.                  *)
Busy == msg.kind # "chunked" /\ pc # "idle"
=============================================================================
