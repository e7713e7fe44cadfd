------------------------------ MODULE HttpHead ------------------------------
(***************************************************************************)
(* parser::parse_request and parser::parse_response read the head of a     *)
(* message: is_completed looks for its end, then process_request or        *)
(* process_response and process_headers take it apart.  A head is a        *)
(* sequence of symbols; digits are 0..9, and "HTTP/1.x" is one symbol, so  *)
(* that the test for nine bytes is a test for that symbol and one more.    *)
(***************************************************************************)
EXTENDS Integers, Sequences, FiniteSets, FiniteSetsExt

CONSTANTS
    Damage,    \* TRUE: one symbol of the head may be another one
    Uninit     \* what `result` holds when nothing was written to it

HeadAssumption == Damage \in BOOLEAN /\ Uninit \subseteq Int

VARIABLES
    sent,      \* the head that was sent: [kind, text] and what it means
    input,     \* what of it has arrived
    pos, pc,   \* buffer and the function that reads it
    out,       \* the result
    end,       \* what is_completed has returned
    overrun,   \* buffer_end was read
    method, path, query, status, header, headers   \* parser::message

vars == <<sent, input, pos, pc, out, end, overrun, method, path, query, status, header, headers>>
message == <<method, path, query, status, header, headers>>

SP == 10
CR == 11
LF == 12
Colon == 13
Mark == 14     \* "?"
Letter == 15
Version == 16
Control == 17
Others == {1, SP, CR, LF, Colon, Mark, Letter, Version, Control}
Symbols == Others \cup 0..9
Token == 0..9 \cup {Letter}
Controls == {CR, LF, Control}

Heads ==
    { [kind |-> "request", method |-> <<Letter>>, path |-> <<Letter, 1>>, query |-> <<2>>, status |-> 0,
       headers |-> << <<<<Letter, 1>>, <<Letter, SP, Colon>>>>, <<<<3>>, <<4>>>> >>,
       text |-> <<CR, LF, Letter, SP, Letter, 1, Mark, 2, SP, Version, CR, LF, Letter, 1, Colon, SP,
                  Letter, SP, Colon, SP, CR, LF, 3, Colon, 4, LF, CR, LF>>],
      [kind |-> "request", method |-> <<Letter>>, path |-> <<Mark, 1>>, query |-> <<>>, status |-> 0,
       headers |-> << <<<<Letter>>, <<6>>>> >>,
       text |-> <<Letter, SP, SP, Mark, 1, SP, SP, Version, LF, Letter, Colon, LF, SP, 6, CR, LF, LF>>],
      [kind |-> "response", method |-> <<>>, path |-> <<>>, query |-> <<>>, status |-> 404,
       headers |-> << <<<<Letter>>, <<5>>>> >>,
       text |-> <<Version, SP, SP, 4, 0, 4, SP, Letter, CR, LF, Letter, Colon, 5, CR, LF, CR, LF>>],
      [kind |-> "response", method |-> <<>>, path |-> <<>>, query |-> <<>>, status |-> 200, headers |-> <<>>,
       text |-> <<Version, SP, 2, 0, 0, LF, LF>>] }

(* A call with the first n symbols has answered that the head is not       *)
(* complete: there is no lone CR in them, and no empty line.               *)
Pending(n) ==
    ~\E q \in 1..(n - 1) :
        \/ input[q] = CR /\ input[q + 1] # LF
        \/ input[q] = LF /\ input[q + 1] = LF
        \/ input[q] = LF /\ input[q + 1] = CR /\ q + 2 <= n /\ input[q + 2] = LF

(* Where is_completed begins: the server passes what it had at its last    *)
(* call, and three symbols of that are looked at again.                    *)
Starts == {1} \cup (IF sent.kind = "response" THEN {}
                    ELSE {n - 2 : n \in {m \in 3..(Len(input) - 1) : Pending(m)}})

Init ==
    /\ sent \in Heads
    /\ \E k \in 0..Len(sent.text) :
        \/ input = SubSeq(sent.text, 1, k)
        \/ /\ Damage /\ k > 0
           /\ \E c \in Others : input = [sent.text EXCEPT ![k] = c]
    /\ pos \in Starts /\ pc = "is_completed" /\ out = 0 /\ end = 0 /\ overrun = FALSE
    /\ method = <<>> /\ path = <<>> /\ query = <<>> /\ status = 0 /\ header = <<>> /\ headers = <<>>

Past == Len(input) + 1
Is(p, c) == p <= Len(input) /\ input[p] = c
Text(p, q) == SubSeq(input, p, q - 1)

(* The first position from p on with a symbol of the set, or buffer_end.   *)
Scan(p, S) == Min({Past} \cup {q \in p..Len(input) : input[q] \in S})
Skip(p) == Scan(p, Symbols \ {SP})

Ends(result) == pc' = "done" /\ out' = result /\ UNCHANGED <<sent, input, end>>
Fails(result) == Ends(result) /\ UNCHANGED <<pos, overrun, message>>
Goes(next, p) == pc' = next /\ pos' = p /\ UNCHANGED <<sent, input, end, out>>

(* How long a line end at p is; 0: none, -2: cut, -1: a lone CR.           *)
Break(p) == IF Is(p, LF) THEN 1
            ELSE IF ~Is(p, CR) THEN 0
            ELSE IF p + 1 > Len(input) THEN -2
            ELSE IF Is(p + 1, LF) THEN 2 ELSE -1

(* Faulty is_completed: a head that is cut between CR and LF is an error.  *)
is_completed_cut ==
    /\ pc = "is_completed"
    /\ LET b == Break(pos)
           second == IF b > 0 THEN Break(pos + b) ELSE 0
       IN  IF pos = Past THEN Fails(-2)
           ELSE IF b < 0 \/ second < 0 THEN Fails(-1)
           ELSE IF second > 0 THEN /\ end' = pos + b + second /\ pos' = 1 /\ pc' = sent.kind
                                   /\ UNCHANGED <<sent, input, out, overrun, message>>
           ELSE pos' = (IF b > 0 THEN pos + b ELSE pos + 1) /\ UNCHANGED <<sent, input, pc, out, end, overrun, message>>

(* parser::is_completed: two line ends in a row.                           *)
is_completed ==
    /\ pc = "is_completed"
    /\ LET b == Break(pos)
           second == IF b > 0 THEN Break(pos + b) ELSE 0
       IN  IF pos = Past \/ b = -2 \/ second = -2 THEN Fails(-2)
           ELSE IF b = -1 \/ second = -1 THEN Fails(-1)
           ELSE IF second > 0 THEN /\ end' = pos + b + second /\ pos' = 1 /\ pc' = sent.kind
                                   /\ UNCHANGED <<sent, input, out, overrun, message>>
           ELSE pos' = (IF b > 0 THEN pos + b ELSE pos + 1) /\ UNCHANGED <<sent, input, pc, out, end, overrun, message>>

(* process_request: an empty line may precede the request.                 *)
request_blank ==
    /\ pc = "request"
    /\ IF Break(pos) < 0 \/ Past = pos THEN Fails(IF Break(pos) = -1 THEN -1 ELSE -2)
       ELSE Goes("method", pos + Break(pos)) /\ UNCHANGED <<overrun, message>>

(* A word up to the next space.  An empty method leaves *out unwritten.    *)
request_method ==
    /\ pc = "method"
    /\ LET q == Scan(pos, {SP} \cup Controls) IN
       IF q = Past THEN Fails(-2)
       ELSE IF ~Is(q, SP) THEN Fails(-1)
       ELSE IF q = pos THEN \E r \in Uninit : Fails(r)
       ELSE /\ method' = Text(pos, q) /\ Goes("path", Skip(q + 1))
            /\ overrun' = (overrun \/ Skip(q + 1) = Past)
            /\ UNCHANGED <<path, query, status, header, headers>>

(* The path, and after a "?" that does not begin it, the query.            *)
request_path ==
    /\ pc = "path"
    /\ LET q == Scan(pos, {SP} \cup Controls)
           m == Scan(pos, {Mark})
           cut == pos < m /\ m < q
       IN  IF q = Past THEN Fails(-2)
           ELSE IF ~Is(q, SP) THEN Fails(-1)
           ELSE /\ path' = IF cut THEN Text(pos, m) ELSE Text(pos, q)
                /\ query' = IF cut /\ m + 1 < q THEN Text(m + 1, q) ELSE query
                /\ Goes("version", Skip(q + 1)) /\ overrun' = (overrun \/ Skip(q + 1) = Past)
                /\ UNCHANGED <<method, status, header, headers>>

(* process_version, and the line end that process_request wants after it.  *)
process_version(p) == IF Len(input) - p + 1 < 2 THEN -2 ELSE IF Is(p, Version) THEN 0 ELSE -1

request_version ==
    /\ pc = "version"
    /\ LET b == Break(pos + 1) IN
       IF process_version(pos) # 0 THEN Fails(process_version(pos))
       ELSE IF b <= 0 THEN Fails(IF b = -2 THEN -2 ELSE -1)
       ELSE Goes("headers", pos + 1 + b) /\ UNCHANGED <<overrun, message>>

(* parser::tokenize: up to a line end; <<end of the token, next line>>.    *)
tokenize(p) ==
    LET q == Scan(p, Controls) IN
    IF q = Past \/ Break(q) = -2 THEN <<q, -2>>
    ELSE IF Break(q) <= 0 THEN <<q, -1>> ELSE <<q, q + Break(q)>>

(* process_response: version, status of three digits, message.             *)
response_status ==
    /\ pc = "response"
    /\ LET p == Skip(pos + 2)
           t == tokenize(p + 3)
           said == Text(p + 3, t[1])
       IN  /\ overrun' = (overrun \/ (process_version(pos) = 0 /\ Is(pos + 1, SP) /\ p = Past))
           /\ UNCHANGED <<method, path, query, header, headers>>
           /\ IF process_version(pos) # 0 THEN Ends(process_version(pos)) /\ UNCHANGED <<pos, status>>
              ELSE IF ~Is(pos + 1, SP) THEN Ends(-1) /\ UNCHANGED <<pos, status>>
              ELSE IF Past - p < 4 THEN Ends(-2) /\ UNCHANGED <<pos, status>>
              ELSE IF \E k \in 0..2 : input[p + k] \notin 0..9 THEN Ends(-1) /\ UNCHANGED <<pos, status>>
              ELSE /\ status' = 100 * input[p] + 10 * input[p + 1] + input[p + 2]
                   /\ IF t[2] < 0 THEN Ends(t[2]) /\ UNCHANGED pos
                      ELSE IF said # <<>> /\ said[1] # SP THEN Ends(-1) /\ UNCHANGED pos
                      ELSE Goes("headers", t[2])

(* process_headers ends at an empty line.                                  *)
headers_end ==
    /\ pc = "headers"
    /\ pos = Past \/ Break(pos) # 0
    /\ IF pos = Past THEN Fails(-2)
       ELSE IF Break(pos) < 0 THEN Fails(Break(pos))
       ELSE Ends(pos + Break(pos) - 1) /\ pos' = pos + Break(pos) /\ UNCHANGED <<overrun, message>>

(* The name up to a colon.                                                 *)
header_name ==
    /\ pc = "headers" /\ pos < Past /\ Break(pos) = 0 /\ ~Is(pos, SP)
    /\ LET q == Scan(pos, Symbols \ Token)
           v == Skip(q + 1)
       IN  IF q = Past THEN Fails(-2)
           ELSE IF ~Is(q, Colon) \/ q = pos THEN Fails(-1)
           ELSE /\ header' = Text(pos, q)
                /\ UNCHANGED <<overrun, method, path, query, status, headers>>
                /\ IF v = Past THEN Ends(-2) /\ pos' = v ELSE Goes("value", v)

(* A line that begins with a space goes on with the header before it.      *)
header_fold ==
    /\ pc = "headers" /\ Is(pos, SP)
    /\ Goes("value", pos) /\ UNCHANGED <<overrun, message>>

(* The value ends before trailing spaces, and may begin with some.         *)
Trim(s) == SubSeq(s, 1, Max({0} \cup {k \in 1..Len(s) : s[k] # SP}))

(* parsing::parse_header_value: an empty value keeps the name, a value     *)
(* without a name is dropped.  Cookies are left out; a name has no comma,  *)
(* so that no value is split.                                              *)
parse_header_value(s) ==
    IF s = <<>> \/ header = <<>> THEN UNCHANGED <<header, headers>>
    ELSE headers' = Append(headers, <<header, s>>) /\ header' = <<>>

header_value ==
    /\ pc = "value"
    /\ LET t == tokenize(pos) IN
       IF t[2] < 0 THEN Fails(t[2])
       ELSE /\ parse_header_value(Trim(Text(pos, t[1])))
            /\ Goes("headers", t[2]) /\ UNCHANGED <<overrun, method, path, query, status>>

Rests == pc = "done" /\ UNCHANGED vars

Next == \/ is_completed \/ request_blank \/ request_method \/ request_path \/ request_version
        \/ response_status \/ headers_end \/ header_name \/ header_fold \/ header_value \/ Rests

Spec == Init /\ [][Next]_vars /\ WF_vars(Next)

(***************************************************************************)
(* Properties                                                              *)
(***************************************************************************)

Whole == input = sent.text
Unfolded(v) == SubSeq(v, Min({k \in 1..Len(v) : v[k] # SP}), Len(v))

(* A head that arrived whole is understood as it was meant: method, path,  *)
(* query, status and every header.                                         *)
HeadExact ==
    Whole /\ pc = "done" =>
        /\ out = Len(sent.text)
        /\ <<method, path, query, status>> = <<sent.method, sent.path, sent.query, sent.status>>
        /\ [k \in DOMAIN headers |-> <<headers[k][1], Unfolded(headers[k][2])>>] = sent.headers

(* A head that is not complete is neither accepted nor an error: the       *)
(* caller waits for the rest of it.                                        *)
CutWaits == pc = "done" /\ Len(input) < Len(sent.text) => out = -2

(* The loops over spaces of process_request and process_response test no   *)
(* end of the buffer; because is_completed has seen an empty line they     *)
(* never pass it.                                                          *)
NoOverrun == ~overrun

(* A head that is accepted ends where is_completed has found its end: no   *)
(* byte of the body is taken for the head, and none of the head for body.  *)
EndsAgree == pc = "done" /\ out >= 0 => pos = end

(* The parser comes to an end on every input.                              *)
Done == pc = "done"
=============================================================================
