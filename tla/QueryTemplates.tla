--------------------------- MODULE QueryTemplates ---------------------------
(***************************************************************************)
(* Query templates of the drivers: add_query() takes the variables out of  *)
(* a text and remembers where they were, get_query() inserts values there, *)
(* get_cache_dump() and load_cache_dump() carry parsed templates over;     *)
(* emplace() replaces every ? of a text by the next argument, and          *)
(* inline_array() and inline_query() build such texts.                     *)
(*                                                                         *)
(* A text is a sequence of tokens: "w" a character of a word, "s" a        *)
(* separator, "-", "$", "\\" and "?" themselves, "$a" and "@a" the         *)
(* variables $<a> and @<a>, "#c" a constant that was added and "#d" one    *)
(* that was not; a value is rendered as tokens of its own.                 *)
(***************************************************************************)
EXTENDS Integers, Sequences, FiniteSets

CONSTANTS
    Drivers,    \* "pq", "sqlite", "mongo"
    Templates,  \* texts given to add_query
    Texts,      \* texts given to emplace
    Wheres,     \* statements given to inline_query
    Lists,      \* arrays given to inline_array
    Arguments   \* argument lists: sequences of values [type, text]

VARIABLES driver, call, text, args, stored, at, offset, next, outcome
vars == <<driver, call, text, args, stored, at, offset, next, outcome>>

-----------------------------------------------------------------------------
\* Values: get_char_array, get_byte_array
get_char_array(v) == <<"'" \o v.text \o "'">>
get_byte_array(v) == <<"\\x" \o v.text>>
sqlite_char_array(v) == <<"'" \o v.text \o "'">>
sqlite_byte_array(v) == <<"x'" \o v.text>>

Negated(v) == IF v.text = "1" THEN <<"-1">> ELSE <<"1">>

RECURSIVE Flat(_), Joined(_)
Flat(s) == IF s = <<>> THEN <<>> ELSE Head(s) \o Flat(Tail(s))
Joined(s) == IF Len(s) < 2 THEN Flat(s) ELSE Head(s) \o <<",">> \o Joined(Tail(s))

\* get_sql: numbers are negated, strings escaped
get_sql(v, escape, negate) ==
    CASE v.type = "string" -> IF escape THEN get_char_array(v) ELSE <<v.text>>
      [] v.type = "number" -> IF negate THEN Negated(v) ELSE <<v.text>>
      [] v.type = "binary" -> get_byte_array(v)
      [] v.type = "null" -> <<"NULL">>

sqlite_get_sql(v, escape, negate) ==
    CASE v.type = "string" -> IF escape THEN sqlite_char_array(v) ELSE <<v.text>>
      [] v.type = "number" -> IF negate THEN Negated(v) ELSE <<v.text>>
      [] v.type = "binary" -> sqlite_byte_array(v)
      [] v.type = "null" -> <<"NULL">>

\* get_json: no negation
get_json(v, escape) ==
    CASE v.type = "string" -> IF escape THEN <<"\"" \o v.text \o "\"">> ELSE <<v.text>>
      [] v.type = "number" -> <<v.text>>
      [] v.type = "binary" -> <<"oid" \o v.text>>
      [] v.type = "null" -> <<"null">>

\* A value, and an array of values; get_json always quotes inside of one
Scalar(d, v, escape, negate) ==
    CASE d = "pq" -> get_sql(v, escape, negate)
      [] d = "sqlite" -> sqlite_get_sql(v, escape, negate)
      [] d = "mongo" -> get_json(v, escape)

Rendered(d, v, escape, negate) ==
    IF v.type # "array" THEN Scalar(d, v, escape, negate)
    ELSE <<"[">> \o Joined([i \in DOMAIN v.items |->
                             Scalar(d, v.items[i], escape \/ d = "mongo", negate)]) \o <<"]">>

-----------------------------------------------------------------------------
Escaped == {"$a", "$b"}   \* $<..>
Unsafe == {"@a", "@b"}    \* @<..>
Key(token) == IF token \in {"$a", "@a"} THEN 1 ELSE 2

\* find_in_between, and is_preceded_by "-"; positions count from 0
Found(t, names, negatable) ==
    LET at1 == SelectSeq([i \in 1..Len(t) |-> i], LAMBDA i : t[i] \in names)
        neg(i) == negatable /\ i > 1 /\ t[i - 1] = "-"
    IN [k \in DOMAIN at1 |->
          LET i == at1[k] IN
          [key |-> Key(t[i]), escape |-> names = Escaped, negate |-> neg(i),
           start |-> IF neg(i) THEN i - 2 ELSE i - 1, end |-> i]]

Items(items) == {items[i] : i \in DOMAIN items}

\* replace_parts sorts what it is given by start
Sorted(items) ==
    [k \in DOMAIN items |->
        CHOOSE x \in Items(items) : Cardinality({y \in Items(items) : y.start < x.start}) = k - 1]

Cut(t, from, to, with) == SubSeq(t, 1, from) \o with \o SubSeq(t, to + 1, Len(t))

Erasable == {"s", "-", ",", "sep"}

\* replace_parts, one variable: it becomes nothing, or the spaces its
\* neighbours need
replace_part(q) ==
    LET x == Head(q.items)
        s == x.start + q.shift
        e == x.end + q.shift
        left == IF s > 0 /\ ~x.negate /\ q.request[s] \notin Erasable THEN <<"sep">> ELSE <<>>
        right == IF e < Len(q.request) /\ q.request[e + 1] \notin Erasable THEN <<"sep">> ELSE <<>>
    IN [request |-> Cut(q.request, s, e, left \o right), cache |-> <<>>, items |-> Tail(q.items),
        shift |-> q.shift + Len(left \o right) - (e - s),
        positions |-> Append(q.positions,
            [key |-> x.key, escape |-> x.escape, negate |-> x.negate, offset |-> s])]

\* add_query: constants are replaced first
Enumerated(t) == Flat([i \in DOMAIN t |-> IF t[i] = "#c" THEN <<"k", "k">> ELSE <<t[i]>>])

\* then variables are taken out; a text without any is kept as the cached query
Parsed(text0, negatable) ==
    LET t == Enumerated(text0)
        items == Sorted(Found(t, Escaped, negatable) \o Found(t, Unsafe, negatable))
    IN [request |-> t, positions |-> <<>>, items |-> items, shift |-> 0,
        cache |-> IF items = <<>> THEN t ELSE <<>>]

pq_add_query(t) == Parsed(t, TRUE)
sqlite_add_query(t) == Parsed(t, TRUE)
mongo_add_query(t) == Parsed(t, FALSE)

\* get_cache_dump: the cached query, or the request, never both
Dump(q) == [positions |-> q.positions,
            request |-> IF q.cache = <<>> THEN q.request ELSE <<>>, cache |-> q.cache]


Load(d) == [positions |-> d.positions, cache |-> d.cache, items |-> <<>>, shift |-> 0,
            request |-> IF d.request = <<>> THEN d.cache ELSE d.request]

pq_get_cache_dump(q) == Dump(q)
sqlite_get_cache_dump(q) == Dump(q)
mongo_get_cache_dump(q) == Dump(q)
pq_load_cache_dump(d) == Load(d)
sqlite_load_cache_dump(d) == Load(d)
mongo_load_cache_dump(d) == Load(d)

-----------------------------------------------------------------------------
Empty == [request |-> <<>>, positions |-> <<>>, cache |-> <<>>, items |-> <<>>, shift |-> 0]

Init ==
    /\ driver \in Drivers
    /\ call \in {"template", "emplace", "array", "query"} /\ (driver = "mongo" => call = "template")
    /\ text \in (CASE call = "template" -> Templates [] call = "emplace" -> Texts
                   [] call = "array" -> Lists [] call = "query" -> Wheres)
    /\ args \in (IF call \in {"template", "emplace"} THEN Arguments ELSE {<<>>})
    /\ stored = Empty /\ at = "start" /\ offset = 0 /\ next = 1 /\ outcome = <<>>

Unknown(t) == \E i \in DOMAIN t : t[i] = "#d"

add_fails ==
    /\ at = "start" /\ call = "template" /\ Unknown(text)
    /\ at' = "error" /\ UNCHANGED <<driver, call, text, args, stored, offset, next, outcome>>

add_query ==
    /\ at = "start" /\ call = "template" /\ ~Unknown(text)
    /\ stored' = CASE driver = "pq" -> pq_add_query(text)
                   [] driver = "sqlite" -> sqlite_add_query(text)
                   [] driver = "mongo" -> mongo_add_query(text)
    /\ at' = "added"
    /\ UNCHANGED <<driver, call, text, args, offset, next, outcome>>

replace_parts ==
    /\ at = "added" /\ stored.items # <<>>
    /\ stored' = replace_part(stored)
    /\ UNCHANGED <<driver, call, text, args, at, offset, next, outcome>>

\* The templates are saved by one process and loaded by another
carry_over ==
    /\ at = "added" /\ stored.items = <<>> /\ at' = "carried"
    /\ stored' = CASE driver = "pq" -> pq_load_cache_dump(pq_get_cache_dump(stored))
                   [] driver = "sqlite" -> sqlite_load_cache_dump(sqlite_get_cache_dump(stored))
                   [] driver = "mongo" -> mongo_load_cache_dump(mongo_get_cache_dump(stored))
    /\ UNCHANGED <<driver, call, text, args, offset, next, outcome>>

\* get_query: the cached query, the request as it is, or the values inserted
Begin_get ==
    /\ at \in {"added", "carried"} /\ stored.items = <<>>
    /\ IF stored.cache # <<>> THEN at' = "done" /\ outcome' = stored.cache
       ELSE IF args = <<>> THEN at' = "done" /\ outcome' = stored.request
       ELSE at' = "insert" /\ outcome' = stored.request
    /\ UNCHANGED <<driver, call, text, args, stored, offset, next>>

Inserted(t, where, value) == Cut(t, where, where, value)

get_query ==
    /\ at = "insert"
    /\ IF next > Len(stored.positions) THEN at' = "done" /\ UNCHANGED <<offset, next, outcome>>
       ELSE LET p == stored.positions[next] IN
            IF p.key > Len(args) THEN at' = "error" /\ UNCHANGED <<offset, next, outcome>>
            ELSE LET v == Rendered(driver, args[p.key], p.escape, p.negate) IN
                 /\ outcome' = Inserted(outcome, p.offset + offset, v)
                 /\ offset' = offset + Len(v) /\ next' = next + 1 /\ UNCHANGED at
    /\ UNCHANGED <<driver, call, text, args, stored>>

-----------------------------------------------------------------------------
\* inline_array: one ? per item, objects in parentheses
inline_array(items) ==
    LET def(x) == IF x.type = "object"
                  THEN <<"(">> \o Joined([i \in DOMAIN x.items |-> <<"?">>]) \o <<")">> ELSE <<"?">>
        kept == SelectSeq(items, LAMBDA x : x.type # "object" \/ x.items # <<>>)
    IN [def |-> Joined([i \in DOMAIN kept |-> def(kept[i])]),
        map |-> Flat([i \in DOMAIN kept |-> IF kept[i].type = "object" THEN kept[i].items ELSE <<kept[i]>>])]

sqlite_inline_array(items) == inline_array(items)

\* inline_query: operators as they are, operands as ?
inline_query(statements) ==
    [def |-> [i \in DOMAIN statements |->
                IF statements[i].type = "op" THEN statements[i].text ELSE "?"],
     map |-> SelectSeq(statements, LAMBDA x : x.type # "op")]

sqlite_inline_query(statements) == inline_query(statements)

\* What emplace is called with
Given ==
    CASE call = "emplace" -> [def |-> text, map |-> args]
      [] call = "array" -> IF driver = "pq" THEN inline_array(text) ELSE sqlite_inline_array(text)
      [] call = "query" -> IF driver = "pq" THEN inline_query(text) ELSE sqlite_inline_query(text)
      [] OTHER -> [def |-> <<>>, map |-> <<>>]

Begin_emplace ==
    /\ at = "start" /\ call # "template"
    /\ outcome' = Given.def
    /\ at' = IF Given.map = <<>> THEN "done" ELSE "emplace"
    /\ UNCHANGED <<driver, call, text, args, stored, offset, next>>

\* Where the search goes on after an inserted value
Past(start, value) == start + Len(value)

\* emplace: one turn of the loop; start counts from 0
emplace_step(map) ==
    LET marks == {i \in 1..Len(outcome) : i > offset /\ outcome[i] = "?"}
        start == (CHOOSE i \in marks : \A j \in marks : i <= j) - 1
        before(k) == IF start >= k THEN outcome[start + 1 - k] ELSE ""
        back == IF before(1) = "$" THEN (IF before(2) = "-" THEN 2 ELSE 1)
                ELSE IF before(1) = "-" THEN 1 ELSE 0
        escape == before(1) # "$"
        negate == before(1) = "-" \/ (before(1) = "$" /\ before(2) = "-")
    IN IF marks = {} THEN at' = "done" /\ UNCHANGED <<outcome, offset, next>>
       ELSE IF next > Len(map) THEN at' = "error" /\ UNCHANGED <<outcome, offset, next>>
       ELSE IF before(1) = "\\"
       THEN /\ outcome' = Cut(outcome, start - 1, start, <<>>)
            /\ offset' = start /\ UNCHANGED <<at, next>>
       ELSE LET value == Rendered(driver, map[next], escape, negate) IN
            /\ outcome' = Cut(outcome, start - back, start - back + (IF escape THEN 1 ELSE 2), value)
            /\ offset' = Past(start - back, value)
            /\ next' = next + 1 /\ UNCHANGED at

emplace == /\ at = "emplace" /\ driver = "pq" /\ emplace_step(Given.map)
           /\ UNCHANGED <<driver, call, text, args, stored>>
sqlite_emplace == /\ at = "emplace" /\ driver = "sqlite" /\ emplace_step(Given.map)
                  /\ UNCHANGED <<driver, call, text, args, stored>>

Returned == at \in {"done", "error"} /\ UNCHANGED vars

Next == \/ add_fails \/ add_query \/ replace_parts \/ carry_over \/ Begin_get \/ get_query
        \/ Begin_emplace \/ emplace \/ sqlite_emplace \/ Returned
Spec == Init /\ [][Next]_vars /\ WF_vars(Next)

-----------------------------------------------------------------------------
Plain(t) == SelectSeq(t, LAMBDA x : x # "sep")
RefValue(v, escape, negate) == Rendered(driver, v, escape, negate)

\* The reference: every token by itself, from left to right
RECURSIVE RefTemplate(_), RefText(_, _)
RefTemplate(t) ==
    IF t = <<>> THEN <<>>
    ELSE IF driver # "mongo" /\ Len(t) > 1 /\ t[1] = "-" /\ t[2] \in Escaped \cup Unsafe
    THEN RefValue(args[Key(t[2])], t[2] \in Escaped, TRUE) \o RefTemplate(SubSeq(t, 3, Len(t)))
    ELSE IF t[1] \in Escaped \cup Unsafe
    THEN RefValue(args[Key(t[1])], t[1] \in Escaped, FALSE) \o RefTemplate(Tail(t))
    ELSE <<t[1]>> \o RefTemplate(Tail(t))

RefText(t, m) ==
    IF t = <<>> THEN <<>>
    ELSE IF Len(t) > 1 /\ t[1] = "\\" /\ t[2] = "?" THEN <<"?">> \o RefText(SubSeq(t, 3, Len(t)), m)
    ELSE IF Len(t) > 1 /\ t[1] = "$" /\ t[2] = "?"
    THEN RefValue(m[1], FALSE, FALSE) \o RefText(SubSeq(t, 3, Len(t)), Tail(m))
    ELSE IF t[1] = "?" THEN RefValue(m[1], TRUE, FALSE) \o RefText(Tail(t), Tail(m))
    ELSE <<t[1]>> \o RefText(Tail(t), m)

Variables(t) == {Key(t[i]) : i \in {j \in DOMAIN t : t[j] \in Escaped \cup Unsafe}}

(* get_query() puts every value where its variable stood, however often    *)
(* and in whatever order escaped and unsafe variables occur, and also      *)
(* after the parsed template was dumped and loaded.                        *)
TemplateCorrect ==
    (call = "template" /\ at = "done" /\ args # <<>>) => Plain(outcome) = RefTemplate(Enumerated(text))

(* It fails exactly when a constant or a variable has no value.            *)
TemplateFails ==
    (call = "template" /\ at = "error") =>
        (\E i \in DOMAIN text : text[i] = "#d") \/ \E k \in Variables(text) : k > Len(args)

(* emplace() replaces the holes by the arguments in order; values are not  *)
(* searched for holes again.                                               *)
EmplaceCorrect ==
    (call # "template" /\ at = "done" /\ Given.map # <<>>) => outcome = RefText(Given.def, Given.map)

(* It is refused only when there are fewer arguments than question marks,  *)
(* escaped ones counted.                                                   *)
EnoughMarks ==
    (call # "template" /\ at = "error") =>
        Cardinality({i \in DOMAIN Given.def : Given.def[i] = "?"}) > Len(Given.map)
=============================================================================
