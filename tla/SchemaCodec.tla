----------------------------- MODULE SchemaCodec -----------------------------
(* The binary and the JSON form of a schema.  to_jsonb writes a version, the     *)
(* table of the names and then the nodes, each as the number of its name, its    *)
(* type and its value or the number of its children; from_jsonb reads them back  *)
(* from a buffer that may end anywhere.  to_json and from_json are modelled by   *)
(* what becomes of a value of each type.                                         *)
EXTENDS Integers, Sequences, SequencesExt, FiniteSets

CONSTANTS Trees,       \* the schemas that are written
          SizeWidth,   \* sizes of names are kept modulo 2^SizeWidth
          Damaged      \* TRUE: the buffer may be of another version, or cut

VARIABLES tree,    \* the schema that was written
          buffer,  \* what the reader is given
          pos,     \* offset of the reader
          map,     \* number -> name, as read
          left,    \* names still to be read
          stack,   \* nodes being read, innermost first
          live,    \* nodes created and not released
          result   \* NoResult, Error, or the schema
vars == <<tree, buffer, pos, map, left, stack, live, result>>

JSONB_VERSION == "version"
Token(t, x) == [t |-> t, x |-> x]

Leaf(key, type, x) == [key |-> key, type |-> type, x |-> x, kids |-> <<>>]
Node(key, type, kids) == [key |-> key, type |-> type, x |-> 0, kids |-> kids]
NoResult == Leaf(<<>>, "none", 0)
Error == Leaf(<<>>, "error", 0)
IsObject(n) == n.type \in {"object", "array"}

(* A name is a sequence of letters; its size is written in two bytes.            *)
RECURSIVE NamesOf(_)
NamesOf(n) == (IF n.key = <<>> THEN <<>> ELSE <<n.key>>) \o FlattenSeq([i \in DOMAIN n.kids |-> NamesOf(n.kids[i])])

(* generate_naming_table numbers the names in the order they are first met       *)
RECURSIVE generate_naming_table(_)
generate_naming_table(s) ==
  IF s = <<>> THEN <<>>
  ELSE LET rest == generate_naming_table(Front(s))
       IN IF Last(s) \in ToSet(rest) THEN rest ELSE Append(rest, Last(s))

NumberOf(names, key) ==
  IF key = <<>> THEN -1 ELSE (CHOOSE i \in DOMAIN names : names[i] = key) - 1

RECURSIVE process_convertion_to_jsonb(_, _)
process_convertion_to_jsonb(n, names) ==
  <<Token("id", NumberOf(names, n.key)), Token("type", n.type)>> \o
  (CASE IsObject(n) -> <<Token("count", Len(n.kids))>> \o
          FlattenSeq([i \in DOMAIN n.kids |-> process_convertion_to_jsonb(n.kids[i], names)])
     [] n.type \in {"string", "binary", "decimal"} -> <<Token("size", n.x), Token("bytes", n.x)>>
     [] n.type \in {"integer", "number", "boolean"} -> <<Token("value", n.x)>>
     [] OTHER -> <<>>)

Size(name) == Len(name) % (2^SizeWidth)

convert_to_jsonb(n) ==
  LET names == generate_naming_table(NamesOf(n))
  IN <<Token("version", JSONB_VERSION), Token("set", Len(names))>>
     \o FlattenSeq([i \in DOMAIN names |->
          <<Token("index", i - 1), Token("length", Size(names[i]))>>
          \o (IF Size(names[i]) > 0 THEN <<Token("name", SubSeq(names[i], 1, Size(names[i])))>> ELSE <<>>)])
     \o process_convertion_to_jsonb(n, names)

--------------------------------------------------------------------------------
(* The buffer: what was written, or another version, or a part of it             *)
Init ==
  /\ tree \in Trees
  /\ LET all == convert_to_jsonb(tree)
     IN buffer \in {all} \cup (IF Damaged
          THEN {SubSeq(all, 1, n) : n \in 0..(Len(all) - 1)} \cup {<<Token("version", "other")>> \o Tail(all)}
          ELSE {})
  /\ pos = 0 /\ map = <<>> /\ left = -1 /\ stack = <<>> /\ live = 0 /\ result = NoResult

Reading == result = NoResult
Ended == pos >= Len(buffer)
Next1 == buffer[pos + 1]

(* The callback fails: the nodes made so far are released with the root          *)
Fail == result' = Error /\ live' = 0

bad_value ==
  /\ Reading /\ Ended /\ Fail
  /\ UNCHANGED <<tree, buffer, pos, map, left, stack>>

ReadVersion ==
  /\ Reading /\ ~Ended /\ pos = 0
  /\ IF Next1.x = JSONB_VERSION THEN pos' = 1 /\ UNCHANGED <<result, live>>
     ELSE Fail /\ UNCHANGED pos
  /\ UNCHANGED <<tree, buffer, map, left, stack>>

Root == <<[key |-> <<>>, type |-> "object", x |-> 0, kids |-> <<>>, need |-> -1, at |-> "id"]>>

ReadSet ==
  /\ Reading /\ ~Ended /\ Next1.t = "set"
  /\ left' = Next1.x /\ pos' = pos + 1
  /\ IF Next1.x = 0 THEN stack' = Root /\ live' = 1 ELSE UNCHANGED <<stack, live>>
  /\ UNCHANGED <<tree, buffer, map, result>>

(* One name: a size of zero has no bytes and enters nothing                      *)
ReadName ==
  /\ Reading /\ left > 0 /\ ~Ended /\ Next1.t = "index"
  /\ IF pos + 1 >= Len(buffer) \/ (buffer[pos + 2].x > 0 /\ pos + 2 >= Len(buffer))
     THEN Fail /\ UNCHANGED <<pos, map, left, stack>>
     ELSE LET size == buffer[pos + 2].x
          IN /\ map' = IF size > 0 THEN Append(map, <<Next1.x, buffer[pos + 3].x>>) ELSE map
             /\ pos' = pos + (IF size > 0 THEN 3 ELSE 2)
             /\ left' = left - 1
             /\ IF left = 1 THEN stack' = Root /\ live' = 1 ELSE UNCHANGED <<stack, live>>
             /\ UNCHANGED result
  /\ UNCHANGED <<tree, buffer>>

Top == Head(stack)
KeyOf(id) ==
  IF \E e \in ToSet(map) : e[1] = id THEN (CHOOSE e \in ToSet(map) : e[1] = id)[2] ELSE <<>>

ReadId ==
  /\ Reading /\ stack # <<>> /\ ~Ended /\ Top.at = "id"
  /\ stack' = <<[Top EXCEPT !.key = IF Next1.x = -1 THEN @ ELSE KeyOf(Next1.x), !.at = "type"]>> \o Tail(stack)
  /\ pos' = pos + 1
  /\ UNCHANGED <<tree, buffer, map, left, live, result>>

(* The node is complete when it has no value, its value, or its children         *)
RECURSIVE Complete(_)
Complete(s) ==
  LET n == [key |-> Head(s).key, type |-> Head(s).type, x |-> Head(s).x, kids |-> Head(s).kids]
  IN IF Tail(s) = <<>> THEN [stack |-> <<>>, result |-> n]
     ELSE LET up == [s[2] EXCEPT !.kids = Append(@, n), !.need = @ - 1]
              below == <<up>> \o SubSeq(s, 3, Len(s))
          IN IF up.need = 0 THEN Complete(below) ELSE [stack |-> below, result |-> NoResult]

(* The next child of a node: set::object(), then its name                        *)
Child(s) == <<[key |-> <<>>, type |-> "object", x |-> 0, kids |-> <<>>, need |-> -1, at |-> "id"]>> \o s
Done(s) ==
  LET c == Complete(s)
  IN /\ stack' = (IF c.stack = <<>> THEN <<>> ELSE Child(c.stack))
     /\ live' = live + (IF c.stack = <<>> THEN 0 ELSE 1)
     /\ result' = c.result

ReadType ==
  /\ Reading /\ stack # <<>> /\ ~Ended /\ Top.at = "type"
  /\ LET n == [Top EXCEPT !.type = Next1.x, !.at = "value"]
     IN IF Next1.x \in {"null", "undefined", "pointer"} THEN Done(<<n>> \o Tail(stack))
        ELSE stack' = <<n>> \o Tail(stack) /\ UNCHANGED <<live, result>>
  /\ pos' = pos + 1
  /\ UNCHANGED <<tree, buffer, map, left>>

ReadCount ==
  /\ Reading /\ stack # <<>> /\ ~Ended /\ Top.at = "value" /\ Next1.t = "count"
  /\ IF Next1.x = 0 THEN Done(stack)
     ELSE /\ stack' = Child(<<[Top EXCEPT !.need = Next1.x]>> \o Tail(stack))
          /\ live' = live + 1 /\ UNCHANGED result
  /\ pos' = pos + 1
  /\ UNCHANGED <<tree, buffer, map, left>>

ReadValue ==
  /\ Reading /\ stack # <<>> /\ ~Ended /\ Top.at = "value" /\ Next1.t \in {"value", "size"}
  /\ IF Next1.t = "size" /\ pos + 1 >= Len(buffer)
     THEN Fail /\ UNCHANGED <<pos, stack>>
     ELSE /\ Done(<<[Top EXCEPT !.x = Next1.x]>> \o Tail(stack))
          /\ pos' = pos + (IF Next1.t = "size" THEN 2 ELSE 1)
  /\ UNCHANGED <<tree, buffer, map, left>>

Idle == (~Reading \/ Ended) /\ UNCHANGED vars

Next == bad_value \/ ReadVersion \/ ReadSet \/ ReadName \/ ReadId \/ ReadType \/ ReadCount
        \/ ReadValue \/ Idle
Spec == Init /\ [][Next]_vars /\ WF_vars(Next)

--------------------------------------------------------------------------------
(* What becomes of a value in JSON.  The text of a string may be that of a       *)
(* number or stand between the marks of a binary.  Any text that is a numeral    *)
(* becomes a number; only an array takes text between marks for a binary again;  *)
(* a root that is undefined, and a pointer, are written as a bare word.          *)
Numeral == 2
Marked == 3
convert_to_json(n, root) ==
  CASE n.type = "null" \/ (n.type = "undefined" /\ ~root) -> "null"
    [] n.type \in {"integer", "number", "decimal"} \/ (n.type = "string" /\ n.x = Numeral) -> "numeral"
    [] n.type = "binary" \/ (n.type = "string" /\ n.x = Marked) -> "marked"
    [] n.type = "string" -> "text"
    [] n.type \in {"undefined", "pointer"} -> "word"
    [] OTHER -> n.type
process_conversion_from_json_string_or_number(token) == IF token = "numeral" THEN "number" ELSE "string"
process_convertion_from_json(token, in_array) ==
  CASE token \in {"numeral", "text"} -> process_conversion_from_json_string_or_number(token)
    [] token = "marked" -> (IF in_array THEN "binary" ELSE "string")
    [] token = "word" -> "error"
    [] OTHER -> token

--------------------------------------------------------------------------------
RECURSIVE NodeCount(_)
NodeCount(n) == 1 + FoldLeft(LAMBDA a, k : a + NodeCount(k), 0, n.kids)

(* A whole buffer reads back as the schema that was written.                     *)
RoundTrip == (result # NoResult /\ buffer = convert_to_jsonb(tree)) => result = tree

(* A buffer that ends early, or has another version, is an error and never a     *)
(* schema, and every node made from it is released.                              *)
DamageIsError ==
  (result # NoResult /\ buffer # convert_to_jsonb(tree)) => result = Error /\ live = 0

(* A schema that is returned owns every node that was made.                      *)
NothingLost == (result \notin {NoResult, Error}) => live = NodeCount(result)

(* JSON keeps what kind of value every node has, but for: what is undefined, a   *)
(* pointer, a binary that is not in an array, a string whose text is a numeral   *)
(* (core.cpp 12847-12863), and in an array a string whose text stands between    *)
(* the marks of a binary (12980).                                                *)
Numeric == {"integer", "number", "decimal"}
LosesKind(n, in_array) ==
  \/ n.type \in {"undefined", "pointer"} \/ (n.type = "binary" /\ ~in_array)
  \/ n.type = "string" /\ (n.x = Numeral \/ (n.x = Marked /\ in_array))
RECURSIVE JsonKeeps(_, _, _)
JsonKeeps(n, in_array, root) ==
  LET t == process_convertion_from_json(convert_to_json(n, root), in_array)
  IN /\ (t = n.type \/ (t \in Numeric /\ n.type \in Numeric)) <=> ~LosesKind(n, in_array)
     /\ \A i \in DOMAIN n.kids : JsonKeeps(n.kids[i], n.type = "array", FALSE)
JsonKeepsKind == result = tree => JsonKeeps(result, FALSE, TRUE)
================================================================================
