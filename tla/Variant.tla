-------------------------------- MODULE Variant --------------------------------
(* variant: a tagged union that owns a block of memory when it is a decimal or  *)
(* a string longer than the union, with the constructors of var::, copy, move,  *)
(* assignment, destruction, the conversions, and the text form that             *)
(* serialize() writes and deserialize() reads.                                  *)
(* Numbers are counted in halves, so that 3 is 1.5.  A text is the kind of text *)
(* it is and, for a numeral, its value.                                         *)
EXTENDS Integers, FiniteSets, Sequences

CONSTANTS Slots,       \* variables of type variant
          Blocks       \* blocks the allocator can give

VARIABLES v,      \* slot -> its variant, or Gone
          used,   \* blocks that are allocated
          twice   \* TRUE once a block was released that was not allocated
vars == <<v, used, twice>>

Gone == [type |-> "gone"]
Live(s) == v[s] # Gone

(* What the union holds as a pointer: nothing, a block, the bytes of another    *)
(* member, or the pointer of a user.                                            *)
Nil == "nil"
Bytes == "bytes"
User == "user"
Make(type, text, n, ptr) == [type |-> type, text |-> text, n |-> n, ptr |-> ptr]

null == Make("null", "", 0, Nil)
undefined == Make("undefined", "", 0, Nil)
object == Make("object", "", 0, Nil)
array == Make("array", "", 0, Nil)
pointer == Make("pointer", "", 0, User)
integer(n) == Make("integer", "", 2 * n, Bytes)
number(n) == Make("number", "", n, Bytes)
boolean(b) == Make("boolean", "", b, Bytes)
decimal(n, p) == Make("decimal", "", n, p)
string(t, n, p) == Make("string", t, n, p)
binary(t, p) == Make("binary", t, 0, p)

(* get_max_small_string_size *)
Small(t) == t # "long"
NeedsBlock(x) == x.type = "decimal" \/ (x.type \in {"string", "binary"} /\ ~Small(x.text))

(* Values a program makes; the block is filled in when it is allocated.  The    *)
(* text of a string may be a numeral or a word, "true" or "false".  A decimal   *)
(* is a number: a NaN is written as null.                                       *)
Samples == {null, undefined, object, array, pointer, string("", 0, Bytes),
            string("plain", 0, Bytes), string("long", 0, Nil), string("numeral", 3, Bytes),
            string("word", 2, Bytes), binary("", Bytes), binary("plain", Bytes), binary("long", Nil)}
           \cup {integer(n) : n \in {-1, 0, 2}} \cup {number(n) : n \in {-1, 0, 3}}
           \cup {boolean(b) : b \in {0, 2}} \cup {decimal(n, Nil) : n \in {-1, 0, 3}}

--------------------------------------------------------------------------------
(* Conversions *)
ToZero(n) == IF n >= 0 THEN n \div 2 ELSE -((-n) \div 2)
IsNumeral(x) == x.type = "string" /\ x.text = "numeral"

get_integer(x) ==
  CASE x.type \in {"integer", "number", "decimal"} -> ToZero(x.n)
    [] x.type = "boolean" -> IF x.n > 0 THEN 1 ELSE 0
    [] IsNumeral(x) -> ToZero(x.n)          \* from_string stops at the point
    [] OTHER -> 0
get_number(x) ==
  IF x.type \in {"number", "integer", "decimal", "boolean"} \/ IsNumeral(x) THEN x.n ELSE 0
get_decimal(x) ==
  IF x.type \in {"decimal", "integer", "number", "boolean"} \/ IsNumeral(x) THEN x.n ELSE "nan"
size(x) ==
  CASE x.type \in {"null", "undefined", "object", "array"} -> 0
    [] x.type \in {"string", "binary"} -> (IF x.text = "" THEN 0 ELSE 1)
    [] OTHER -> 1
get_boolean(x) ==
  IF x.type \in {"boolean", "number", "integer", "decimal"} THEN x.n > 0 ELSE size(x) > 0
empty(x) ==
  CASE x.type \in {"null", "undefined"} -> TRUE
    [] x.type \in {"object", "array"} -> FALSE
    [] x.type = "pointer" -> x.ptr = Nil
    [] x.type \in {"string", "binary"} -> x.text = ""
    [] OTHER -> x.n = 0
is_object(x) == x.type \in {"object", "array"}
same(x, y) ==
  /\ x.type = y.type
  /\ CASE x.type \in {"null", "undefined"} -> TRUE
       [] x.type = "pointer" -> x.ptr = y.ptr
       [] x.type \in {"string", "binary"} -> x.text = y.text /\ x.n = y.n
       [] x.type \in {"decimal", "integer", "number", "boolean"} -> x.n = y.n
       [] OTHER -> FALSE
get_blob(x) ==
  CASE x.type \in {"string", "binary"} -> <<x.text, x.n>>
    [] x.type \in {"decimal", "integer", "number"} -> <<"numeral", x.n>>
    [] x.type = "boolean" -> <<"numeral", x.n>>
    [] OTHER -> <<"", 0>>

(* serialize *)
serialize(x) ==
  CASE x.type \in {"null", "undefined", "object", "array", "pointer"} -> <<"$", x.type>>
    [] x.type = "string" -> <<x.text, x.n>>
    [] x.type = "binary" -> <<"bin", x.text>>
    [] x.type = "boolean" -> <<"word", x.n>>
    [] OTHER -> <<"numeral", x.n>>

(* deserialize, not strict; a numeral with few digits after the point is a      *)
(* number, one without point an integer                                         *)
parse(t) ==
  CASE t[1] = "$" -> (CASE t[2] = "null" -> null [] t[2] = "undefined" -> undefined
                        [] t[2] = "object" -> object [] t[2] = "array" -> array
                        [] OTHER -> [pointer EXCEPT !.ptr = Nil])
    [] t[1] = "word" -> boolean(t[2])
    [] t[1] = "numeral" /\ t[2] % 2 = 0 -> integer(t[2] \div 2)
    [] t[1] = "numeral" -> number(t[2])
    [] t = <<"bin", "">> -> string("plain", 0, Bytes)   \* the two marks: too short
    [] t[1] = "bin" -> binary(t[2], IF Small(t[2]) THEN Bytes ELSE Nil)
    [] OTHER -> string(t[1], 0, IF Small(t[1]) THEN Bytes ELSE Nil)

--------------------------------------------------------------------------------
(* free(): the tag is left, the block is released and the pointer cleared       *)
Free(x) == IF NeedsBlock(x) /\ x.ptr # Nil THEN {x.ptr} ELSE {}

Released(S, u) == /\ twice' = (twice \/ ~(S \subseteq u))
                  /\ used' = u \ S

(* copy(): a string or a decimal gets a block of its own                        *)
Fill(x, b) ==
  CASE NeedsBlock(x) -> [x EXCEPT !.ptr = b]
    [] x.type \in {"null", "undefined", "object", "array"} -> [x EXCEPT !.ptr = Nil]
    [] OTHER -> x
(* move(): the pointer goes over, and the other becomes undefined; the bytes of *)
(* a number stay in it                                                          *)
Moved_kept(x) == x
Moved(x) ==
  [undefined EXCEPT !.ptr = IF x.type \in {"integer", "number", "boolean"} THEN Bytes ELSE Nil]

Init == v = [s \in Slots |-> Gone] /\ used = {} /\ twice = FALSE

(* A constructor of var:: *)
Construct(s, x) ==
  /\ ~Live(s)
  /\ \E b \in Blocks \ used :
       /\ v' = [v EXCEPT ![s] = IF NeedsBlock(x) THEN [x EXCEPT !.ptr = b] ELSE x]
       /\ used' = IF NeedsBlock(x) THEN used \cup {b} ELSE used
  /\ UNCHANGED twice

CopyConstruct(s, o) ==
  /\ ~Live(s) /\ Live(o)
  /\ \E b \in Blocks \ used :
       /\ v' = [v EXCEPT ![s] = Fill(v[o], b)]
       /\ used' = IF NeedsBlock(v[o]) THEN used \cup {b} ELSE used
  /\ UNCHANGED twice

MoveConstruct(s, o) ==
  /\ ~Live(s) /\ Live(o)
  /\ v' = [v EXCEPT ![s] = v[o], ![o] = Moved(v[o])]
  /\ UNCHANGED <<used, twice>>

(* operator=: free, then copy or move.  Nothing in the code guards against the  *)
(* variant itself as the source, and nothing in it assigns one to itself.       *)
Assign(s, o) ==
  /\ s # o /\ Live(s) /\ Live(o)
  /\ \E b \in Blocks \ (used \ Free(v[s])) :
       /\ v' = [v EXCEPT ![s] = Fill(v[o], b)]
       /\ twice' = (twice \/ ~(Free(v[s]) \subseteq used))
       /\ used' = (used \ Free(v[s])) \cup (IF NeedsBlock(v[o]) THEN {b} ELSE {})

AssignMove(s, o) ==
  /\ s # o /\ Live(s) /\ Live(o)
  /\ Released(Free(v[s]), used)
  /\ v' = [v EXCEPT ![s] = v[o], ![o] = Moved(v[o])]

Destroy(s) ==
  /\ Live(s) /\ Released(Free(v[s]), used)
  /\ v' = [v EXCEPT ![s] = Gone]

(* deserialize(): the words in $ only set the tag, the rest moves a new variant *)
deserialize(s, x) ==
  /\ Live(s)
  /\ LET t == serialize(x)
         y == parse(t)
         gone == Free(v[s])
         left == IF gone # {} \/ v[s].type = "pointer" THEN Nil ELSE v[s].ptr
     IN \E b \in Blocks \ (used \ gone) :
          /\ v' = [v EXCEPT ![s] = IF t[1] = "$" THEN [y EXCEPT !.ptr = left]
                                   ELSE IF NeedsBlock(y) THEN [y EXCEPT !.ptr = b] ELSE y]
          /\ twice' = (twice \/ ~(gone \subseteq used))
          /\ used' = (used \ gone) \cup (IF NeedsBlock(y) THEN {b} ELSE {})

Next == \E s \in Slots : \/ \E x \in Samples : Construct(s, x) \/ deserialize(s, x)
                         \/ \E o \in Slots : CopyConstruct(s, o) \/ MoveConstruct(s, o)
                                             \/ Assign(s, o) \/ AssignMove(s, o)
                         \/ Destroy(s)
Spec == Init /\ [][Next]_vars

--------------------------------------------------------------------------------
(* Every allocated block belongs to exactly one variant, and every variant that *)
(* needs a block has one: nothing leaks and nothing is released twice.          *)
OwnedOnce ==
  /\ ~twice
  /\ \A b \in used : Cardinality({s \in Slots : Live(s) /\ NeedsBlock(v[s]) /\ v[s].ptr = b}) = 1
  /\ \A s \in Slots : Live(s) /\ NeedsBlock(v[s]) => v[s].ptr \in used

(* A variant that is a pointer holds one that was put there, or none: the bytes *)
(* of a number, a boolean or a short string become a pointer only where the     *)
(* text of a pointer is read over them, as that sets nothing but the tag        *)
(* (core.cpp 3298, 3322-3326), and where such a pointer is copied or moved.     *)
PointerGiven ==
  LET Raw(x) == x.type = "pointer" /\ x.ptr = Bytes
  IN  \A s \in Slots : v'[s] # Gone /\ Raw(v'[s]) =>
        (\E o \in Slots : Live(o) /\ Raw(v[o])) \/ (Live(s) /\ v[s].ptr = Bytes)

(* Text keeps the value: a number reads back with its value, though maybe of    *)
(* another numeric type, a pointer as a pointer to nothing, and the others as   *)
(* what they were.  It does not for a string whose text is that of a number or  *)
(* a boolean (core.cpp 3328-3363), and for an empty binary, which reads back as *)
(* the string of its two marks (3365).                                          *)
TextKeepsValue ==
  \A s \in Slots :
    LET x == v[s]
        y == parse(serialize(x))
    IN  /\ Live(s)
        /\ ~(x.type = "string" /\ x.text \in {"numeral", "word"})
        /\ ~(x.type = "binary" /\ x.text = "")
        => IF x.type \in {"integer", "number", "decimal", "boolean"}
           THEN get_number(y) = get_number(x) /\ get_decimal(y) = get_decimal(x)
           ELSE y.type = x.type /\ y.text = x.text

(* The conversions agree: what is empty is false (but a null pointer), and the  *)
(* integer is the number without its fraction.                                  *)
ConversionsAgree ==
  \A s \in Slots : Live(s) =>
    /\ empty(v[s]) /\ v[s].type # "pointer" => ~get_boolean(v[s])
    /\ v[s].type \in {"integer", "number", "decimal"} => (get_boolean(v[s]) => ~empty(v[s]) /\ get_number(v[s]) > 0)
    /\ v[s].type # "boolean" => get_integer(v[s]) = ToZero(get_number(v[s]))

(* A copy is the same as what was copied, but an object or an array, which is   *)
(* never the same as anything; pointers are the same when they point alike.     *)
CopySame ==
  \A s, o \in Slots : Live(s) /\ Live(o) /\ v[s].type \notin {"object", "array", "pointer"} =>
    (same(v[s], v[o]) <=> [v[s] EXCEPT !.ptr = Nil] = [v[o] EXCEPT !.ptr = Nil])
================================================================================
