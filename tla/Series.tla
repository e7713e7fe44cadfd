------------------------------- MODULE Series -------------------------------
(***************************************************************************)
(* layer::series: values packed into a schema node and unpacked again.     *)
(* Scalars are attributes; vectors are a text of items, all but strings,   *)
(* in a child named for their kind, beside a child "size" they all share.  *)
(* A number is its whole part and how many digits follow it.               *)
(***************************************************************************)
EXTENDS Integers, Sequences

CONSTANTS
    Narrow, Wide,       \* bits of the 32 and 64 bit integers of the model
    Integers32, Integers64, Numbers, Texts, Lists, MaxPacks

Missing == <<>>
Fields == {"b", "i", "n", "s", "b-array", "i-array", "n-array", "s-array", "gl-array", "size"}

VARIABLES
    node,       \* the attributes and children of the schema: <<>> is missing, <<x>> holds x
    out,        \* what the last unpack gave: done, type, value
    fresh,      \* history: the types whose last value no other pack overwrote, with it
    packs

vars == <<node, out, fresh, packs>>
None == [done |-> FALSE, type |-> "none", value |-> <<>>]
Init == node = [f \in Fields |-> Missing] /\ out = None /\ fresh = {} /\ packs = 0

Signed(n, bits) == ((n + 2^(bits - 1)) % 2^bits) - 2^(bits - 1)
Unsigned(n, bits) == n % 2^bits
\* std::ostream prints six digits
Printed(x) == IF x.digits = "many" THEN [x EXCEPT !.digits = "six"] ELSE x
Whole(x) == [x EXCEPT !.digits = "none"]

-----------------------------------------------------------------------------
(* The field, and for vectors the size, that a type is packed to; packing  *)
(* makes stale what shares a field with it.                                *)
FieldsOf(type) ==
    CASE type = "bool" -> {"b"} [] type \in {"int32", "int64", "uint32", "uint64"} -> {"i"}
      [] type \in {"float", "double"} -> {"n"} [] type = "string" -> {"s"}
      [] type = "bools" -> {"b-array", "size"}
      [] type \in {"int32s", "int64s", "uint32s", "uint64s"} -> {"i-array", "size"}
      [] type \in {"floats", "doubles"} -> {"n-array", "size"}
      [] type = "strings" -> {"s-array"} [] type = "map" -> {"gl-array", "size"}
Overwrites(type) == FieldsOf(type) \cup (IF type = "strings" THEN {"size"} ELSE {})
Packed(type, value, changed) ==
    /\ packs < MaxPacks /\ packs' = packs + 1 /\ node' = changed /\ out' = None
    /\ fresh' = {f \in fresh : FieldsOf(f[1]) \cap Overwrites(type) = {}} \cup {<<type, value>>}
Attribute(type, value, name, stored) == Packed(type, value, [node EXCEPT ![name] = <<stored>>])
Array(type, value, name, stored) == Packed(type, value, [node EXCEPT ![name] = <<stored>>, !["size"] = <<Len(value)>>])
Of(set) == {[i \in DOMAIN l |-> l[i]] : l \in UNION {[1..n -> set] : n \in Lists}}

pack_bool == \E x \in BOOLEAN : Attribute("bool", x, "b", x)
pack_int32 == \E x \in Integers32 : Attribute("int32", x, "i", x)
pack_int64 == \E x \in Integers64 : Attribute("int64", x, "i", x)
pack_uint32 == \E x \in {Unsigned(y, Narrow) : y \in Integers32} : Attribute("uint32", x, "i", x)
pack_uint64 == \E x \in {Unsigned(y, Wide) : y \in Integers64} : Attribute("uint64", x, "i", Signed(x, Wide))
pack_float == \E x \in Numbers : Attribute("float", x, "n", x)
pack_double == \E x \in Numbers : Attribute("double", x, "n", x)
pack_string == \E x \in Texts : Attribute("string", x, "s", x)
pack_bools == \E x \in Of(BOOLEAN) : Array("bools", x, "b-array", x)
pack_int32s == \E x \in Of(Integers32) : Array("int32s", x, "i-array", x)
pack_int64s == \E x \in Of(Integers64) : Array("int64s", x, "i-array", x)
pack_uint32s == \E x \in Of({Unsigned(y, Narrow) : y \in Integers32}) : Array("uint32s", x, "i-array", x)
pack_uint64s == \E x \in Of({Unsigned(y, Wide) : y \in Integers64}) : Array("uint64s", x, "i-array", x)
pack_floats == \E x \in Of(Numbers) : Array("floats", x, "n-array", [i \in DOMAIN x |-> Printed(x[i])])
pack_doubles == \E x \in Of(Numbers) : Array("doubles", x, "n-array", [i \in DOMAIN x |-> Printed(x[i])])
pack_strings == \E x \in Of(Texts) : Array("strings", x, "s-array", x)
pack_map == \E x \in Of(Integers32 \X Integers64) : Array("map", x, "gl-array", x)

-----------------------------------------------------------------------------
Unpacked(type, done, value) == out' = [done |-> done, type |-> type, value |-> <<value>>] /\ UNCHANGED <<node, fresh, packs>>
(* get_attribute_var of an attribute that is missing gives an empty value; *)
(* only what holds the attribute is unpacked here.                         *)
Held(name) == node[name] # Missing
unpack_bool == Held("b") /\ Unpacked("bool", TRUE, node["b"][1])
unpack_int32 == Held("i") /\ Unpacked("int32", TRUE, Signed(node["i"][1], Narrow))
unpack_int64 == Held("i") /\ Unpacked("int64", TRUE, node["i"][1])
unpack_uint32 == Held("i") /\ Unpacked("uint32", TRUE, Unsigned(node["i"][1], Narrow))
unpack_uint64 == Held("i") /\ Unpacked("uint64", TRUE, Unsigned(node["i"][1], Wide))
unpack_float == Held("n") /\ Unpacked("float", TRUE, node["n"][1])
unpack_double == Held("n") /\ Unpacked("double", TRUE, Whole(node["n"][1]))
unpack_string == Held("s") /\ Unpacked("string", TRUE, node["s"][1])

(* A vector has as many items as "size" says: what the text does not have  *)
(* is read from a stream that has ended, into a variable that was not set. *)
Undefined == <<"undefined">>
Items(text, n) == [i \in 1..n |-> IF i <= Len(text) THEN <<text[i]>> ELSE Undefined]
Vector(type, name) ==
    /\ Held(name)
    /\ LET text == node[name][1]  size == node["size"][1] IN
       IF text = <<>> \/ size = 0 THEN Unpacked(type, FALSE, <<>>) ELSE Unpacked(type, TRUE, Items(text, size))
\* the text was written by the type that reads it
Written(type) == \E f \in fresh : f[1] = type
unpack_bools == Vector("bools", "b-array")
unpack_int32s == Written("int32s") /\ Vector("int32s", "i-array")
unpack_int64s == Written("int64s") /\ Vector("int64s", "i-array")
unpack_uint32s == Written("uint32s") /\ Vector("uint32s", "i-array")
unpack_uint64s == Written("uint64s") /\ Vector("uint64s", "i-array")
unpack_floats == Vector("floats", "n-array")
unpack_doubles == Vector("doubles", "n-array")
unpack_strings == Held("s-array") /\ Unpacked("strings", TRUE, Items(node["s-array"][1], Len(node["s-array"][1])))
unpack_map == Vector("map", "gl-array")

Next ==
    \/ pack_bool \/ pack_int32 \/ pack_int64 \/ pack_uint32 \/ pack_uint64 \/ pack_float \/ pack_double \/ pack_string
    \/ pack_bools \/ pack_int32s \/ pack_int64s \/ pack_uint32s \/ pack_uint64s \/ pack_floats \/ pack_doubles
    \/ pack_strings \/ pack_map
    \/ unpack_bool \/ unpack_int32 \/ unpack_int64 \/ unpack_uint32 \/ unpack_uint64 \/ unpack_float \/ unpack_double
    \/ unpack_string \/ unpack_bools \/ unpack_int32s \/ unpack_int64s \/ unpack_uint32s \/ unpack_uint64s
    \/ unpack_floats \/ unpack_doubles \/ unpack_strings \/ unpack_map

Spec == Init /\ [][Next]_vars

(***************************************************************************)
(* Properties                                                              *)
(***************************************************************************)
Vectors == {"bools", "int32s", "int64s", "uint32s", "uint64s", "floats", "doubles", "strings", "map"}

(* The values whose digits after the point are lost: a double is cast to   *)
(* int (layer.cpp 245), and a vector of numbers is printed with the six    *)
(* digits of a stream (137-156).                                           *)
Lossy(f) ==
    \/ f[1] = "double" /\ f[2].digits # "none"
    \/ f[1] \in {"floats", "doubles"} /\ \E i \in DOMAIN f[2] : f[2][i].digits = "many"

(* What is unpacked is what was packed as that type, whatever was packed   *)
(* into other fields since: booleans, texts and integers of every sign and *)
(* width, and every number that is not among the lossy ones.               *)
UnpacksPacked ==
    \A f \in fresh :
        out.done /\ out.type = f[1] /\ ~Lossy(f) =>
            out.value[1] = IF f[1] \in Vectors THEN [i \in DOMAIN f[2] |-> <<f[2][i]>>] ELSE f[2]

(* An unpack is refused only for a vector that was packed empty, or whose  *)
(* size a later empty vector took.                                         *)
RefusedEmpty == ~out.done /\ out.type # "none" => \A f \in fresh : f[1] = out.type => f[2] = <<>>
=============================================================================
