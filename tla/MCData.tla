------------------------------ MODULE MCData -------------------------------
(* Numbers, variants, schemas, the content cache and the singletons of the  *)
(* runtime for TLC. One of them runs in a behaviour. Words have four bits   *)
(* and bytes two.                                                           *)
EXTENDS Uint128

VARIABLES
    part,  \* the component that runs in this behaviour
    s1, s2, s3, s4, s5, s6, s7, s8, s9, s10, s11, s12, s13, s14, s15, s16  \* its state

Pair(n) == <<n \div 16, n % 16>>

\* The boundaries of words and signs.
Edges == {0, 1, 2, 3, 4, 5, 7, 8, 15, 16, 17, 31, 100, 127, 128, 129, 240, 255}

MCValues == {Pair(n) : n \in {m \in 0..255 : m % 5 = 0} \cup Edges}

MCRights == {Pair(n) : n \in Edges}

MCGarbage == {Zero, <<5, 9>>}

Lefts256 == {Pair(n) : n \in {m \in 0..255 : m % 7 = 0} \cup Edges}

Edges256 == {Pair(n) : n \in Edges}

\* Characters of a decimal: digits, and the distances of - + and . from 0.
DecimalTexts == {<<0>>, <<7>>, <<-3, 1, 2>>, <<0, -2, 5>>, <<-5, 9, -2, 9>>, <<49>>}

\* Schemas of up to three levels.
Leaf(k, t, n) == [key |-> k, type |-> t, x |-> n, kids |-> <<>>]

Node(k, t, s) == [key |-> k, type |-> t, x |-> 0, kids |-> s]

\* A numeral, a text between the marks of a binary, a binary, a pointer.
Odd == {Leaf(<<"a">>, "string", 2), Leaf(<<"a">>, "string", 3), Leaf(<<"a">>, "binary", 0),
        Leaf(<<"a">>, "pointer", 0)}

Leaves == {Leaf(k, t, 1) : k \in {<<>>, <<"a">>, <<"a", "b">>}, t \in {"string", "integer"}}
          \cup {Leaf(<<"a">>, t, 0) : t \in {"null", "boolean", "decimal", "binary", "number", "undefined"}}
          \cup {Node(<<"a">>, "object", <<>>)} \cup Odd

Small == {Leaf(<<"a">>, "string", 1), Leaf(<<"a", "b">>, "null", 0), Leaf(<<>>, "integer", 2)}

Inner == {Node(k, "array", s) : k \in {<<"a">>, <<>>}, s \in {<<>>} \cup [1..1 -> Small \cup Odd] \cup [1..2 -> Small]}

SchemaTrees == {Node(<<>>, "object", s) : s \in [1..1 -> Leaves \cup Inner] \cup [1..2 -> Small]}
               \cup {Node(<<"a", "b">>, "array", <<i, l>>) : i \in Inner, l \in Small} \cup Leaves

U256 == INSTANCE Uint256 WITH
    W <- 4, Base <- 16, Byte <- 2, Values <- Lefts256, Rights <- Edges256, Printed <- Edges256,
    Bases <- {2, 10}, Lengths <- {0, 9}, left <- s1, right <- s2, op <- s3, then <- s4,
    num <- s5, den <- s6, quo <- s7, rem <- s8, copyd <- s9, adder <- s10, base <- s11,
    length <- s12, text <- s13, self <- s14, power <- s15

Dec == INSTANCE Decimal WITH
    Texts <- DecimalTexts, Bases <- {12}, Precisions <- {0, 2}, MaxDigits <- 4, MaxSteps <- 3,
    Clean <- TRUE, value <- s1, op <- s2, arg <- s3, steps <- s4

Var == INSTANCE Variant WITH
    Slots <- {"a", "b"}, Blocks <- {"p", "q", "r"}, v <- s1, used <- s2, twice <- s3

Schemas == INSTANCE SchemaCodec WITH
    Trees <- SchemaTrees, SizeWidth <- 2, Damaged <- TRUE, tree <- s1, buffer <- s2, pos <- s3,
    map <- s4, left <- s5, stack <- s6, live <- s7, result <- s8

Packs == INSTANCE Series WITH
    Narrow <- 4, Wide <- 8, Integers32 <- {-8, 7}, Integers64 <- {-128, 9},
    Numbers <- {[whole |-> 1, digits |-> "none"], [whole |-> 2, digits |-> "many"]},
    Texts <- {"", "t"}, Lists <- {0, 1, 2}, MaxPacks <- 2, node <- s1, out <- s2, fresh <- s3,
    packs <- s4

Run == INSTANCE Runtime WITH
    Types <- {"application", "pq", "uplinks", "transport_layer", "multiplexer", "schedule", "console"},
    Touched <- {"schedule", "console"}, MaxMade <- 1, MaxEvents <- 1, phase <- s1, modes <- s2,
    ptr <- s3, made <- s4, alive <- s5, dying <- s6, active <- s7, acts <- s8, events <- s9,
    requests <- s10, libs <- s11, allocator <- s12, async <- s13, shown <- s14, todo <- s15,
    fault <- s16

Again == INSTANCE Runtime WITH
    Types <- {"application", "pq", "uplinks", "multiplexer", "schedule"},
    Touched <- {"schedule"}, MaxMade <- 2, MaxEvents <- 1, phase <- s1, modes <- s2, ptr <- s3,
    made <- s4, alive <- s5, dying <- s6, active <- s7, acts <- s8, events <- s9,
    requests <- s10, libs <- s11, allocator <- s12, async <- s13, shown <- s14, todo <- s15,
    fault <- s16

Cache == INSTANCE ContentCache WITH
    Threads <- {"a", "b"}, Paths <- {"p"}, Ids <- {"i"}, MaxObjects <- 4, MaxStreams <- 0,
    processors <- s1, alive <- s2, assets <- s3, archives <- s4, streams <- s5, position <- s6,
    thread <- s7, reading <- s8, clearing <- s9, freed <- s10, raced <- s11, epoch <- s12,
    made <- s13, opened <- s14

Archive == INSTANCE ContentCache WITH
    Threads <- {"a", "b"}, Paths <- {"p", "q"}, Ids <- {"i"}, MaxObjects <- 1, MaxStreams <- 1,
    processors <- s1, alive <- s2, assets <- s3, archives <- s4, streams <- s5, position <- s6,
    thread <- s7, reading <- s8, clearing <- s9, freed <- s10, raced <- s11, epoch <- s12,
    made <- s13, opened <- s14

Stored == INSTANCE ContentCache WITH
    Threads <- {"a", "b"}, Paths <- {"p"}, Ids <- {"i"}, MaxObjects <- 2, MaxStreams <- 1,
    processors <- s1, alive <- s2, assets <- s3, archives <- s4, streams <- s5, position <- s6,
    thread <- s7, reading <- s8, clearing <- s9, freed <- s10, raced <- s11, epoch <- s12,
    made <- s13, opened <- s14

ASSUME /\ U256!WideAssumption /\ Run!RuntimeAssumption /\ Again!RuntimeAssumption

all == <<part, vars, s1, s2, s3, s4, s5, s6, s7, s8, s9, s10, s11, s12, s13, s14, s15, s16>>

-----------------------------------------------------------------------------
MCInit ==
    \/ /\ part = "uint128" /\ Init /\ s1 = "off" /\ s2 = "off" /\ s3 = "off" /\ s4 = "off"
       /\ s5 = "off" /\ s6 = "off" /\ s7 = "off" /\ s8 = "off" /\ s9 = "off" /\ s10 = "off"
       /\ s11 = "off" /\ s12 = "off" /\ s13 = "off" /\ s14 = "off" /\ s15 = "off" /\ s16 = "off"
    \/ /\ part = "uint256" /\ left = Zero /\ right = Zero /\ Init /\ U256!Init /\ s16 = "off"
    \/ /\ part = "decimal" /\ left = Zero /\ right = Zero /\ Init /\ Dec!Init /\ s5 = "off"
       /\ s6 = "off" /\ s7 = "off" /\ s8 = "off" /\ s9 = "off" /\ s10 = "off" /\ s11 = "off"
       /\ s12 = "off" /\ s13 = "off" /\ s14 = "off" /\ s15 = "off" /\ s16 = "off"
    \/ /\ part = "variant" /\ left = Zero /\ right = Zero /\ Init /\ Var!Init /\ s4 = "off"
       /\ s5 = "off" /\ s6 = "off" /\ s7 = "off" /\ s8 = "off" /\ s9 = "off" /\ s10 = "off"
       /\ s11 = "off" /\ s12 = "off" /\ s13 = "off" /\ s14 = "off" /\ s15 = "off" /\ s16 = "off"
    \/ /\ part = "schema" /\ left = Zero /\ right = Zero /\ Init /\ Schemas!Init /\ s9 = "off"
       /\ s10 = "off" /\ s11 = "off" /\ s12 = "off" /\ s13 = "off" /\ s14 = "off" /\ s15 = "off"
       /\ s16 = "off"
    \/ /\ part = "series" /\ left = Zero /\ right = Zero /\ Init /\ Packs!Init /\ s5 = "off"
       /\ s6 = "off" /\ s7 = "off" /\ s8 = "off" /\ s9 = "off" /\ s10 = "off" /\ s11 = "off"
       /\ s12 = "off" /\ s13 = "off" /\ s14 = "off" /\ s15 = "off" /\ s16 = "off"
    \/ /\ part = "runtime" /\ left = Zero /\ right = Zero /\ Init /\ Run!Init
    \/ /\ part = "again" /\ left = Zero /\ right = Zero /\ Init /\ Again!Init
    \/ /\ part = "cache" /\ left = Zero /\ right = Zero /\ Init /\ Cache!Init
       /\ s15 = "off" /\ s16 = "off"
    \/ /\ part = "archive" /\ left = Zero /\ right = Zero /\ Init /\ Archive!Init
       /\ s15 = "off" /\ s16 = "off"
    \/ /\ part = "stored" /\ left = Zero /\ right = Zero /\ Init /\ Stored!Init
       /\ s15 = "off" /\ s16 = "off"

\* A step of a component.
OfU128(A) == /\ part = "uint128" /\ A
             /\ UNCHANGED <<part, s1, s2, s3, s4, s5, s6, s7, s8, s9, s10, s11, s12, s13, s14, s15,
                      s16>>
OfU256(A) == /\ part = "uint256" /\ A /\ UNCHANGED <<part, vars, s16>>
OfDec(A) == /\ part = "decimal" /\ A
            /\ UNCHANGED <<part, vars, s5, s6, s7, s8, s9, s10, s11, s12, s13, s14, s15, s16>>
OfVar(A) == /\ part = "variant" /\ A
            /\ UNCHANGED <<part, vars, s4, s5, s6, s7, s8, s9, s10, s11, s12, s13, s14, s15, s16>>
OfSchemas(A) == /\ part = "schema" /\ A
                /\ UNCHANGED <<part, vars, s9, s10, s11, s12, s13, s14, s15, s16>>
OfPacks(A) == /\ part = "series" /\ A
              /\ UNCHANGED <<part, vars, s5, s6, s7, s8, s9, s10, s11, s12, s13, s14, s15, s16>>
OfRun(A) == /\ part = "runtime" /\ A /\ UNCHANGED <<part, vars>>
OfAgain(A) == /\ part = "again" /\ A /\ UNCHANGED <<part, vars>>
OfCache(A) == /\ part = "cache" /\ A /\ UNCHANGED <<part, vars, s15, s16>>
OfArchive(A) == /\ part = "archive" /\ A /\ UNCHANGED <<part, vars, s15, s16>>
OfStored(A) == /\ part = "stored" /\ A /\ UNCHANGED <<part, vars, s15, s16>>

MCNext ==
    \/ OfU128(Next)
    \/ OfU256(U256!Next)
    \/ OfDec(Dec!Next)
    \/ OfVar(Var!Next)
    \/ OfSchemas(Schemas!Next)
    \/ OfPacks(Packs!Next)
    \/ OfRun(Run!Next)
    \/ OfAgain(Again!Next)
    \/ OfCache(Cache!Next)
    \/ OfArchive(Archive!Next)
    \/ OfStored(Stored!Next)

MCSpec == MCInit /\ [][MCNext]_all

-----------------------------------------------------------------------------
(* The operators of uint128 and uint256 are those of the numbers modulo    *)
(* 2^128 and 2^256, carries and borrows included, also when mixed with a   *)
(* builtin integer that is not negative; after every step of a division    *)
(* quotient and remainder make up the dividend; what is encoded is decoded *)
(* as the same number, and what is printed is read as it.  Not so: a right *)
(* shift of uint256 by half of its width or more loses the upper half, a   *)
(* compact encoding shorter than the number is read as a multiple of it,   *)
(* padding in base 16 is put after the digits, and the text constructor of *)
(* uint128 starts with what the memory holds.  A decimal keeps the form    *)
(* that its comparisons rely on, they order it as the number it is, its    *)
(* text parses back, and every operation is exact up to the digits it      *)
(* keeps (divisions: only those that Clean lets through, see Decimal).     *)
NumbersExact ==
    /\ [](/\ part = "uint128" => /\ ProductExact /\ ShiftExact /\ DivideExact /\ MixedExact
                                 /\ CompactExact /\ ParsesBack
          /\ part = "uint256" => /\ U256!SumExact /\ U256!ProductExact /\ U256!ShiftExact
                                 /\ U256!DivideExact /\ U256!MixedExact /\ U256!CompactExact
                                 /\ U256!ParsesBack
          /\ part = "decimal" => Dec!TypeOK /\ Dec!Normal /\ Dec!OrderAgrees /\ Dec!RoundTrip)
    /\ [][part = "decimal" => /\ Dec!SumExact /\ Dec!ProductExact /\ Dec!QuotientExact
                              /\ Dec!RemainderExact /\ Dec!RoundNearest /\ Dec!FromExact]_all

(* A schema survives its binary form, and a damaged one is told; a variant *)
(* survives its copies, and its text, but for strings that read as numbers *)
(* or booleans and an empty binary; JSON keeps the kind of a value, but    *)
(* for a numeral in a string, a binary and what is undefined or a pointer; *)
(* a packed field is unpacked as it was, but for the fraction of a double  *)
(* and what vectors of numbers print.  Every block and every node has one  *)
(* owner, and no bytes are taken for a pointer but where the text of a     *)
(* pointer is read over them.                                              *)
ValuesKept ==
    /\ [](/\ part = "variant" => /\ Var!OwnedOnce /\ Var!TextKeepsValue /\ Var!ConversionsAgree
                                 /\ Var!CopySame
          /\ part = "schema" => /\ Schemas!RoundTrip /\ Schemas!DamageIsError /\ Schemas!NothingLost
                                /\ Schemas!JsonKeepsKind
          /\ part = "series" => Packs!UnpacksPacked /\ Packs!RefusedEmpty)
    /\ [][part = "variant" => Var!PointerGiven]_all

(* Threads that cache a resource for one path share it, a load gives the   *)
(* content of its path, nothing of the content manager is used after its   *)
(* release, and the singletons of the runtime go in an order in which none *)
(* uses one that is gone.  Not so: calls that overlap a release of what    *)
(* they use (raced), and loads from one archive, which move each other's   *)
(* stream (see ContentCache).                                              *)
NothingDeadUsed ==
    /\ part = "cache" => Cache!SameResource /\ Cache!NothingFreedUsed /\ Cache!CacheAlive /\ Cache!RightContent
    /\ part = "archive" => Archive!NothingFreedUsed /\ Archive!CacheAlive /\ Archive!RightContent
    /\ part = "stored" => /\ Stored!SameResource /\ Stored!NothingFreedUsed /\ Stored!CacheAlive
                          /\ Stored!RightContent
    /\ part = "runtime" => /\ Run!TypeOK /\ Run!NothingDeadUsed /\ Run!ActivationsBalanced
                           /\ Run!AllDown
    /\ part = "again" => Again!NothingDeadUsed /\ Again!ActivationsBalanced /\ Again!AllDown
=============================================================================
