---------------------------- MODULE ScriptArray ----------------------------
(***************************************************************************)
(* array<t> of the script engine: a buffer of max_elements slots of which  *)
(* the first num_elements are in use, the rest keeping whatever they held. *)
(* With Kind "handle" a slot is a counted reference to an object of the    *)
(* script or null; with Kind "object" it owns an object of its own, which  *)
(* create makes, assignments write to and destroy releases; with Kind      *)
(* "primitive" it is a number.                                             *)
(* Next to the buffer the model keeps want, the sequence the script may    *)
(* expect, computed on sequences from the meaning of the operation, and    *)
(* off, the arrays of which the last call was not sure: such calls are     *)
(* RefusedInsert and the comparisons that are not Comparable.              *)
(***************************************************************************)
EXTENDS Integers, FiniteSets, SequencesExt

CONSTANTS
  Kind,       \* "handle", "object" or "primitive"
  N,          \* number of objects, none for primitives
  Low,        \* numbers that fit the 32 bits which primitives are compared by
  Values,     \* values of objects, naturals
  Arrays,     \* arrays of one type
  Methods,    \* the methods opEquals and opCmp that the element type declares
  MaxSize     \* check_max_size refuses more elements

ArrayAssumption == Kind \in {"handle", "object", "primitive"} /\ N \in Nat /\ MaxSize \in Nat

VARIABLES
  buffer,  \* array -> slots, num_elements
  heap,    \* objects: reference counts and values
  held,    \* objects the script holds a handle of
  want,    \* array -> elements the script expects
  off      \* arrays that need not hold it after their last call

vars == <<buffer, heap, held, want, off>>

Null == 0

Objects == 1..N

max_elements(b) == Cardinality(DOMAIN b.slots)

Object == Kind = "object"

Handle == Kind = "handle"

\* What the script reads at a slot.
Element(h, x) == IF Object THEN h.val[x] ELSE x

Content(h, b) == [i \in 1..b.num |-> Element(h, b.slots[i - 1])]

-----------------------------------------------------------------------------
(* Reference counting by the engine. *)

Uses(slots, range, o) == Cardinality({i \in range : slots[i] = o})

\* release_object for the objects in a range of slots; an object dies with
\* its last reference.
destroy(h, slots, start, end) ==
  LET left == [o \in Objects |-> h.refs[o] - Uses(slots, start..(end - 1), o)]
  IN  [refs |-> left, val |-> [o \in Objects |-> IF left[o] = 0 THEN 0 ELSE h.val[o]]]

Unused(h) == {o \in Objects : h.refs[o] = 0}

\* The k-th unused object.
FreshAt(h, k) ==
  CHOOSE o \in Unused(h) : Cardinality({p \in Unused(h) : p < o}) = k

\* n new slots: new objects with their default value, or null handles.
create(h, n) ==
  LET made == [k \in 0..(n - 1) |-> IF Object THEN FreshAt(h, k) ELSE Null]
  IN  [slots |-> made,
       heap |-> IF Object
                THEN [h EXCEPT !.refs = [o \in Objects |-> @[o] + Uses(made, 0..(n - 1), o)],
                               !.val = [o \in Objects |-> IF Uses(made, 0..(n - 1), o) > 0 THEN 0 ELSE @[o]]]
                ELSE h]

CanCreate(h, n) == Object => Cardinality(Unused(h)) >= n

check_max_size(n) == n <= MaxSize

-----------------------------------------------------------------------------
(* The operations, on a buffer b and the heap h. *)

At(b, h) == [buffer |-> b, heap |-> h]

create_buffer(h, n) == At([slots |-> create(h, n).slots, num |-> n], create(h, n).heap)

\* resize(delta, where) inserts or removes |delta| slots in front of where.
\* The buffer is replaced only when it is too small.
resize(b, h, delta, at) ==
  LET d == IF delta < -b.num THEN -b.num ELSE delta
      w == IF d < 0 THEN IF at > b.num + d THEN b.num + d ELSE at
           ELSE IF at > b.num THEN b.num ELSE at
      c == create(h, d)
      grown == IF max_elements(b) < b.num + d THEN 0..(b.num + d - 1) ELSE DOMAIN b.slots
      old == b.slots
  IN  CASE d = 0 \/ (d > 0 /\ ~check_max_size(b.num + d)) -> At(b, h)
        [] d < 0 ->
             At([slots |-> [i \in DOMAIN old |-> IF i \in w..(b.num + d - 1) THEN old[i - d] ELSE old[i]],
                 num |-> b.num + d],
                destroy(h, old, w, w - d))
        [] OTHER ->
             At([slots |-> [i \in grown |-> CASE i < w -> old[i]
                                              [] i \in w..(w + d - 1) -> c.slots[i - w]
                                              [] i \in (w + d)..(b.num + d - 1) -> old[i - d]
                                              [] OTHER -> old[i]],
                 num |-> b.num + d],
                c.heap)

\* set_value: an object slot is assigned to; a handle slot takes the new
\* handle, which is counted before the old one is released.
set_value(b, h, i, x) ==
  IF i >= b.num THEN At(b, h)
  ELSE IF Object THEN At(b, [h EXCEPT !.val[b.slots[i]] = x])
  ELSE At([b EXCEPT !.slots[i] = x],
          [h EXCEPT !.refs = [o \in Objects |-> @[o] + (IF o = x THEN 1 ELSE 0)
                                                     - (IF o = b.slots[i] THEN 1 ELSE 0)]])

\* set_value for consecutive indices: xs is what each of them is assigned.
SetAll(b, h, from, xs) ==
  LET part[k \in 0..Len(xs)] ==
        IF k = 0 THEN At(b, h)
        ELSE LET p == part[k - 1] IN set_value(p.buffer, p.heap, from + k - 1, xs[k])
  IN  part[Len(xs)]

insert_at(b, h, i, x) ==
  LET r == resize(b, h, 1, i) IN set_value(r.buffer, r.heap, i, x)

\* insert_at of the array into itself: after the gap is open, the part in
\* front of it is copied first and then the part behind it.
InsertSelf(b, h, i) ==
  LET r == resize(b, h, b.num, i)
      n == b.num
      first == SetAll(r.buffer, r.heap, i, SubSeq(Content(r.heap, r.buffer), 1, i))
      c == Content(first.heap, first.buffer)
  IN  SetAll(first.buffer, first.heap, i + i, SubSeq(c, i + n + 1, Len(c)))

InsertOther(b, h, i, other) ==
  LET r == resize(b, h, other.num, i)
  IN  SetAll(r.buffer, r.heap, i, Content(h, other))

\* copy_buffer after the resize of the assignment.
copy_buffer(b, h, src) ==
  LET r == resize(b, h, src.num - b.num, b.num)
  IN  SetAll(r.buffer, r.heap, 0, Content(h, src))

remove_range(b, h, start, count) ==
  LET n == IF start + count > b.num THEN b.num - start ELSE count
      old == b.slots
  IN  IF count = 0 \/ start > b.num THEN At(b, h)
      ELSE At([slots |-> [i \in DOMAIN old |-> IF i \in start..(b.num - n - 1) THEN old[i + n] ELSE old[i]],
               num |-> b.num - n],
              destroy(h, old, start, start + n))

reserve(b, n) ==
  IF n <= max_elements(b) \/ ~check_max_size(n) THEN b
  ELSE [b EXCEPT !.slots = [i \in 0..(n - 1) |-> IF i < b.num THEN b.slots[i] ELSE Null]]

reverse(b) == [b EXCEPT !.slots = [i \in DOMAIN @ |-> IF i < b.num THEN @[b.num - 1 - i] ELSE @[i]]]

swap(b, i, j) ==
  IF i >= b.num \/ j >= b.num THEN b
  ELSE [b EXCEPT !.slots[i] = b.slots[j], !.slots[j] = b.slots[i]]

\* precache: one method of the kind is used, several are ambiguous.
precache(name) == Cardinality({i \in DOMAIN Methods : Methods[i] = name}) = 1

is_eligible_for_find == Kind = "primitive" \/ precache("opEquals")

is_eligible_for_sort == Kind = "primitive" \/ precache("opCmp")

\* What the engine compares: opEquals and opCmp of an object compare values;
\* a primitive of more than 32 bits is compared as a signed int.
Key(h, x) == IF Object THEN h.val[x] ELSE IF Handle THEN x ELSE x % Low

\* equals: the sets of slots that may be taken for equal to v.  The methods
\* of a handle are called with the address of the slot for the object: what
\* they answer of two different handles is not defined.
equals(b, h, v) ==
  LET same == {i \in 0..(b.num - 1) : Key(h, b.slots[i]) = (IF Handle \/ Object THEN v ELSE v % Low)}
  IN  IF Handle THEN {same \cup g : g \in SUBSET (0..(b.num - 1))} ELSE {same}

\* less, with the pairs g of handles that the method may call less.
less(h, g, x, y) ==
  IF Handle THEN x = Null \/ (y # Null /\ <<x, y>> \in g) ELSE Key(h, x) < Key(h, y)

Orders == IF Handle THEN SUBSET (Objects \X Objects) ELSE {{}}

\* Insertion sort: each slot in turn moves down to the first that it is not
\* less than.
sort(b, Less(_, _)) ==
  LET put[i \in 0..b.num] ==
        IF i <= 1 THEN b.slots
        ELSE LET s == put[i - 1]
                 x == s[i - 1]
                 j == Max({0} \cup {k + 1 : k \in {k \in 0..(i - 2) : ~Less(x, s[k])}})
             IN  [k \in DOMAIN s |-> IF k < j \/ k >= i THEN s[k] ELSE IF k = j THEN x ELSE s[k - 1]]
  IN  [b EXCEPT !.slots = put[b.num]]

npos == -1

FirstOr(set, none) == IF set = {} THEN none ELSE Min(set)

find(same, start) == FirstOr({i \in same : i >= start}, npos)

find_by_ref(b, x, start) == FirstOr({i \in start..(b.num - 1) : b.slots[i] = x}, npos)


\* remove_if: every element taken for equal from an index on; the index
\* stays where it is after a removal.
remove_if(b, h, same, start) ==
  LET step[i \in 0..b.num] ==
        IF i <= start THEN [at |-> start, r |-> At(b, h)]
        ELSE LET p == step[i - 1]
             IN  IF i - 1 \in same
                 THEN [p EXCEPT !.r = resize(p.r.buffer, p.r.heap, -1, p.at)]
                 ELSE [p EXCEPT !.at = @ + 1]
  IN  step[b.num].r

\* operator==: the same size and equal elements.
Equals(h, b, c) ==
  b.num = c.num /\ \A i \in 0..(b.num - 1) : Key(h, b.slots[i]) = Key(h, c.slots[i])

-----------------------------------------------------------------------------
(* The sequences the script expects. *)

Elements == IF Handle THEN held \cup {Null} ELSE Values

\* Searching and sorting see these elements for what they are: handles only
\* when no two of them differ (sorting knows null), primitives only when 32
\* bits hold them.
Comparable(set) ==
  CASE Object -> TRUE
    [] Handle -> Cardinality(set) <= 1
    [] OTHER -> \A x \in set : x < Low

\* What the script has, and may expect the next call to start from.
Wanted(a) == IF a \in off THEN Content(heap, buffer[a]) ELSE want[a]

Default == 0

Grown(s, n) == s \o [i \in 1..(n - Len(s)) |-> Default]

Sized(s, n) == IF n <= Len(s) THEN SubSeq(s, 1, n) ELSE Grown(s, n)

Inserted(s, i, t) == SubSeq(s, 1, i) \o t \o SubSeq(s, i + 1, Len(s))

\* The stable order: where an element goes is counted.
Ordered(s) ==
  LET place(i) == Cardinality({j \in DOMAIN s : s[j] < s[i] \/ (s[j] = s[i] /\ j <= i)})
  IN  [p \in DOMAIN s |-> s[CHOOSE i \in DOMAIN s : place(i) = p]]

-----------------------------------------------------------------------------
Init ==
  /\ buffer = [a \in Arrays |-> [slots |-> [i \in {} |-> Null], num |-> 0]]
  /\ heap = [refs |-> [o \in Objects |-> IF Object THEN 0 ELSE 1], val |-> [o \in Objects |-> 0]]
  /\ held = (IF Object THEN {} ELSE Objects)
  /\ want = [a \in Arrays |-> <<>>]
  /\ off = {}

\* A call on array a that ends in r, and with s when it is sure.
Call(a, r, s, sure) ==
  /\ buffer' = [buffer EXCEPT ![a] = r.buffer]
  /\ heap' = r.heap
  /\ want' = [want EXCEPT ![a] = IF sure THEN s ELSE <<>>]
  /\ off' = IF sure THEN off \ {a} ELSE off \cup {a}
  /\ UNCHANGED held

Step(a, r, s) == Call(a, r, s, TRUE)

Moved(a, b, s) == Step(a, At(b, heap), s)

Sizes == 0..MaxSize

\* The destructor and a constructor: empty, of a length, or with a default
\* value for every element.
Construct(a) ==
  LET freed == destroy(heap, buffer[a].slots, 0, buffer[a].num)
  IN  \E n \in Sizes :
        /\ CanCreate(freed, n)
        /\ LET made == create_buffer(freed, n)
           IN  \/ Step(a, made, [i \in 1..n |-> Default])
               \/ \E x \in Elements :
                    Step(a, SetAll(made.buffer, made.heap, 0, [i \in 1..n |-> x]), [i \in 1..n |-> x])

\* The copy constructor starts from an empty buffer.
Copy(a) ==
  \E c \in Arrays \ {a} :
    LET freed == destroy(heap, buffer[a].slots, 0, buffer[a].num)
    IN  /\ CanCreate(freed, buffer[c].num)
        /\ Step(a, copy_buffer(create_buffer(freed, 0).buffer, freed, buffer[c]), Wanted(c))

Assign(a) ==
  \E c \in Arrays \ {a} :
    /\ CanCreate(heap, buffer[c].num - buffer[a].num)
    /\ Step(a, copy_buffer(buffer[a], heap, buffer[c]), Wanted(c))

SetValue(a) ==
  \E i \in 0..(buffer[a].num - 1), x \in Elements :
    Step(a, set_value(buffer[a], heap, i, x), [Wanted(a) EXCEPT ![i + 1] = x])

Reserve(a) == \E n \in Sizes : Moved(a, reserve(buffer[a], n), Wanted(a))

\* resize, clear and release_references.
Resize(a) ==
  \E n \in Sizes :
    /\ CanCreate(heap, n - buffer[a].num)
    /\ Step(a, resize(buffer[a], heap, n - buffer[a].num, buffer[a].num), Sized(Wanted(a), n))

\* An index past the end is refused and nothing happens.  resize refuses more
\* than MaxSize elements, and the element is assigned all the same: the exception
\* tells the script, what was there is overwritten.
RefusedInsert(a, n, i) == ~check_max_size(buffer[a].num + n) /\ n > 0 /\ i < buffer[a].num

Insert(a) ==
  \E i \in 0..buffer[a].num, x \in Elements :
    LET full == ~check_max_size(buffer[a].num + 1)
    IN  /\ full \/ CanCreate(heap, 1)
        /\ Call(a, insert_at(buffer[a], heap, i, x),
                IF full THEN Wanted(a) ELSE Inserted(Wanted(a), i, <<x>>), ~RefusedInsert(a, 1, i))

InsertArray(a) ==
  \E c \in Arrays, i \in 0..buffer[a].num :
    LET full == ~check_max_size(buffer[a].num + buffer[c].num)
    IN  /\ full \/ CanCreate(heap, buffer[c].num)
        /\ Call(a, IF c = a THEN InsertSelf(buffer[a], heap, i)
                   ELSE InsertOther(buffer[a], heap, i, buffer[c]),
                IF full THEN Wanted(a) ELSE Inserted(Wanted(a), i, Wanted(c)),
                ~RefusedInsert(a, buffer[c].num, i))

\* remove_at and remove_last.
EraseAt(a) ==
  \E i \in 0..(buffer[a].num - 1) :
    Step(a, resize(buffer[a], heap, -1, i), RemoveAt(Wanted(a), i + 1))

RemoveRange(a) ==
  \E i \in 0..buffer[a].num, n \in 0..MaxSize :
    Step(a, remove_range(buffer[a], heap, i, n),
         SubSeq(Wanted(a), 1, i) \o SubSeq(Wanted(a), i + n + 1, Len(Wanted(a))))

RemoveIf(a) ==
  \E v \in Elements, i \in 0..buffer[a].num :
    /\ is_eligible_for_find
    /\ \E same \in equals(buffer[a], heap, v) :
         Call(a, remove_if(buffer[a], heap, same, i),
              SubSeq(Wanted(a), 1, i)
                \o SelectSeq(SubSeq(Wanted(a), i + 1, Len(Wanted(a))), LAMBDA x : x # v),
              Comparable({v} \cup Range(Wanted(a))))

ReverseArray(a) == Moved(a, reverse(buffer[a]), Reverse(Wanted(a)))

Swap(a) ==
  \E i, j \in 0..(buffer[a].num - 1) :
    Moved(a, swap(buffer[a], i, j),
          [Wanted(a) EXCEPT ![i + 1] = Wanted(a)[j + 1], ![j + 1] = Wanted(a)[i + 1]])

\* A callback is given the elements themselves.
Sort(a) ==
  /\ is_eligible_for_sort
  /\ \/ Moved(a, sort(buffer[a], LAMBDA x, y : Element(heap, x) < Element(heap, y)), Ordered(Wanted(a)))
     \/ \E g \in Orders :
          Call(a, At(sort(buffer[a], LAMBDA x, y : less(heap, g, x, y)), heap), Ordered(Wanted(a)),
               Comparable(Range(Wanted(a)) \ (IF Handle THEN {Null} ELSE {})))

\* The script lets go of a handle, and the object dies with the last one; or
\* it takes one from an array.
Drop ==
  \E o \in held :
    /\ held' = held \ {o}
    /\ heap' = [heap EXCEPT !.refs[o] = @ - 1]
    /\ UNCHANGED <<buffer, want, off>>

Take ==
  \E a \in Arrays : \E i \in 0..(buffer[a].num - 1) :
    LET o == buffer[a].slots[i]
    IN  /\ Handle /\ o # Null /\ o \notin held
        /\ held' = held \cup {o}
        /\ heap' = [heap EXCEPT !.refs[o] = @ + 1]
        /\ UNCHANGED <<buffer, want, off>>

Next ==
  \/ \E a \in Arrays :
       \/ Construct(a) \/ Copy(a) \/ Assign(a) \/ SetValue(a) \/ Reserve(a) \/ Resize(a)
       \/ Insert(a) \/ InsertArray(a) \/ EraseAt(a) \/ RemoveRange(a) \/ RemoveIf(a)
       \/ ReverseArray(a) \/ Swap(a) \/ Sort(a)
  \/ Drop
  \/ Take

Spec == Init /\ [][Next]_vars

-----------------------------------------------------------------------------
(***************************************************************************)
(* Properties.                                                             *)
(***************************************************************************)
\* A buffer holds no more elements than it has slots.
TypeOK ==
  /\ \A a \in Arrays :
       /\ buffer[a].num \in 0..max_elements(buffer[a])
       /\ DOMAIN buffer[a].slots = 0..(max_elements(buffer[a]) - 1)
       /\ \A i \in DOMAIN buffer[a].slots :
            buffer[a].slots[i] \in (IF Kind = "primitive" THEN Values ELSE Objects \cup {Null})
  /\ held \subseteq Objects

\* Whatever sequence of calls made it, and whether or not the buffer was
\* replaced, an array holds the elements the script expects, in order; but
\* an insertion that resize refuses overwrites what is at its index (line
\* 1530), and remove_if and sort misjudge handles, whose methods are called
\* on the slot (1784-1788, 1823-1838), and integers of 64 bits, which are
\* compared as 32 (1804, 1857).
ContentExpected == \A a \in Arrays \ off : Content(heap, buffer[a]) = want[a]

\* Every object is counted exactly once for each slot in use that holds it
\* and for the handle of the script: nothing leaks when slots are moved,
\* overwritten or dropped, a refused insertion and a wrong comparison
\* included, and the stale slots past num_elements never release what they
\* still hold.
RefsExact ==
  \A o \in Objects :
    heap.refs[o] = (IF o \in held THEN 1 ELSE 0)
      + Cardinality({<<a, i>> \in Arrays \X (0..MaxSize) : i < buffer[a].num /\ buffer[a].slots[i] = o})

\* Two object slots never share an object.
SlotsOwn ==
  Object => \A a, c \in Arrays, i, j \in 0..MaxSize :
    i < buffer[a].num /\ j < buffer[c].num /\ buffer[a].slots[i] = buffer[c].slots[j] => a = c /\ i = j

\* Searching and comparing see the elements the script expects, where these
\* can be compared; a handle is found at its first place or before.
LookupsAgree ==
  \A a, c \in Arrays \ off :
    LET place(v, s) == FirstOr({i \in s..(Len(want[a]) - 1) : want[a][i + 1] = v}, npos)
    IN  /\ is_eligible_for_find =>
             \A v \in Elements, s \in 0..MaxSize : \A same \in equals(buffer[a], heap, v) :
               /\ Comparable({v} \cup Range(want[a])) => find(same, s) = place(v, s)
               /\ place(v, s) # npos => find(same, s) \in s..place(v, s)
        /\ ~Handle /\ Comparable(Range(want[a]) \cup Range(want[c])) =>
             (Equals(heap, buffer[a], buffer[c]) <=> want[a] = want[c])
        /\ Handle => \A o \in Objects : find_by_ref(buffer[a], o, 0) = place(o, 0)
=============================================================================
