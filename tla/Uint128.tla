------------------------------ MODULE Uint128 ------------------------------
(***************************************************************************)
(* compute::uint128: an unsigned number in two words, as a pair <<upper,   *)
(* lower>>.  A word has W bits in the place of 64, a byte Byte bits in the *)
(* place of 8, and a hexadecimal digit is half a byte.  The operators are  *)
(* those of the source; divide, to_string and the parser, which are loops, *)
(* run as actions.                                                         *)
(***************************************************************************)
EXTENDS Integers, Sequences, TLAPS

CONSTANTS
    W, Base, Byte,   \* bits of a word, 2^W, bits of a byte
    Values, Rights,  \* operands
    Bases, Lengths,  \* arguments of to_string
    Garbage          \* what the memory of a number holds before its constructor

ASSUME BaseAssumption == Base \in Nat /\ Base > 1
ASSUME WordAssumption ==
    /\ W \in Nat /\ W % 2 = 0 /\ Base = 2^W
    /\ Byte \in Nat /\ Byte % 2 = 0 /\ W % Byte = 0

Word == 0..(Base - 1)
Uint == Word \X Word
ASSUME ValuesAssumption == Values \subseteq Uint /\ Rights \subseteq Uint /\ Garbage \subseteq Uint

Value(a) == a[1] * Base + a[2]
Zero == <<0, 0>>
One == <<0, 1>>
From(t) == <<IF t < 0 THEN Base - 1 ELSE 0, t % Base>>   \* uint128(const t&)

-----------------------------------------------------------------------------
(* Conversions and comparisons.                                            *)
bool(a) == a[1] # 0 \/ a[2] # 0
narrow(a, n) == a[2] % 2^n
not(a) == ~(a[1] # 0 \/ a[2] # 0)
both(a, b) == bool(a) /\ bool(b)
either(a, b) == bool(a) \/ bool(b)
equal(a, b) == a[1] = b[1] /\ a[2] = b[2]
unequal(a, b) == a[1] # b[1] \/ a[2] # b[2]
greater(a, b) == IF a[1] = b[1] THEN a[2] > b[2] ELSE a[1] > b[1]
(* Faulty comparison: the lower words decide.                              *)
less_low(a, b) == a[2] < b[2] \/ (a[2] = b[2] /\ a[1] < b[1])
less(a, b) == IF a[1] = b[1] THEN a[2] < b[2] ELSE a[1] < b[1]
greater_equal(a, b) == greater(a, b) \/ equal(a, b)
less_equal(a, b) == less(a, b) \/ equal(a, b)

(* Bitwise operators, word by word.                                        *)
Bit(w, k) == (w \div 2^k) % 2
Bits(f) == LET s[k \in 0..W] == IF k = 0 THEN 0 ELSE s[k - 1] + f[k - 1] * 2^(k - 1) IN s[W]
WordAnd(v, w) == Bits([k \in 0..(W - 1) |-> Bit(v, k) * Bit(w, k)])
WordOr(v, w) == v + w - WordAnd(v, w)
WordXor(v, w) == v + w - 2 * WordAnd(v, w)
band(a, b) == <<WordAnd(a[1], b[1]), WordAnd(a[2], b[2])>>
bor(a, b) == <<WordOr(a[1], b[1]), WordOr(a[2], b[2])>>
bxor(a, b) == <<WordXor(a[1], b[1]), WordXor(a[2], b[2])>>
bnot(a) == <<Base - 1 - a[1], Base - 1 - a[2]>>

-----------------------------------------------------------------------------
(* Arithmetic.                                                             *)
Flag(p) == IF p THEN 1 ELSE 0
plus(a, b) == <<(a[1] + b[1] + Flag((a[2] + b[2]) % Base < a[2])) % Base, (a[2] + b[2]) % Base>>
minus(a, b) == <<(a[1] - b[1] - Flag((a[2] - b[2]) % Base > a[2])) % Base, (a[2] - b[2]) % Base>>
increment(a) == plus(a, One)
decrement(a) == minus(a, One)
negate(a) == plus(bnot(a), One)

shift_left(a, b) ==
    LET shift == b[2] IN
    IF b[1] # 0 \/ shift >= 2 * W THEN Zero
    ELSE IF shift = W THEN <<a[2], 0>>
    ELSE IF shift = 0 THEN a
    ELSE IF shift < W
         THEN <<(((a[1] * 2^shift) % Base) + a[2] \div 2^(W - shift)) % Base, (a[2] * 2^shift) % Base>>
    ELSE <<(a[2] * 2^(shift - W)) % Base, 0>>

shift_right(a, b) ==
    LET shift == b[2] IN
    IF b[1] # 0 \/ shift >= 2 * W THEN Zero
    ELSE IF shift = W THEN <<0, a[1]>>
    ELSE IF shift = 0 THEN a
    ELSE IF shift < W
         THEN <<a[1] \div 2^shift, (((a[1] * 2^(W - shift)) % Base) + a[2] \div 2^shift) % Base>>
    ELSE <<0, a[1] \div 2^(shift - W)>>

(* The product of quarters, each half a word wide; a word holds every sum. *)
Half == 2^(W \div 2)
Quarters(a) == <<a[1] \div Half, a[1] % Half, a[2] \div Half, a[2] % Half>>
Product(top, bottom, k, y) == (top[4 - k] * bottom[y + 1]) % Base
High(w) == w \div Half
Low(w) == w % Half

times(a, b) ==
    LET t == Quarters(a)  m == Quarters(b)  p(k, y) == Product(t, m, k, y)
        third == Low(p(0, 2)) + High(p(0, 3)) + Low(p(1, 3))
        second == Low(p(0, 1)) + High(p(0, 2)) + Low(p(1, 2)) + High(p(1, 3)) + Low(p(2, 3)) + High(third)
        first == Low(p(0, 0)) + High(p(0, 1)) + Low(p(1, 1)) + High(p(1, 2)) + Low(p(2, 2))
                 + High(p(2, 3)) + Low(p(3, 3)) + High(second)
    IN  <<Low(first) * Half + Low(second), Low(third) * Half + Low(p(0, 3))>>

-----------------------------------------------------------------------------
(* Size and bytes.                                                         *)
bits(a) == LET length[w \in Word] == IF w = 0 THEN 0 ELSE 1 + length[w \div 2]
           IN  IF a[1] # 0 THEN W + length[a[1]] ELSE length[a[2]]
Size == (2 * W) \div Byte
Least(m, n) == IF m < n THEN m ELSE n
bytes(a) ==
    IF not(a) THEN 0
    ELSE LET length == bits(a) IN Least(Size, (length - (length % Byte) + Byte) \div Byte)
encode(a) == [k \in 1..Size |-> (Value(a) \div 2^(Byte * (Size - k))) % 2^Byte]
encode_compact(a) == SubSeq(encode(a), Size - bytes(a) + 1, Size)
decode(data) ==
    LET n[k \in 0..Size] == IF k = 0 THEN 0 ELSE n[k - 1] * 2^Byte + data[k]
    IN  <<n[Size] \div Base, n[Size] % Base>>
(* The bytes are put at the start of the buffer.                           *)
decode_compact(data) == decode([k \in 1..Size |-> IF k <= Len(data) THEN data[k] ELSE 0])

-----------------------------------------------------------------------------
(* The templates for a builtin integer t on one side.                      *)
t_and(a, t) == <<0, WordAnd(a[2], t % Base)>>
t_or(a, t) == <<a[1], WordOr(a[2], t % Base)>>
t_xor(a, t) == <<a[1], WordXor(a[2], t % Base)>>
t_shift(a, t) == <<shift_left(a, From(t)), shift_right(a, From(t))>>
t_equal(a, t) == a[1] = 0 /\ a[2] = t % Base
t_greater(a, t) == a[1] # 0 \/ a[2] > t % Base
t_less(a, t) == a[1] = 0 /\ a[2] < t % Base
t_plus(a, t) == <<(a[1] + Flag((a[2] + t) % Base < a[2])) % Base, (a[2] + t) % Base>>
t_minus(a, t) == <<(a[1] - Flag((a[2] - t) % Base > a[2])) % Base, (a[2] - t) % Base>>
t_times(a, t) == times(a, From(t))
t_left_shift(t, b) == <<shift_left(From(t), b), shift_right(From(t), b)>>
t_left_less(t, b) == b[1] # 0 \/ t % Base < b[2]
t_left_greater_equal(t, b) == b[1] = 0 /\ t % Base >= b[2]
t_left_minus(t, b) == negate(t_minus(b, t))

-----------------------------------------------------------------------------
VARIABLES
    left, right,               \* the operands
    op, then,                  \* the loop that runs, and what follows a division
    num, den, quo, rem, x,     \* the division
    base, length, text, self,  \* to_string and the parser
    memory                     \* what the parsed number held before its constructor

vars == <<left, right, op, then, num, den, quo, rem, x, base, length, text, self, memory>>
operands == <<left, right>>
division == <<num, den, quo, rem, x>>
printing == <<base, length, text, self, memory>>

Init ==
    /\ left \in Values /\ right \in Rights
    /\ op = "start" /\ then = "none"
    /\ num = Zero /\ den = Zero /\ quo = Zero /\ rem = Zero /\ x = 0
    /\ base = 0 /\ length = 0 /\ text = <<>> /\ self = Zero /\ memory = Zero

(* divide(): the cases it decides at once, or the loop over the bits.      *)
divide(a, b, next) ==
    LET Result(q, r) == quo' = q /\ rem' = r /\ op' = next /\ x' = 0 IN
    /\ num' = a /\ den' = b /\ then' = next
    /\ IF equal(b, Zero) THEN Result(Zero, Zero)
       ELSE IF equal(b, One) THEN Result(a, Zero)
       ELSE IF equal(a, b) THEN Result(One, Zero)
       ELSE IF equal(a, Zero) \/ less(a, b) THEN Result(Zero, a)
       ELSE quo' = Zero /\ rem' = Zero /\ op' = "divide" /\ x' = bits(a)

Divide == op = "start" /\ divide(left, right, "divided") /\ UNCHANGED <<operands, printing>>

divide_step ==
    LET r1 == shift_left(rem, One)
        r2 == IF bool(t_and(shift_right(num, From(x - 1)), 1)) THEN increment(r1) ELSE r1
        fits == greater_equal(r2, den)
    IN  /\ op = "divide" /\ x > 0
        /\ rem' = IF fits THEN minus(r2, den) ELSE r2
        /\ quo' = IF fits THEN increment(shift_left(quo, One)) ELSE shift_left(quo, One)
        /\ x' = x - 1 /\ op' = IF x = 1 THEN then ELSE op
        /\ UNCHANGED <<operands, then, num, den, printing>>

(* to_string: zero, a hexadecimal number from its bytes, or digit by digit.*)
Hex == 2^(Byte \div 2)
Zeros(n) == [k \in 1..n |-> 0]
Digits(a, n) == [k \in 1..n |-> (Value(a) \div Hex^(n - k)) % Hex]
Stripped(s) ==
    LET nonzero == {k \in DOMAIN s : s[k] # 0} \cup {Len(s)}
    IN  SubSeq(s, CHOOSE k \in nonzero : \A j \in nonzero : k <= j, Len(s))
Padded(s, n) == IF Len(s) < n THEN s \o Zeros(n - Len(s)) ELSE s
Backwards(s) == [i \in DOMAIN s |-> s[Len(s) + 1 - i]]

to_string ==
    /\ op = "start" /\ right = Zero
    /\ base' \in Bases /\ length' \in Lengths
    /\ \/ /\ not(left) /\ text' = Padded(<<>>, IF length' = 0 THEN 1 ELSE length')
          /\ op' = "parse" /\ UNCHANGED <<division, then>>
       \/ /\ ~not(left) /\ base' = Hex
          /\ text' = Stripped(Padded(Digits(left, 2 * bytes(left)), length'))
          /\ op' = "parse" /\ UNCHANGED <<division, then>>
       \/ ~not(left) /\ base' # Hex /\ divide(left, From(base'), "digit") /\ UNCHANGED text
    /\ UNCHANGED <<operands, self, memory>>

to_string_digit ==
    LET digits == Append(text, narrow(rem, W)) IN
    /\ op = "digit" /\ UNCHANGED <<operands, base, length, self, memory>>
    /\ \/ bool(quo) /\ text' = digits /\ divide(quo, From(base), "digit")
       \/ ~bool(quo) /\ text' = Backwards(Padded(digits, length)) /\ op' = "parse" /\ UNCHANGED <<division, then>>

(* The constructor from text begins with whatever the memory holds; a      *)
(* hexadecimal text of one word leaves the upper word as it was.  (Base 2, *)
(* whose two words are read bit by bit, has a loop of its own that is left *)
(* out.)                                                                   *)
MaxLen(b) == LET n[v \in 0..(Base * Base - 1)] == IF v = 0 THEN 0 ELSE 1 + n[v \div b] IN n[Base * Base - 1]
NumberOf(s) == LET n[k \in 0..Len(s)] == IF k = 0 THEN 0 ELSE n[k - 1] * Hex + s[k] IN n[Len(s)]

HexWord == (2 * W) \div Byte   \* hexadecimal digits of a word

uint128 ==
    LET tail == SubSeq(text, Len(text) - Least(Len(text), MaxLen(base)) + 1, Len(text))
        upper == IF Len(tail) >= HexWord THEN Len(tail) - HexWord ELSE 0
    IN  /\ op = "parse" /\ UNCHANGED <<operands, division, then, base, length>>
        /\ memory' \in Garbage /\ text' = tail
        /\ IF base = Hex
           THEN /\ self' = <<IF upper = 0 THEN memory'[1] ELSE NumberOf(SubSeq(tail, 1, upper)),
                             NumberOf(SubSeq(tail, upper + 1, Len(tail)))>>
                /\ op' = "parsed"
           ELSE self' = memory' /\ op' = "digits"

uint128_digit ==
    /\ op = "digits" /\ UNCHANGED <<operands, division, then, base, length, memory>>
    /\ \/ /\ text # <<>> /\ \E d \in {times(self, From(base))} : self' = plus(d, From(Head(text)))
          /\ text' = Tail(text) /\ op' = op
       \/ text = <<>> /\ op' = "parsed" /\ UNCHANGED <<self, text>>

Rests == op \in {"divided", "parsed"} /\ UNCHANGED vars

Next == Divide \/ divide_step \/ to_string \/ to_string_digit \/ uint128 \/ uint128_digit \/ Rests

Spec == Init /\ [][Next]_vars /\ WF_vars(Next)

(***************************************************************************)
(* Properties                                                              *)
(***************************************************************************)

All == Base * Base
At == op = "start"

(* operator+ and operator- carry and borrow between the words: they are    *)
(* addition and subtraction modulo 2^128.                                  *)
SumExact ==
    /\ Value(plus(left, right)) = (Value(left) + Value(right)) % All
    /\ Value(minus(left, right)) = (Value(left) - Value(right)) % All

(* The comparisons of the words are those of the numbers.                  *)
OrderExact ==
    /\ less(left, right) <=> Value(left) < Value(right)
    /\ greater(left, right) <=> Value(left) > Value(right)
    /\ less_equal(left, right) <=> Value(left) <= Value(right)
    /\ greater_equal(left, right) <=> Value(left) >= Value(right)

(* Both: what the words say is what the number says.                       *)
WordsExact == SumExact /\ OrderExact

(* operator* loses no carry between the four columns of half words.        *)
ProductExact == At => Value(times(left, right)) = (Value(left) * Value(right)) % All

(* A shift by any amount, also by a word or more, is a multiplication or a *)
(* division by a power of two; bitwise operators keep both words.          *)
ShiftExact ==
    At => LET n == Value(right) IN
          /\ Value(shift_left(left, right)) = IF n >= 2 * W THEN 0 ELSE (Value(left) * 2^n) % All
          /\ Value(shift_right(left, right)) = IF n >= 2 * W THEN 0 ELSE Value(left) \div 2^n
          /\ plus(band(left, right), bor(left, right)) = plus(left, right)
          /\ bxor(left, right) = minus(bor(left, right), band(left, right))
          /\ plus(left, negate(left)) = Zero /\ bnot(left) = decrement(negate(left))

(* What divide() has done after every step of its loop, and at its end.    *)
DivideExact ==
    /\ op = "divide" => /\ Value(quo) * Value(den) + Value(rem) = Value(num) \div 2^x
                        /\ Value(rem) < Value(den)
    /\ op = "divided" /\ right # Zero => /\ Value(quo) = Value(left) \div Value(right)
                                         /\ Value(rem) = Value(left) % Value(right)

(* An operator with a builtin integer that is not negative agrees with the *)
(* operator on the converted integer.                                      *)
MixedExact ==
    At => LET t == right[2]  b == From(t) IN
          /\ t_and(left, t) = band(left, b) /\ t_or(left, t) = bor(left, b) /\ t_xor(left, t) = bxor(left, b)
          /\ t_plus(left, t) = plus(left, b) /\ t_minus(left, t) = minus(left, b)
          /\ t_times(left, t) = times(left, b) /\ t_shift(left, t) = <<shift_left(left, b), shift_right(left, b)>>
          /\ (t_equal(left, t) <=> equal(left, b)) /\ (t_greater(left, t) <=> greater(left, b))
          /\ (t_less(left, t) <=> less(left, b)) /\ (t_left_less(t, left) <=> less(b, left))
          /\ (t_left_greater_equal(t, left) <=> greater_equal(b, left))
          /\ t_left_minus(t, left) = minus(b, left)
          /\ t_left_shift(t, left) = <<shift_left(b, left), shift_right(b, left)>>

(* encode and decode are inverse, and the bytes of encode_compact hold the *)
(* whole number.  decode_compact puts them at the start of its buffer      *)
(* (compute.cpp 1377-1383): it restores zero and the numbers of full size, *)
(* and multiplies every other number by a power of 2^8.                    *)
CompactExact ==
    At => /\ decode(encode(left)) = left
          /\ decode(Zeros(Size - bytes(left)) \o encode_compact(left)) = left
          /\ decode_compact(encode_compact(left)) = left <=> bytes(left) \in {0, Size}

(* What to_string prints, the constructor reads as the same number.  There *)
(* are two exceptions: in base 16 a length beyond the number's digits adds *)
(* zeros after them (compute.cpp 1446-1449), and the constructor does not  *)
(* initialize the words (950-1039), so that the result is only sure when   *)
(* the memory was zero, or when both words are read from hexadecimal text. *)
ParsesBack ==
    /\ op = "parsed"
    /\ base = Hex => length <= 2 * bytes(left)
    /\ memory = Zero \/ (base = Hex /\ Len(text) > HexWord)
    => self = left

(***************************************************************************)
(* The arithmetic and the order of uint128 for words of every size.        *)
(***************************************************************************)

(* What % does to a number that has left the range of a word, or of two    *)
(* words, by less than the range: the sums and differences of the source.  *)
LEMMA ModLemma ==
    ASSUME NEW B \in Nat, B > 1, NEW n \in Int
    PROVE  /\ 0 <= n /\ n < B => n % B = n
           /\ B <= n /\ n < B + B => n % B = n - B
           /\ 0 - B <= n /\ n < 0 => n % B = n + B
  OBVIOUS

(* A pair of words is a number below Base * Base.                          *)
LEMMA RangeLemma ==
    ASSUME NEW u \in Word, NEW l \in Word
    PROVE  /\ u * Base + l \in Nat
           /\ u * Base + l < Base * Base
  <1>1. Base \in Nat /\ Base > 1 /\ u \in Nat /\ l \in Nat /\ l < Base /\ u <= Base - 1
    BY BaseAssumption DEF Word
  <1>2. u * Base <= (Base - 1) * Base
    BY <1>1
  <1>3. (Base - 1) * Base = Base * Base - Base
    BY <1>1
  <1>. QED BY <1>1, <1>2, <1>3

(* A number r in the range of B that differs from n by 0 or B is n % B.    *)
LEMMA WrapLemma ==
    ASSUME NEW B \in Nat, B > 1, NEW n \in Int, NEW r \in Nat, r < B, n = r \/ n = r + B \/ n = r - B
    PROVE  n % B = r
  <1>1. CASE n = r
    BY <1>1, ModLemma
  <1>2. CASE n = r + B
    BY <1>2, ModLemma
  <1>3. CASE n = r - B
    BY <1>3, ModLemma
  <1>. QED BY <1>1, <1>2, <1>3

(* One column of an addition or a subtraction: what is stored differs from *)
(* the sum or difference by k words.                                       *)
LEMMA ColumnLemma ==
    ASSUME NEW n \in Int, 0 - Base <= n, n < Base + Base
    PROVE  /\ n % Base \in Word
           /\ 0 <= n => n % Base = n \/ n % Base = n - Base
           /\ n < Base => n % Base = n \/ n % Base = n + Base
  <1>1. Base \in Nat /\ Base > 1
    BY BaseAssumption
  <1>2. CASE n < 0
    <2>1. n % Base = n + Base
      BY <1>1, <1>2, WrapLemma
    <2>. QED BY <1>1, <1>2, <2>1 DEF Word
  <1>3. CASE 0 <= n /\ n < Base
    <2>1. n % Base = n
      BY <1>1, <1>3, WrapLemma
    <2>. QED BY <1>1, <1>3, <2>1 DEF Word
  <1>4. CASE Base <= n
    <2>1. n % Base = n - Base
      BY <1>1, <1>4, WrapLemma
    <2>. QED BY <1>1, <1>4, <2>1 DEF Word
  <1>. QED BY <1>1, <1>2, <1>3, <1>4

(* operator+ is exact modulo 2^128: the carry k of the lower column goes   *)
(* into the upper one, and the carry j of the upper column is dropped.     *)
LEMMA PlusLemma ==
    ASSUME NEW a \in Uint, NEW b \in Uint
    PROVE  Value(plus(a, b)) = (Value(a) + Value(b)) % All
  <1>1. Base \in Nat /\ Base > 1 /\ All = Base * Base
    BY BaseAssumption DEF All
  <1>2. PICK u \in Word, l \in Word : a = <<u, l>>
    BY DEF Uint
  <1>3. PICK v \in Word, m \in Word : b = <<v, m>>
    BY DEF Uint
  <1>4. /\ u \in Int /\ l \in Int /\ v \in Int /\ m \in Int
        /\ 0 <= u /\ 0 <= l /\ 0 <= v /\ 0 <= m
        /\ u < Base /\ l < Base /\ v < Base /\ m < Base
    BY <1>1 DEF Word
  <1>. DEFINE s == l + m
              low == s % Base
  <1>5. low \in Word /\ \E k \in {0, 1} : low = s - k * Base
    <2>1. s \in Int /\ 0 - Base <= s /\ s < Base + Base /\ 0 <= s
      BY <1>1, <1>4
    <2>2. low \in Word /\ (low = s \/ low = s - Base)
      <3>. HIDE DEF s
      <3>. QED BY <2>1, ColumnLemma
    <2>. HIDE DEF s, low
    <2>. QED BY <2>1, <2>2, <1>1
  <1>6. PICK k \in {0, 1} : low = s - k * Base
    BY <1>5
  <1>7. low \in Int /\ 0 <= low /\ low < Base
    <2>. HIDE DEF low
    <2>. QED BY <1>1, <1>5 DEF Word
  <1>8. Flag(s % Base < l) = k
    <2>1. low < l <=> k = 1
      <3>. HIDE DEF low
      <3>1. CASE k = 0
        BY <1>1, <1>4, <1>6, <1>7, <3>1
      <3>2. CASE k = 1
        BY <1>1, <1>4, <1>6, <1>7, <3>2
      <3>. QED BY <3>1, <3>2
    <2>. QED BY <2>1 DEF Flag
  <1>. DEFINE t == u + v + k
              high == t % Base
  <1>9. high \in Word /\ \E j \in {0, 1} : high = t - j * Base
    <2>1. t \in Int /\ 0 - Base <= t /\ t < Base + Base /\ 0 <= t
      BY <1>1, <1>4
    <2>2. high \in Word /\ (high = t \/ high = t - Base)
      <3>. HIDE DEF t
      <3>. QED BY <2>1, ColumnLemma
    <2>. HIDE DEF t, high
    <2>. QED BY <2>1, <2>2, <1>1
  <1>10. PICK j \in {0, 1} : high = t - j * Base
    BY <1>9
  <1>11. plus(a, b) = <<high, low>>
    BY <1>2, <1>3, <1>8 DEF plus
  <1>. DEFINE n == (u * Base + l) + (v * Base + m)
              r == high * Base + low
  <1>12. Value(plus(a, b)) = r /\ Value(a) + Value(b) = n
    BY <1>2, <1>3, <1>11 DEF Value
  <1>13. r = n - j * All
    <2>1. r = ((u + v + k) - j * Base) * Base + ((l + m) - k * Base)
      <3>1. high = (u + v + k) - j * Base /\ low = (l + m) - k * Base
        BY <1>6, <1>10
      <3>2. r = high * Base + low
        OBVIOUS
      <3>. HIDE DEF r, high, low, n
      <3>. QED BY ONLY <3>1, <3>2
    <2>2. ((u + v + k) - j * Base) * Base + ((l + m) - k * Base) = n - j * (Base * Base)
      <3>1. CASE k = 0 /\ j = 0
        BY <3>1, <1>1, <1>4
      <3>2. CASE k = 0 /\ j = 1
        BY <3>2, <1>1, <1>4
      <3>3. CASE k = 1 /\ j = 0
        BY <3>3, <1>1, <1>4
      <3>4. CASE k = 1 /\ j = 1
        BY <3>4, <1>1, <1>4
      <3>. QED BY <3>1, <3>2, <3>3, <3>4
    <2>. QED BY <2>1, <2>2, <1>1
  <1>14. r \in Nat /\ r < All /\ n \in Int /\ All \in Nat /\ All > 1
    <2>1. r \in Nat /\ r < Base * Base
      BY <1>5, <1>9, RangeLemma
    <2>2. Base * Base \in Nat /\ Base * Base > 1
      BY <1>1
    <2>3. n \in Int
      BY <1>1, <1>4
    <2>. QED BY <2>1, <2>2, <2>3, <1>1
  <1>15. n % All = r
    <2>. HIDE DEF n, r
    <2>1. n = r \/ n = r + All \/ n = r - All
      BY <1>13, <1>14
    <2>. QED BY <1>14, <2>1, WrapLemma
  <1>. QED BY <1>12, <1>15

(* operator- in the same way, with a borrow.                               *)
LEMMA MinusLemma ==
    ASSUME NEW a \in Uint, NEW b \in Uint
    PROVE  Value(minus(a, b)) = (Value(a) - Value(b)) % All
  <1>1. Base \in Nat /\ Base > 1 /\ All = Base * Base
    BY BaseAssumption DEF All
  <1>2. PICK u \in Word, l \in Word : a = <<u, l>>
    BY DEF Uint
  <1>3. PICK v \in Word, m \in Word : b = <<v, m>>
    BY DEF Uint
  <1>4. /\ u \in Int /\ l \in Int /\ v \in Int /\ m \in Int
        /\ 0 <= u /\ 0 <= l /\ 0 <= v /\ 0 <= m
        /\ u < Base /\ l < Base /\ v < Base /\ m < Base
    BY <1>1 DEF Word
  <1>. DEFINE s == l - m
              low == s % Base
  <1>5. low \in Word /\ \E k \in {0, 1} : low = s + k * Base
    <2>1. s \in Int /\ 0 - Base <= s /\ s < Base + Base /\ s < Base
      BY <1>1, <1>4
    <2>2. low \in Word /\ (low = s \/ low = s + Base)
      <3>. HIDE DEF s
      <3>. QED BY <2>1, ColumnLemma
    <2>. HIDE DEF s, low
    <2>. QED BY <2>1, <2>2, <1>1
  <1>6. PICK k \in {0, 1} : low = s + k * Base
    BY <1>5
  <1>7. low \in Int /\ 0 <= low /\ low < Base
    <2>. HIDE DEF low
    <2>. QED BY <1>1, <1>5 DEF Word
  <1>8. Flag(s % Base > l) = k
    <2>1. low > l <=> k = 1
      <3>. HIDE DEF low
      <3>1. CASE k = 0
        BY <1>1, <1>4, <1>6, <1>7, <3>1
      <3>2. CASE k = 1
        BY <1>1, <1>4, <1>6, <1>7, <3>2
      <3>. QED BY <3>1, <3>2
    <2>. QED BY <2>1 DEF Flag
  <1>. DEFINE t == u - v - k
              high == t % Base
  <1>9. high \in Word /\ \E j \in {0, 1} : high = t + j * Base
    <2>1. t \in Int /\ 0 - Base <= t /\ t < Base + Base /\ t < Base
      BY <1>1, <1>4
    <2>2. high \in Word /\ (high = t \/ high = t + Base)
      <3>. HIDE DEF t
      <3>. QED BY <2>1, ColumnLemma
    <2>. HIDE DEF t, high
    <2>. QED BY <2>1, <2>2, <1>1
  <1>10. PICK j \in {0, 1} : high = t + j * Base
    BY <1>9
  <1>11. minus(a, b) = <<high, low>>
    BY <1>2, <1>3, <1>8 DEF minus
  <1>. DEFINE n == (u * Base + l) - (v * Base + m)
              r == high * Base + low
  <1>12. Value(minus(a, b)) = r /\ Value(a) - Value(b) = n
    BY <1>2, <1>3, <1>11 DEF Value
  <1>13. r = n + j * All
    <2>1. r = (u - v - k + j * Base) * Base + (l - m + k * Base)
      <3>1. high = u - v - k + j * Base /\ low = l - m + k * Base
        BY <1>6, <1>10
      <3>2. r = high * Base + low
        OBVIOUS
      <3>. HIDE DEF r, high, low, n
      <3>. QED BY ONLY <3>1, <3>2
    <2>2. (u - v - k + j * Base) * Base + (l - m + k * Base) = n + j * (Base * Base)
      <3>1. CASE k = 0 /\ j = 0
        BY <3>1, <1>1, <1>4
      <3>2. CASE k = 0 /\ j = 1
        BY <3>2, <1>1, <1>4
      <3>3. CASE k = 1 /\ j = 0
        BY <3>3, <1>1, <1>4
      <3>4. CASE k = 1 /\ j = 1
        BY <3>4, <1>1, <1>4
      <3>. QED BY <3>1, <3>2, <3>3, <3>4
    <2>. QED BY <2>1, <2>2, <1>1
  <1>14. r \in Nat /\ r < All /\ n \in Int /\ All \in Nat /\ All > 1
    <2>1. r \in Nat /\ r < Base * Base
      BY <1>5, <1>9, RangeLemma
    <2>2. Base * Base \in Nat /\ Base * Base > 1
      BY <1>1
    <2>3. n \in Int
      BY <1>1, <1>4
    <2>. QED BY <2>1, <2>2, <2>3, <1>1
  <1>15. n % All = r
    <2>. HIDE DEF n, r
    <2>1. n = r \/ n = r + All \/ n = r - All
      BY <1>13, <1>14
    <2>. QED BY <1>14, <2>1, WrapLemma
  <1>. QED BY <1>12, <1>15

(* operator<: an upper word that is smaller by one outweighs every lower   *)
(* word.                                                                   *)
LEMMA LessLemma ==
    ASSUME NEW a \in Uint, NEW b \in Uint
    PROVE  less(a, b) <=> Value(a) < Value(b)
  <1>. DEFINE u == a[1]  l == a[2]  v == b[1]  m == b[2]
  <1>1. /\ Base \in Nat /\ Base > 1
        /\ u \in Nat /\ l \in Nat /\ v \in Nat /\ m \in Nat
        /\ u < Base /\ l < Base /\ v < Base /\ m < Base
    BY BaseAssumption DEF Uint, Word
  <1>2. CASE u = v
    BY <1>1, <1>2 DEF less, Value
  <1>3. CASE u < v
    <2>1. (u + 1) * Base <= v * Base
      BY <1>1, <1>3
    <2>2. u * Base + l < v * Base + m
      BY <1>1, <2>1
    <2>. QED BY <1>1, <1>3, <2>2 DEF less, Value
  <1>4. CASE v < u
    <2>1. (v + 1) * Base <= u * Base
      BY <1>1, <1>4
    <2>2. v * Base + m < u * Base + l
      BY <1>1, <2>1
    <2>3. u * Base + l \in Int /\ v * Base + m \in Int
      BY <1>1
    <2>. QED BY <1>1, <1>4, <2>2, <2>3 DEF less, Value
  <1>. QED BY <1>1, <1>2, <1>3, <1>4

(* The words of a number determine it.                                     *)
LEMMA EqualLemma ==
    ASSUME NEW a \in Uint, NEW b \in Uint
    PROVE  equal(a, b) <=> Value(a) = Value(b)
  <1>1. Value(a) \in Nat /\ Value(b) \in Nat
    BY BaseAssumption DEF Uint, Word, Value
  <1>2. equal(a, b) <=> ~less(a, b) /\ ~less(b, a)
    BY BaseAssumption DEF Uint, Word, equal, less
  <1>. QED BY <1>1, <1>2, LessLemma

Operands == left \in Uint /\ right \in Uint

(* The operands stay numbers: no loop of the class writes to them.         *)
LEMMA OperandsLemma == Spec => []Operands
  <1>1. Init => Operands
    BY ValuesAssumption DEF Init, Operands
  <1>2. Operands /\ [Next]_vars => Operands'
    BY DEF Operands, Next, vars, Divide, divide_step, to_string, to_string_digit, uint128, uint128_digit, Rests, operands
  <1>. QED BY <1>1, <1>2, PTL DEF Spec

(* operator+ and operator- are addition and subtraction modulo 2^128, for  *)
(* words of every size.                                                    *)
LEMMA SumLemma == Spec => []SumExact
  <1>1. Operands => SumExact
    BY PlusLemma, MinusLemma DEF SumExact, Operands
  <1>. QED BY <1>1, OperandsLemma, PTL

(* The comparisons of uint128 are the comparisons of the numbers, for      *)
(* words of every size.                                                    *)
LEMMA OrderLemma == Spec => []OrderExact
  <1>1. Operands => OrderExact
    <2>. SUFFICES ASSUME Operands PROVE OrderExact
      OBVIOUS
    <2>. USE DEF Operands
    <2>1. Value(left) \in Nat /\ Value(right) \in Nat
      BY BaseAssumption DEF Uint, Word, Value
    <2>2. less(left, right) <=> Value(left) < Value(right)
      BY LessLemma
    <2>3. greater(left, right) <=> less(right, left)
      BY BaseAssumption DEF greater, less, Uint, Word
    <2>4. less(right, left) <=> Value(right) < Value(left)
      BY LessLemma
    <2>5. equal(left, right) <=> Value(left) = Value(right)
      BY EqualLemma
    <2>. QED BY <2>1, <2>2, <2>3, <2>4, <2>5 DEF OrderExact, less_equal, greater_equal
  <1>. QED BY <1>1, OperandsLemma, PTL

(* Sums, differences and comparisons of uint128 are those of the numbers   *)
(* modulo 2^128, for words of every size and all operands.                 *)
THEOREM WordsTheorem == Spec => []WordsExact
  BY SumLemma, OrderLemma, PTL DEF WordsExact
=============================================================================
