------------------------------ MODULE Uint256 ------------------------------
(***************************************************************************)
(* compute::uint256: a pair <<upper, lower>> of uint128, each a number of  *)
(* W bits with exact arithmetic modulo 2^W (module Uint128 is about that   *)
(* one).  A half of such a number stands for 64 bits, Byte bits for 8.     *)
(* The loops (divide, to_string, the parser) run as actions.               *)
(***************************************************************************)
EXTENDS Integers, Sequences, SequencesExt

CONSTANTS
    W, Base, Byte,   \* bits of a uint128, 2^W, bits of a byte
    Values, Rights,  \* operands
    Printed,         \* the numbers that are printed and read again
    Bases, Lengths   \* arguments of to_string

WideAssumption ==
    /\ W \in Nat /\ W % 2 = 0 /\ Base = 2^W
    /\ Byte \in Nat /\ Byte % 2 = 0 /\ W % Byte = 0

Value(a) == a[1] * Base + a[2]
Zero == <<0, 0>>
Ones == <<Base - 1, Base - 1>>                           \* max()
One == <<0, 1>>
From(t) == <<IF t < 0 THEN Base - 1 ELSE 0, t % Base>>   \* uint256(const t&)
Wide(w) == <<0, w>>                                      \* uint256(const uint128&)

-----------------------------------------------------------------------------
(* Comparisons and bitwise operators.                                      *)
bool(a) == a[1] # 0 \/ a[2] # 0
not(a) == ~bool(a)
narrow(a, n) == a[2] % 2^n
equal(a, b) == a[1] = b[1] /\ a[2] = b[2]
greater(a, b) == IF a[1] = b[1] THEN a[2] > b[2] ELSE a[1] > b[1]
less(a, b) == IF a[1] = b[1] THEN a[2] < b[2] ELSE a[1] < b[1]
greater_equal(a, b) == greater(a, b) \/ equal(a, b)
less_equal(a, b) == less(a, b) \/ equal(a, b)

Bit(w, k) == (w \div 2^k) % 2
And(v, w) ==
    LET s[k \in 0..W] == IF k = 0 THEN 0 ELSE s[k - 1] + Bit(v, k - 1) * Bit(w, k - 1) * 2^(k - 1) IN s[W]
Or(v, w) == v + w - And(v, w)
Xor(v, w) == v + w - 2 * And(v, w)
band(a, b) == <<And(a[1], b[1]), And(a[2], b[2])>>
bor(a, b) == <<Or(a[1], b[1]), Or(a[2], b[2])>>
bxor(a, b) == <<Xor(a[1], b[1]), Xor(a[2], b[2])>>
bnot(a) == <<Base - 1 - a[1], Base - 1 - a[2]>>

-----------------------------------------------------------------------------
(* Arithmetic.                                                             *)
Flag(p) == IF p THEN 1 ELSE 0
Half == 2^(W \div 2)
High(w) == w \div Half
Low(w) == w % Half

plus(a, b) == <<(a[1] + b[1] + Flag((a[2] + b[2]) % Base < a[2])) % Base, (a[2] + b[2]) % Base>>
plus_assign(a, b) == <<(b[1] + a[1] + Flag((a[2] + b[2]) % Base < a[2])) % Base, (a[2] + b[2]) % Base>>
minus(a, b) == <<(a[1] - b[1] - Flag((a[2] - b[2]) % Base > a[2])) % Base, (a[2] - b[2]) % Base>>
increment(a) == plus_assign(a, One)
decrement(a) == minus(a, One)
negate(a) == plus(bnot(a), One)

shift_left(a, b) ==
    LET shift == b[2] IN
    IF b[1] # 0 \/ shift >= 2 * W THEN Zero
    ELSE IF shift = W THEN <<a[2], 0>>
    ELSE IF shift = 0 THEN a
    ELSE IF shift < W
         THEN <<(((a[1] * 2^shift) % Base) + a[2] \div 2^(W - shift)) % Base, (a[2] * 2^shift) % Base>>
    ELSE <<(a[2] * 2^(shift - W)) % Base, 0>>

(* Half of the width and more gives zero: the branches after it are dead.  *)
shift_right(a, b) ==
    LET shift == b[2] IN
    IF b[1] # 0 \/ shift >= W THEN Zero
    ELSE IF shift = 0 THEN a
    ELSE <<a[1] \div 2^shift, (((a[1] * 2^(W - shift)) % Base) + a[2] \div 2^shift) % Base>>

times(a, b) ==
    LET t == <<High(a[1]), Low(a[1]), High(a[2]), Low(a[2])>>
        m == <<High(b[1]), Low(b[1]), High(b[2]), Low(b[2])>>
        p(k, y) == (t[y + 1] * m[4 - k]) % Base
        third == (Low(p(0, 2)) + High(p(0, 3)) + Low(p(1, 3))) % Base
        second == Low(p(0, 1)) + High(p(0, 2)) + Low(p(1, 2)) + High(p(1, 3)) + Low(p(2, 3))
        first == Low(p(0, 0)) + High(p(0, 1)) + Low(p(1, 1)) + High(p(1, 2)) + Low(p(2, 2))
                 + High(p(2, 3)) + Low(p(3, 3))
    IN  plus(plus(plus(<<(first * Half) % Base, 0>>, <<High(third), (third * Half) % Base>>),
                  <<second % Base, 0>>), <<0, Low(p(0, 3))>>)

-----------------------------------------------------------------------------
(* Size and bytes.                                                         *)
bits(a) == LET length[w \in 0..(Base - 1)] == IF w = 0 THEN 0 ELSE 1 + length[w \div 2]
           IN  IF a[1] # 0 THEN W + length[a[1]] ELSE length[a[2]]
Size == (2 * W) \div Byte
Least(m, n) == IF m < n THEN m ELSE n
Greatest(m, n) == IF m < n THEN n ELSE m
bytes(a) ==
    IF not(a) THEN 0
    ELSE LET length == bits(a) - 1 IN Greatest(1, Least(Size, (length - (length % Byte) + Byte) \div Byte))
encode(a) == [k \in 1..Size |-> (Value(a) \div 2^(Byte * (Size - k))) % 2^Byte]
encode_compact(a) == SubSeq(encode(a), Size - bytes(a) + 1, Size)
decode(data) ==
    LET n[k \in 0..Size] == IF k = 0 THEN 0 ELSE n[k - 1] * 2^Byte + data[k]
    IN  <<n[Size] \div Base, n[Size] % Base>>
decode_compact(data) == decode([k \in 1..Size |-> IF k <= Len(data) THEN data[k] ELSE 0])

-----------------------------------------------------------------------------
(* A builtin integer t, and a uint128 w on the left.                       *)
t_and(a, t) == <<0, And(a[2], t % Base)>>
t_or(a, t) == <<a[1], Or(a[2], t % Base)>>
t_xor(a, t) == <<a[1], Xor(a[2], t % Base)>>
t_shift(a, t) == <<shift_left(a, From(t)), shift_right(a, From(t))>>
t_equal(a, t) == a[1] = 0 /\ a[2] = t % Base
t_greater(a, t) == a[1] # 0 \/ a[2] > t % Base
t_less(a, t) == a[1] = 0 /\ a[2] < t % Base
t_plus(a, t) == <<(a[1] + Flag((a[2] + t) % Base < a[2])) % Base, (a[2] + t) % Base>>
t_minus(a, t) == <<(a[1] - Flag((a[2] - t) % Base > a[2])) % Base, (a[2] - t) % Base>>
t_times(a, t) == times(a, From(t))
t_left_equal(t, b) == b[1] = 0 /\ High(b[2]) = 0 /\ Low(b[2]) = t % Half
t_left_less(t, b) == b[1] # 0 \/ t % Base < b[2]
t_left_greater(t, b) == b[1] = 0 /\ t % Base > b[2]
t_left_minus(t, b) == negate(t_minus(b, t))
w_and(w, b) == <<0, And(b[2], w)>>
w_or(w, b) == <<b[1], Or(b[2], w)>>
w_xor(w, b) == <<b[1], Xor(b[2], w)>>
w_shift(w, b) == <<shift_left(Wide(w), b), shift_right(Wide(w), b)>>
w_order(w, b) == <<less(b, Wide(w)), greater(b, Wide(w)), less_equal(b, Wide(w)), greater_equal(b, Wide(w))>>
w_sum(w, b) == <<plus(b, Wide(w)), negate(minus(b, Wide(w))), times(b, Wide(w))>>

-----------------------------------------------------------------------------
VARIABLES
    left, right,              \* the operands
    op, then,                 \* the loop that runs, and what follows a division
    num, den, quo, rem,       \* the division
    copyd, adder,
    base, length, text, self, \* to_string and the parser
    power

vars == <<left, right, op, then, num, den, quo, rem, copyd, adder, base, length, text, self, power>>
operands == <<left, right>>
division == <<num, den, quo, rem, copyd, adder>>
printing == <<base, length, text, self, power>>

Init ==
    /\ left \in Values /\ right \in Rights
    /\ op = "start" /\ then = "none"
    /\ num = Zero /\ den = Zero /\ quo = Zero /\ rem = Zero /\ copyd = Zero /\ adder = Zero
    /\ base = 0 /\ length = 0 /\ text = <<>> /\ self = Zero /\ power = Zero

(* divide(): the cases it decides at once, or the divisor moved under the  *)
(* highest bit of the dividend.                                            *)
divide(a, b, next) ==
    LET Result(q, r) == quo' = q /\ rem' = r /\ op' = next /\ copyd' = Zero /\ adder' = Zero
        n == From(bits(a) - bits(b))
        back == IF greater(shift_left(b, n), a) THEN One ELSE Zero
    IN
    /\ num' = a /\ den' = b /\ then' = next
    /\ IF equal(b, Zero) THEN Result(Zero, Zero)
       ELSE IF equal(b, One) THEN Result(a, Zero)
       ELSE IF equal(a, b) THEN Result(One, Zero)
       ELSE IF equal(a, Zero) \/ less(a, b) THEN Result(Zero, a)
       ELSE /\ quo' = Zero /\ rem' = a /\ op' = "divide"
            /\ copyd' = shift_right(shift_left(b, n), back)
            /\ adder' = shift_right(shift_left(One, n), back)

Divide == op = "start" /\ divide(left, right, "divided") /\ UNCHANGED <<operands, printing>>

divide_step ==
    /\ op = "divide" /\ UNCHANGED <<operands, num, den, then, printing>>
    /\ \/ /\ greater_equal(rem, den)
          /\ IF greater_equal(rem, copyd)
             THEN rem' = minus(rem, copyd) /\ quo' = bor(quo, adder)
             ELSE UNCHANGED <<rem, quo>>
          /\ copyd' = shift_right(copyd, One) /\ adder' = shift_right(adder, One) /\ op' = op
       \/ ~greater_equal(rem, den) /\ op' = then /\ UNCHANGED <<quo, rem, copyd, adder>>

(* operator%, after the quotient.                                          *)
modulo(a, b, q) == minus(a, times(b, q))

(* to_string: zero, a hexadecimal number from its bytes, or digit by digit.*)
Hex == 2^(Byte \div 2)
Zeros(n) == [k \in 1..n |-> 0]
Digits(a, n) == [k \in 1..n |-> (Value(a) \div Hex^(n - k)) % Hex]
Stripped(s) ==
    LET nonzero == {k \in DOMAIN s : s[k] # 0} \cup {Len(s)}
    IN  SubSeq(s, CHOOSE k \in nonzero : \A j \in nonzero : k <= j, Len(s))
Padded(s, n) == IF Len(s) < n THEN s \o Zeros(n - Len(s)) ELSE s

to_string ==
    /\ op = "start" /\ right = Zero /\ left \in Printed
    /\ base' \in Bases /\ length' \in Lengths
    /\ \/ /\ not(left) /\ text' = Padded(<<>>, IF length' = 0 THEN 1 ELSE length')
          /\ op' = "parse" /\ UNCHANGED <<division, then>>
       \/ /\ ~not(left) /\ base' = Hex
          /\ text' = Stripped(Padded(Digits(left, 2 * bytes(left)), length'))
          /\ op' = "parse" /\ UNCHANGED <<division, then>>
       \/ ~not(left) /\ base' # Hex /\ divide(left, From(base'), "digit") /\ UNCHANGED text
    /\ UNCHANGED <<operands, self, power>>

to_string_digit ==
    LET digits == Append(text, narrow(rem, W)) IN
    /\ op = "digit" /\ UNCHANGED <<operands, base, length, self, power>>
    /\ \/ bool(quo) /\ text' = digits /\ divide(quo, From(base), "digit")
       \/ ~bool(quo) /\ text' = Reverse(Padded(digits, length)) /\ op' = "parse" /\ UNCHANGED <<division, then>>

(* The constructor from text takes the digits from the last.               *)
uint256 ==
    /\ op = "parse" /\ self' = Zero /\ power' = One /\ op' = "digits"
    /\ UNCHANGED <<operands, division, then, base, length, text>>

uint256_digit ==
    /\ op = "digits" /\ UNCHANGED <<operands, division, then, base, length>>
    /\ \/ /\ text # <<>> /\ \E d \in {times(power, From(Last(text)))} : self' = plus_assign(self, d)
          /\ power' = times(power, From(base)) /\ text' = Front(text) /\ op' = op
       \/ text = <<>> /\ op' = "parsed" /\ UNCHANGED <<self, power, text>>

Rests == op \in {"divided", "parsed"} /\ UNCHANGED vars

Next == Divide \/ divide_step \/ to_string \/ to_string_digit \/ uint256 \/ uint256_digit \/ Rests

Spec == Init /\ [][Next]_vars /\ WF_vars(Next)

(***************************************************************************)
(* Properties                                                              *)
(***************************************************************************)

All == Base * Base
At == op = "start"

(* operator+, operator+= and operator- carry between the halves, and ++,   *)
(* -- and the sign agree with them.                                        *)
SumExact ==
    At => /\ Value(plus(left, right)) = (Value(left) + Value(right)) % All
          /\ plus_assign(left, right) = plus(left, right)
          /\ Value(minus(left, right)) = (Value(left) - Value(right)) % All
          /\ plus(left, negate(left)) = Zero /\ decrement(increment(left)) = left
          /\ decrement(Zero) = Ones

(* operator* loses no carry between the columns, and operator% is built on *)
(* it: the remainder from the product agrees with the one of divide().     *)
ProductExact ==
    /\ At => Value(times(left, right)) = (Value(left) * Value(right)) % All
    /\ op = "divided" /\ right # Zero => modulo(left, right, quo) = rem

(* Left shifts of any amount multiply by a power of two, and right shifts  *)
(* by less than half of the width divide by one.  A right shift by half of *)
(* the width or more gives zero (compute.cpp 1699), so that it loses the   *)
(* upper half of the number.                                               *)
ShiftExact ==
    At => LET n == Value(right)
              quotient == IF n >= 2 * W THEN 0 ELSE Value(left) \div 2^n
          IN
          /\ Value(shift_left(left, right)) = IF n >= 2 * W THEN 0 ELSE (Value(left) * 2^n) % All
          /\ Value(shift_right(left, right)) = quotient <=> n < W \/ quotient = 0
          /\ plus(band(left, right), bor(left, right)) = plus(left, right)
          /\ bxor(left, right) = minus(bor(left, right), band(left, right))

(* In the loop the quotient found so far and the remainder make up the     *)
(* dividend, and the divisor moved one further would not fit; at its end   *)
(* they are the quotient and the remainder.                                *)
DivideExact ==
    /\ op = "divide" => /\ Value(quo) * Value(den) + Value(rem) = Value(num)
                        /\ Value(adder) # 0 => /\ Value(copyd) = Value(den) * Value(adder)
                                               /\ Value(rem) < 2 * Value(copyd)
    /\ op = "divided" /\ right # Zero => /\ Value(quo) = Value(left) \div Value(right)
                                         /\ Value(rem) = Value(left) % Value(right)

(* Operators with a builtin integer that is not negative, or a uint128 on  *)
(* the left, agree with those on the converted number.                     *)
MixedExact ==
    At => LET t == right[2]  b == From(t) IN
          /\ t_and(left, t) = band(left, b) /\ t_or(left, t) = bor(left, b) /\ t_xor(left, t) = bxor(left, b)
          /\ t_plus(left, t) = plus(left, b) /\ t_minus(left, t) = minus(left, b)
          /\ t_times(left, t) = times(left, b) /\ t_shift(left, t) = <<shift_left(left, b), shift_right(left, b)>>
          /\ (t_equal(left, t) <=> equal(left, b)) /\ (t_greater(left, t) <=> greater(left, b))
          /\ (t_less(left, t) <=> less(left, b)) /\ (t_left_less(t, left) <=> less(b, left))
          /\ (t < Half => (t_left_equal(t, left) <=> equal(left, b)))
          /\ (t_left_greater(t, left) <=> greater(b, left)) /\ t_left_minus(t, left) = minus(b, left)
          /\ w_and(t, left) = band(b, left) /\ w_or(t, left) = bor(b, left) /\ w_xor(t, left) = bxor(b, left)
          /\ w_shift(t, left) = <<shift_left(b, left), shift_right(b, left)>>
          /\ w_order(t, left) = <<greater(b, left), less(b, left), greater_equal(b, left), less_equal(b, left)>>
          /\ w_sum(t, left) = <<plus(b, left), minus(b, left), times(b, left)>>

(* encode and decode are inverse, and encode_compact takes exactly the     *)
(* bytes from the first that is not zero.  decode_compact puts them at the *)
(* start of its buffer (compute.cpp 2038-2044): it restores zero and the   *)
(* numbers of full size, and no other.                                     *)
CompactExact ==
    At => /\ decode(encode(left)) = left
          /\ decode(Zeros(Size - bytes(left)) \o encode_compact(left)) = left
          /\ bytes(left) > 0 => encode_compact(left)[1] # 0
          /\ decode_compact(encode_compact(left)) = left <=> bytes(left) \in {0, Size}

(* What to_string prints, the constructor reads as the same number, also   *)
(* with padding, except in base 16, where the zeros are added after the    *)
(* digits (compute.cpp 2118-2121).                                         *)
ParsesBack == op = "parsed" /\ (base = Hex => length <= 2 * bytes(left)) => self = left
=============================================================================
