------------------------------ MODULE Decimal ------------------------------
(***************************************************************************)
(* core::decimal, the arbitrary precision number of core.cpp: a sign, the  *)
(* decimal digits with the least significant one first, and the number of  *)
(* digits after the point.  One value is assigned, combined with operands, *)
(* rounded and trimmed, in any order.                                      *)
(*                                                                         *)
(* A character is its distance from '0', char_to_int; the characters past  *)
(* '9' that a wrong quotient digit gives are the numbers above 9.          *)
(* The sign of a NaN ('\0') is "nan".  A division that never returns has   *)
(* the result Hang.                                                        *)
(***************************************************************************)
EXTENDS Integers, SequencesExt

CONSTANTS
  Texts,      \* the number texts that operands are parsed from
  Bases,      \* the bases that decimal::from is called with
  Precisions, \* the arguments of round and truncate
  MaxDigits,  \* a result with more digits is not followed
  MaxSteps,   \* operations in one calculation
  Clean       \* TRUE: only divisions whose partial remainder is never zero
              \* before a further zero and a later non-zero digit

VARIABLES
  value,  \* the decimal
  op,     \* the last operation
  arg,    \* its right operand
  steps   \* operations so far

vars == <<value, op, arg, steps>>

Digit == 0..9

nan == [source |-> <<>>, length |-> 0, sign |-> "nan"]

zero == [source |-> <<0>>, length |-> 0, sign |-> "+"]

Hang == [nan EXCEPT !.sign = "hang"]

is_nan(d) == d.sign = "nan"

is_zero(d) == \A i \in DOMAIN d.source : d.source[i] = 0

Zeros(n) == [i \in 1..n |-> 0]

(***************************************************************************)
(* Normal forms.                                                           *)
(***************************************************************************)
LeadingZeros(d) ==
  CHOOSE n \in 0..Len(d.source) :
    /\ \A i \in 1..n : d.source[Len(d.source) + 1 - i] = 0
    /\ n < Len(d.source) => d.source[Len(d.source) - n] # 0

\* Leading zeros go while more than one digit stands before the point.
unlead(d) ==
  LET spare == Len(d.source) - 1 - d.length
      n == IF spare <= 0 THEN 0 ELSE IF LeadingZeros(d) < spare THEN LeadingZeros(d) ELSE spare
  IN  [d EXCEPT !.source = SubSeq(@, 1, Len(@) - n)]

TrailingZeros(d) ==
  CHOOSE n \in 0..d.length :
    /\ \A i \in 1..n : d.source[i] = 0
    /\ n < d.length => d.source[n + 1] # 0

untrail(d) ==
  IF is_nan(d) \/ d.source = <<>> THEN d
  ELSE LET n == TrailingZeros(d)
       IN  [d EXCEPT !.source = SubSeq(@, n + 1, Len(@)), !.length = @ - n]

trim(d) == untrail(unlead(d))

\* The same number with n more digits after the point.
Widen(d, n) == [d EXCEPT !.source = Zeros(n) \o @, !.length = @ + n]

truncate(d, p) ==
  IF is_nan(d) THEN d
  ELSE IF d.length < p THEN Widen(d, p - d.length)
  ELSE [d EXCEPT !.source = SubSeq(@, d.length - p + 1, Len(@)), !.length = p]

(***************************************************************************)
(* Text.                                                                   *)
(***************************************************************************)
Point == -2

Hyphen == -3

Cross == -5

\* "NaN"
NaNText == <<30, 49, 30>>

IsDigit(c) == c \in Digit

\* The number of a text; an unexpected character makes it a NaN.  The point
\* is looked for after the sign, and is not a digit of the second part.
apply_base10(text) ==
  LET signed == text # <<>> /\ ~IsDigit(text[1])
      from == IF signed THEN 2 ELSE 1
      points == {i \in from..Len(text) : text[i] = Point}
      dot == IF points = {} THEN Len(text) + 1 ELSE CHOOSE i \in points : \A j \in points : i <= j
      digits == SubSeq(text, from, dot - 1) \o SubSeq(text, dot + 1, Len(text))
  IN  IF \/ text = <<>>
         \/ Len(text) = 1 /\ signed
         \/ signed /\ text[1] # Cross /\ text[1] # Hyphen
         \/ \E i \in DOMAIN digits : ~IsDigit(digits[i])
      THEN nan
      ELSE [source |-> Reverse(digits),
            length |-> IF points = {} THEN 0 ELSE Len(text) - dot,
            sign |-> IF signed /\ text[1] = Hyphen THEN "-" ELSE "+"]

\* Digits from the most significant down to the last one that is not a
\* trailing zero, with the point where the fraction starts.
to_string(d) ==
  IF is_nan(d) \/ d.source = <<>> THEN NaNText
  ELSE LET offset == TrailingZeros(d)
       IN  (IF d.sign = "-" THEN <<Hyphen>> ELSE <<>>)
           \o FlattenSeq([k \in 1..(Len(d.source) - offset) |->
                LET i == Len(d.source) - k
                IN  <<d.source[i + 1]>>
                    \o (IF i = d.length /\ i # 0 /\ offset # d.length THEN <<Point>> ELSE <<>>)])

\* The conversion from an integer: to_chars, then the text.
FromInt(n) ==
  IF n = 0 THEN zero
  ELSE [source |-> IF n \in -9..9 THEN <<IF n < 0 THEN -n ELSE n>>
                   ELSE LET m == IF n < 0 THEN -n ELSE n IN <<m % 10, m \div 10>>,
        length |-> 0, sign |-> IF n < 0 THEN "-" ELSE "+"]

(***************************************************************************)
(* Comparison.                                                             *)
(***************************************************************************)
\* 0 for equal magnitudes, 1 when the left one is greater, 2 when it is
\* smaller: by the number of digits before the point, then digit by digit.
compare_num(l, r) ==
  LET before(d) == Len(d.source) - d.length
      n == IF l.length > r.length THEN l.length ELSE r.length
      a == Widen(l, n - l.length).source
      b == Widen(r, n - r.length).source
      differ == {i \in DOMAIN a : a[i] # b[i]}
  IN  IF before(l) # before(r) THEN IF before(l) > before(r) THEN 1 ELSE 2
      ELSE IF differ = {} THEN 0
      ELSE LET i == CHOOSE k \in differ : \A j \in differ : j <= k
           IN  IF a[i] > b[i] THEN 1 ELSE 2

Eq(l, r) == ~is_nan(l) /\ ~is_nan(r) /\ compare_num(l, r) = 0 /\ l.sign = r.sign

Gt(l, r) ==
  /\ ~is_nan(l) /\ ~is_nan(r)
  /\ IF l.sign = r.sign THEN compare_num(l, r) = (IF l.sign = "+" THEN 1 ELSE 2)
     ELSE ~(is_zero(l) /\ is_zero(r)) /\ l.sign = "+"

Lt(l, r) ==
  /\ ~is_nan(l) /\ ~is_nan(r)
  /\ IF l.sign = r.sign THEN compare_num(l, r) = (IF l.sign = "+" THEN 2 ELSE 1)
     ELSE ~(is_zero(l) /\ is_zero(r)) /\ l.sign = "-"

Ge(l, r) == ~is_nan(l) /\ ~is_nan(r) /\ ~Lt(l, r)

Le(l, r) == ~is_nan(l) /\ ~is_nan(r) /\ ~Gt(l, r)

(***************************************************************************)
(* Arithmetic on digit strings.                                            *)
(***************************************************************************)
At(s, i) == IF i > Len(s) THEN 0 ELSE s[i]

Longer(a, b) == IF Len(a) > Len(b) THEN Len(a) ELSE Len(b)

BrokenSum(a, b) ==
  LET n == Longer(a, b)
      carry[i \in 0..n] == IF i = 0 THEN 0 ELSE (At(a, i) + At(b, i) + carry[i - 1]) \div 10
  IN  [i \in 1..n |-> (At(a, i) + At(b, i) + carry[i - 1]) % 10]

sum(a, b) ==
  LET n == Longer(a, b)
      carry[i \in 0..n] ==
        IF i = 0 THEN 0 ELSE IF At(a, i) + At(b, i) + carry[i - 1] > 9 THEN 1 ELSE 0
      digits == [i \in 1..n |-> At(a, i) + At(b, i) + carry[i - 1] - 10 * carry[i]]
  IN  IF carry[n] # 0 THEN Append(digits, carry[n]) ELSE digits

\* For a magnitude not smaller than the other one.
subtract(a, b) ==
  LET n == Len(a)
      carry[i \in 0..n] == IF i = 0 THEN 0 ELSE IF a[i] - carry[i - 1] < At(b, i) THEN 1 ELSE 0
  IN  [i \in 1..n |-> a[i] - carry[i - 1] - At(b, i) + 10 * carry[i]]

\* One row of the product: the left digits times one digit of the right.
Row(a, x) ==
  LET n == Len(a)
      carry[i \in 0..n] == IF i = 0 THEN 0 ELSE (x * a[i] + carry[i - 1]) \div 10
      digits == [i \in 1..n |-> (x * a[i] + carry[i - 1]) % 10]
  IN  IF carry[n] # 0 THEN Append(digits, carry[n]) ELSE digits

multiply(a, b) ==
  LET rows[i \in 0..Len(b)] ==
        IF i = 0 THEN <<0>> ELSE sum(rows[i - 1], Zeros(i - 1) \o Row(a, b[i]))
  IN  rows[Len(b)]

negate(d) ==
  [d EXCEPT !.sign = CASE @ = "+" -> "-" [] @ = "-" -> "+" [] OTHER -> @]

\* The difference of two magnitudes with as many digits after the point;
\* the sign is s when the left one is the greater.
Difference(l, r, s) ==
  CASE compare_num(l, r) = 0 -> zero
    [] compare_num(l, r) = 1 ->
         unlead([source |-> subtract(l.source, r.source), length |-> l.length, sign |-> s])
    [] OTHER ->
         unlead([source |-> subtract(r.source, l.source), length |-> l.length,
                 sign |-> IF s = "+" THEN "-" ELSE "+"])

Total(l, r) == [source |-> sum(l.source, r.source), length |-> l.length, sign |-> l.sign]

Wide(l, r) == IF l.length > r.length THEN l.length ELSE r.length

plus(left, right) ==
  IF is_nan(left) \/ is_nan(right) THEN nan
  ELSE LET l == Widen(left, Wide(left, right) - left.length)
           r == Widen(right, Wide(left, right) - right.length)
       IN  IF l.sign = r.sign THEN Total(l, r) ELSE Difference(l, r, l.sign)

minus(left, right) ==
  IF is_nan(left) \/ is_nan(right) THEN nan
  ELSE LET l == Widen(left, Wide(left, right) - left.length)
           r == Widen(right, Wide(left, right) - right.length)
       IN  IF l.sign # r.sign THEN Total(l, r) ELSE Difference(l, r, l.sign)

times(left, right) ==
  IF is_nan(left) \/ is_nan(right) THEN nan
  ELSE unlead([source |-> multiply(left.source, right.source),
               length |-> left.length + right.length,
               sign |-> IF left.sign = right.sign THEN "+" ELSE "-"])

\* Rounding drops digits and adds one unit when the first one dropped is 5
\* or more, to a negative number too.
round(d, p) ==
  IF is_nan(d) THEN d
  ELSE IF d.length <= p THEN Widen(d, p - d.length)
  ELSE IF d.source[d.length - p] >= 5
       THEN plus(truncate(d, p), [source |-> <<1>> \o Zeros(p), length |-> p, sign |-> "+"])
       ELSE truncate(d, p)

(***************************************************************************)
(* Long division.                                                          *)
(***************************************************************************)
RECURSIVE Subtracted(_, _, _, _)

\* The digit qsub of the quotient, found by halving steps: r loses avg times
\* d while it holds that much, and max is back at 9 after each success.
Subtracted(r, d, max, qsub) ==
  IF Lt(r, d) THEN [r |-> r, qsub |-> qsub]
  ELSE LET avg == (max + 1) \div 2
           share == times(d, FromInt(avg))
       IN  IF compare_num(r, share) # 2 THEN Subtracted(minus(r, share), d, 9, qsub + avg)
           ELSE Subtracted(r, d, avg, qsub)

Natural(digits) == [source |-> digits, length |-> 0, sign |-> "+"]

\* The digits of n, from the most significant on, are appended to the partial
\* remainder r; it is emptied only when a subtraction leaves zero.  q is the
\* quotient so far and left the remainder before it is emptied.
LongDivision(n, d) ==
  LET part[k \in 0..Len(n)] ==
        IF k = 0 THEN [r |-> <<>>, q |-> <<>>, left |-> <<>>]
        ELSE LET p == part[k - 1]
                 r == Natural(<<n[Len(n) + 1 - k]>> \o p.r)
                 s == Subtracted(r, d, 9, 0)
             IN  IF Ge(r, d) /\ ~is_zero(r)
                 THEN [r |-> IF is_zero(s.r) THEN <<>> ELSE s.r.source,
                       q |-> <<s.qsub>> \o p.q, left |-> s.r.source]
                 ELSE [r |-> r.source, q |-> <<0>> \o p.q, left |-> r.source]
  IN  part[Len(n)]

Magnitude(d) == IF Gt(d, zero) THEN d ELSE times(d, FromInt(-1))

\* The magnitude as a whole number, with w digits of fraction moved before
\* the point.
Whole(d, w) == unlead([Widen(Magnitude(d), w - d.length) EXCEPT !.length = 0])

SignOf(left, right) == IF left.sign = right.sign THEN "+" ELSE "-"

Dividend(left, right) == Zeros(Wide(left, right)) \o Whole(left, Wide(left, right)).source

\* The quotient has as many digits after the point as the operand that has
\* more.  Only a divisor equal to +0 gives a NaN.
over(left, right) ==
  IF is_nan(left) \/ is_nan(right) \/ Eq(right, zero) THEN nan
  ELSE LET n == Natural(Dividend(left, right))
           d == Whole(right, Wide(left, right))
       IN  CASE compare_num(n, d) = 2 -> zero
             [] is_zero(d) /\ ~is_zero(n) -> Hang
             [] OTHER -> unlead([source |-> LongDivision(n.source, d).q,
                                 length |-> Wide(left, right), sign |-> SignOf(left, right)])

\* The remainder of two whole numbers.
rest(left, right) ==
  IF is_nan(left) \/ is_nan(right) \/ left.length # 0 \/ right.length # 0 \/ Eq(right, zero) THEN nan
  ELSE LET n == Magnitude(left)
           d == Magnitude(right)
       IN  CASE compare_num(n, d) = 0 -> zero
             [] compare_num(n, d) = 2 -> left
             [] is_zero(d) -> Hang
             [] OTHER ->
                  LET m == unlead(Natural(LongDivision(n.source, d).left))
                  IN  [m EXCEPT !.sign = IF is_zero(m) THEN "+" ELSE SignOf(left, right)]

\* decimal::from: the digits of a number in some base, most significant first.
from(digits, base) ==
  LET value_[k \in 0..Len(digits)] ==
        IF k = 0 THEN zero
        ELSE plus(times(value_[k - 1], FromInt(base)), FromInt(digits[k]))
  IN  value_[Len(digits)]

(***************************************************************************)
(* Reference: a decimal as an integer number of units of 10^-w.            *)
(***************************************************************************)
Power10(n) == LET p[i \in 0..n] == IF i = 0 THEN 1 ELSE 10 * p[i - 1] IN p[n]

Digits(s) == LET v[i \in 0..Len(s)] == IF i = 0 THEN 0 ELSE v[i - 1] + s[i] * Power10(i - 1) IN v[Len(s)]

Abs(n) == IF n < 0 THEN -n ELSE n

Units(d, w) == (IF d.sign = "-" THEN -1 ELSE 1) * Digits(d.source) * Power10(w - d.length)

\* A partial remainder of n by d is zero, the next digit is zero and a later
\* one is not.
ZeroRun(n, d) ==
  LET prefix(k) == Digits(SubSeq(n, Len(n) - k + 1, Len(n)))
  IN  \E k \in 1..(Len(n) - 1) :
        /\ prefix(k) % Digits(d) = 0
        /\ n[Len(n) - k] = 0
        /\ \E i \in 1..(Len(n) - k - 1) : n[i] # 0

Regular(left, right) ==
  ~is_nan(left) /\ ~is_nan(right) /\ ~is_zero(right) =>
    ~ZeroRun(Dividend(left, right), Whole(right, Wide(left, right)).source)

-----------------------------------------------------------------------------
Operands == {apply_base10(t) : t \in Texts}

Init == value \in Operands /\ op = "none" /\ arg = zero /\ steps = 0

Becomes(name, right, result) ==
  /\ value.sign # "hang"
  /\ steps < MaxSteps
  /\ steps' = steps + 1
  /\ Len(result.source) <= MaxDigits
  /\ value' = result
  /\ op' = name
  /\ arg' = right

Assign == \E r \in Operands : Becomes("=", r, r)

Plus == \E r \in Operands : Becomes("+", r, plus(value, r))

Minus == \E r \in Operands : Becomes("-", r, minus(value, r))

Times == \E r \in Operands : Becomes("*", r, times(value, r))

Over == \E r \in Operands : (Clean => Regular(value, r)) /\ Becomes("/", r, over(value, r))

Rest == \E r \in Operands : (Clean => Regular(value, r)) /\ Becomes("%", r, rest(value, r))

Increment == Becomes("+", FromInt(1), plus(value, FromInt(1)))

Decrement == Becomes("-", FromInt(1), minus(value, FromInt(1)))

Negate == Becomes("negate", zero, negate(value))

Round == \E p \in Precisions : Becomes("round", FromInt(p), round(value, p))

Truncate == \E p \in Precisions : Becomes("truncate", FromInt(p), truncate(value, p))

Trim == Becomes("trim", zero, trim(value))

\* The digits of the value as a number in another base.
FromBase ==
  \E b \in Bases :
    /\ ~is_nan(value)
    /\ Becomes("from", FromInt(b), from(Reverse(value.source), b))

Next ==
  \/ Assign \/ Plus \/ Minus \/ Times \/ Over \/ Rest \/ Increment \/ Decrement
  \/ Negate \/ Round \/ Truncate \/ Trim \/ FromBase

Spec == Init /\ [][Next]_vars

-----------------------------------------------------------------------------
(***************************************************************************)
(* Properties.                                                             *)
(***************************************************************************)
\* A decimal is digits, a number of them after the point and a sign.
TypeOK ==
  /\ value.source \in Seq(Digit)
  /\ value.length \in 0..Len(value.source)
  /\ value.sign \in {"+", "-", "nan"}

\* Every operation keeps the form compare_num relies on: a digit before the
\* point, and no leading zero but a lone one.
Normal ==
  ~is_nan(value) =>
    /\ Len(value.source) > value.length
    /\ Len(value.source) > value.length + 1 => Last(value.source) # 0

\* The comparison operators order values as numbers whatever calculation
\* they come from; == also tells the two zeros apart.
OrderAgrees ==
  \A r \in Operands \cup {value} :
    ~is_nan(value) /\ ~is_nan(r) =>
      LET w == Wide(value, r)
          a == Units(value, w)
          b == Units(r, w)
      IN  /\ Gt(value, r) <=> a > b
          /\ Lt(value, r) <=> a < b
          /\ Ge(value, r) <=> a >= b
          /\ Le(value, r) <=> a <= b
          /\ Eq(value, r) <=> a = b /\ value.sign = r.sign

\* The text of a decimal parses back to the same number, without its
\* trailing zeros (serializers store decimals as text).
RoundTrip == apply_base10(to_string(value)) = (IF is_nan(value) THEN nan ELSE untrail(value))

Known == ~is_nan(value) /\ ~is_nan(arg') /\ value.source # <<>>

\* + and - are exact.
SumExact ==
  Known /\ op' \in {"+", "-"} =>
     LET w == Wide(value, arg')
     IN  Units(value', w)
           = (IF op' = "+" THEN Units(value, w) + Units(arg', w) ELSE Units(value, w) - Units(arg', w))

\* * is exact, with the digits of both fractions.
ProductExact ==
  Known /\ op' = "*" =>
     /\ value'.length = value.length + arg'.length
     /\ Units(value', value'.length) = Units(value, value.length) * Units(arg', arg'.length)

\* / gives the quotient cut off after the longer fraction of the operands,
\* and a NaN for a divisor equal to zero.
QuotientExact ==
  Known /\ op' = "/" =>
     LET w == Wide(value, arg')
     IN  IF is_zero(arg') THEN is_nan(value')
         ELSE Abs(Units(value', w))
                = (Abs(Units(value, w)) * Power10(w)) \div Abs(Units(arg', w))

\* % of whole numbers has the magnitude of the remainder.
RemainderExact ==
  Known /\ op' = "%" /\ value.length = 0 /\ arg'.length = 0 /\ ~is_zero(arg') =>
     Abs(Units(value', 0)) = Abs(Units(value, 0)) % Abs(Units(arg', 0))

\* Rounding a value that is not negative moves it by half a unit of the last
\* place kept at most; truncation drops less than one unit.
RoundNearest ==
  Known /\ op' \in {"round", "truncate"} /\ value.sign = "+" =>
     LET p == Digits(arg'.source)
         w == IF p > value.length THEN p ELSE value.length
         d == Units(value', w) - Units(value, w)
     IN  /\ value'.length = p
         /\ op' = "round" => 2 * Abs(d) <= Power10(w - p)
         /\ op' = "truncate" => d <= 0 /\ -d < Power10(w - p)

\* decimal::from is Horner's rule.
FromExact ==
  op' = "from" =>
     LET base == Digits(arg'.source)
         h[k \in 0..Len(value.source)] ==
           IF k = 0 THEN 0 ELSE h[k - 1] * base + value.source[Len(value.source) + 1 - k]
     IN  Units(value', 0) = h[Len(value.source)]
=============================================================================
