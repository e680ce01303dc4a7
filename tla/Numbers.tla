------------------------------ MODULE Numbers ------------------------------
(***************************************************************************)
(* BCNum (math.rs) and the scale kernels of verified_kernels.rs: decimal   *)
(* numbers as an integer coefficient and a scale, and a calculator that    *)
(* applies any operation of bc to the numbers it has computed before.      *)
(* Integers have no width here, as BigInt; the counts of digits have one,  *)
(* and the module says which of them are computed.                         *)
(***************************************************************************)
EXTENDS Kernels, Sequences

CONSTANTS
  BC_SCALE_MAX,   \* the largest scale
  WordMax,        \* u32::MAX, the largest usize of the 32-bit targets and the largest shift of pow10
  MaxExponent,    \* i64::MAX, the largest exponent
  Literals,       \* numeric constants: digits before and after the radix point
  Bases,          \* values of ibase and obase in use
  MaxCoeff,       \* bound on the coefficient of a result
  MaxStored       \* bound on the coefficient of a stored operand

ASSUME NumbersConstantsOK ==
  /\ {BC_SCALE_MAX, WordMax, MaxExponent, MaxCoeff, MaxStored} \subseteq Nat
  /\ 2 * BC_SCALE_MAX <= WordMax
  /\ Literals \subseteq [int : Seq(0..15), frac : Seq(0..15)]
  /\ Bases \subseteq Nat \ {0, 1}

VARIABLES
  a, b,    \* two numbers: the last result, and one stored or read before
  scale    \* the register

vars == <<a, b, scale>>

BCNum(coeff, digits) == [coeff |-> coeff, scale |-> digits]

Abs(n)   == IF n < 0 THEN -n ELSE n
Sign(n)  == IF n < 0 THEN -1 ELSE IF n > 0 THEN 1 ELSE 0
Larger(m, n) == IF m >= n THEN m ELSE n
Lesser(m, n) == IF m <= n THEN m ELSE n

(* Division of BigInt drops the fraction. *)
Quot(m, n) == Sign(m) * Sign(n) * (Abs(m) \div Abs(n))

(* Powers of a base; zero to the power of zero is one. *)
Powers(base) ==
  LET power[n \in Nat] == IF n = 0 THEN 1 ELSE base * power[n - 1] IN power

pow10(n) == Powers(10)[n]

(* The number of digits of n in a base; zero has none. *)
Width(n, base) ==
  LET width[m \in 0..n] == IF m = 0 THEN 0 ELSE 1 + width[m \div base] IN width[n]
-----------------------------------------------------------------------------
(* The scale kernels: the scale of a result and the shifts that lead to it. *)

AddSubScales(x, y)    == [scale |-> Larger(x, y), left |-> Larger(x, y) - x, right |-> Larger(x, y) - y]
(* Mutant of MulScaleAndShift: the scales of the operands do not count. *)
MulScaleOfRegister(x, y, g) ==
  LET digits == Lesser(x + y, g) IN [scale |-> digits, shift |-> x + y - digits]

MulScaleAndShift(x, y, g) ==
  LET digits == Lesser(x + y, Larger(g, Larger(x, y))) IN [scale |-> digits, shift |-> x + y - digits]
DivScaleAndShift(x, y, g) == [scale |-> g, shift |-> y - x + g]
PowScaleAndShift(exact, x, g) ==
  LET digits == Lesser(exact, Larger(g, x)) IN [scale |-> digits, shift |-> exact - digits]
SqrtScaleAndShift(x, g) == [scale |-> Larger(x, g), shift |-> 2 * Larger(x, g) - x]
RelationalScaleShifts(x, y) == [left |-> Larger(y - x, 0), right |-> Larger(x - y, 0)]
-----------------------------------------------------------------------------
(* The operations, on the operands x and y at scale g. *)

Sum(x, y, sign) ==
  LET k == AddSubScales(x.scale, y.scale)
  IN  BCNum(x.coeff * pow10(k.left) + sign * y.coeff * pow10(k.right), k.scale)

Mul(x, y, g) ==
  LET k == MulScaleAndShift(x.scale, y.scale, g)
  IN  BCNum(Quot(x.coeff * y.coeff, pow10(k.shift)), k.scale)

Div(x, y, g) ==
  LET k == DivScaleAndShift(x.scale, y.scale, g)
  IN  BCNum(IF k.shift >= 0 THEN Quot(x.coeff * pow10(k.shift), y.coeff)
                            ELSE Quot(x.coeff, y.coeff * pow10(-k.shift)), k.scale)

(* Mutant of Mod: the quotient is taken at the scale of the result. *)
ModAtResultScale(x, y, g) ==
  LET q == Div(x, y, g + y.scale) IN Sum(x, BCNum(q.coeff * y.coeff, q.scale + y.scale), -1)

Mod(x, y, g) ==
  LET q == Div(x, y, g) IN Sum(x, BCNum(q.coeff * y.coeff, q.scale + y.scale), -1)

Exponent(y) == Quot(y.coeff, pow10(y.scale))

(* The loop of try_pow: <<product, square, bits left>> after i turns. *)
Power(c, n) ==
  LET turn[i \in 0..n] ==
        IF i = 0 THEN <<1, c, n>>
        ELSE LET t == turn[i - 1]
             IN  << IF t[3] % 2 = 1 THEN t[1] * t[2] ELSE t[1],
                    IF t[3] > 1 THEN t[2] * t[2] ELSE t[2],
                    t[3] \div 2 >>
  IN  turn[n][1]

ExactScale(x, y) == x.scale * Abs(Exponent(y))

Pow(x, y, g) ==
  LET exact == ExactScale(x, y)
      power == Power(x.coeff, Abs(Exponent(y)))
      k     == PowScaleAndShift(exact, x.scale, g)
  IN  IF Exponent(y) >= 0 THEN BCNum(Quot(power, pow10(k.shift)), k.scale)
                          ELSE Div(BCNum(1, 0), BCNum(power, exact), g)

(* BigInt::sqrt: the root, bit by bit. *)
Root(n) ==
  LET bits == Width(n, 4)
      root[i \in 0..bits] ==
        IF i = 0 THEN 0
        ELSE LET t == root[i - 1]  r == t + Powers(2)[bits - i] IN IF r * r <= n THEN r ELSE t
  IN  root[bits]

Sqrt(x, g) ==
  LET k == SqrtScaleAndShift(x.scale, g) IN BCNum(Root(x.coeff * pow10(k.shift)), k.scale)

DigitCount(n) == Larger(1, Width(n, 10))

BCNumLength(zero, digits, scale_of_x) == IF zero THEN Larger(scale_of_x, 1) ELSE digits + scale_of_x

Length(x) ==
  LET int == Abs(x.coeff) \div pow10(x.scale)
  IN  BCNum(BCNumLength(int = 0, DigitCount(int), x.scale), 0)

Relations == {"==", "<=", ">=", "!=", "<", ">"}
Holds(rel, m, n) == CASE rel = "==" -> m = n [] rel = "<=" -> m <= n [] rel = ">=" -> m >= n
                      [] rel = "!=" -> m # n [] rel = "<" -> m < n [] rel = ">" -> m > n

Relate(rel, x, y) ==
  LET k == RelationalScaleShifts(x.scale, y.scale)
  IN  BCNum(IF Holds(rel, x.coeff * pow10(k.left), y.coeff * pow10(k.right)) THEN 1 ELSE 0, 0)

Result(op, x, y, g) ==
  CASE op = "+" -> Sum(x, y, 1)      [] op = "-" -> Sum(x, y, -1)
    [] op = "*" -> Mul(x, y, g)      [] op = "/" -> Div(x, y, g)
    [] op = "%" -> Mod(x, y, g)      [] op = "^" -> Pow(x, y, g)
    [] op = "sqrt" -> Sqrt(x, g)     [] op = "length" -> Length(x)
    [] op = "scale" -> BCNum(x.scale, 0)
    [] op = "neg" -> BCNum(-x.coeff, x.scale)
    [] op = "++" -> Sum(x, BCNum(1, 0), 1)
    [] op = "--" -> Sum(x, BCNum(1, 0), -1)
    [] OTHER -> Relate(op, x, y)

Operations == {"+", "-", "*", "/", "%", "^", "sqrt", "length", "scale", "neg", "++", "--"} \union Relations

(* Mutant of Refused: the scale of the product in a remainder is not limited. *)
RefusedByZero(op, x, y, g) ==
  CASE op \in {"/", "%"} -> y.coeff = 0
    [] op = "^" -> \/ Exponent(y) \notin -MaxExponent - 1..MaxExponent
                   \/ ExactScale(x, y) > BC_SCALE_MAX
                   \/ Exponent(y) < 0 /\ x.coeff = 0
    [] op = "sqrt" -> x.coeff < 0
    [] OTHER -> FALSE

(* Runtime errors: the operation has no result, or one whose scale would be too large. *)
Refused(op, x, y, g) ==
  CASE op = "/" -> y.coeff = 0
    [] op = "%" -> (y.coeff = 0 \/ g + y.scale > BC_SCALE_MAX)
    [] op = "^" -> \/ Exponent(y) \notin -MaxExponent - 1..MaxExponent
                   \/ ExactScale(x, y) > BC_SCALE_MAX
                   \/ Exponent(y) < 0 /\ x.coeff = 0
    [] op = "sqrt" -> x.coeff < 0
    [] OTHER -> FALSE
-----------------------------------------------------------------------------
(* Numeric constants and output. *)

(* The number that a sequence of digits stands for. *)
DigitsValue(seq, base) ==
  LET value[i \in 0..Len(seq)] == IF i = 0 THEN 0 ELSE value[i - 1] * base + seq[i]
  IN  value[Len(seq)]

(* Mutant of FromString: the digits after the point are read as decimals in every base. *)
FromStringDecimal(lit, base) ==
  BCNum(DigitsValue(lit.int, base) * pow10(Len(lit.frac)) + DigitsValue(lit.frac, 10), Len(lit.frac))

FromString(lit, base) ==
  LET digit(d)   == IF Len(lit.int \o lit.frac) > 1 /\ d >= base THEN base - 1 ELSE d
      value(seq) == DigitsValue([i \in DOMAIN seq |-> digit(seq[i])], base)
      unit       == Powers(base)[Len(lit.frac)]
  IN  BCNum(Quot((value(lit.int) * unit + value(lit.frac)) * pow10(Len(lit.frac)), unit), Len(lit.frac))

(* Mutant of FractionDigits: one digit too few when the base is not 10. *)
FractionDigitsShort(digits, base) ==
  IF base = 10 \/ digits = 0 THEN digits
  ELSE CHOOSE k \in 0..(4 * digits) : Powers(base)[k] < pow10(digits) /\ Powers(base)[k + 1] >= pow10(digits)

(* The fewest digits that can tell apart what `digits` decimal digits tell apart. *)
FractionDigits(digits, base) ==
  IF base = 10 \/ digits = 0 THEN digits
  ELSE CHOOSE k \in 1..(4 * digits) : Powers(base)[k - 1] < pow10(digits) /\ Powers(base)[k] >= pow10(digits)

(* format_obase: the digits of a number, whatever they are written with. *)
Printed(x, base) ==
  LET unit    == pow10(x.scale)
      int     == Abs(x.coeff) \div unit
      count   == Width(int, base)
      rest[i \in 0..FractionDigits(x.scale, base)] ==
        IF i = 0 THEN Abs(x.coeff) % unit ELSE (rest[i - 1] * base) % unit
  IN  IF x.coeff = 0 THEN [negative |-> FALSE, int |-> <<0>>, frac |-> <<>>]
      ELSE [negative |-> x.coeff < 0,
            int  |-> [i \in 1..count |-> (int \div Powers(base)[count - i]) % base],
            frac |-> [i \in 1..FractionDigits(x.scale, base) |-> (rest[i - 1] * base) \div unit]]
-----------------------------------------------------------------------------
(* Expressions are evaluated one operation at a time; a refused operation changes nothing. *)

Compute(op) ==
  /\ ~Refused(op, a, b, scale)
  /\ a' = Result(op, a, b, scale)
  /\ Abs(a'.coeff) <= MaxCoeff
  /\ UNCHANGED <<b, scale>>

Store ==
  /\ Abs(a.coeff) <= MaxStored
  /\ b' = a
  /\ UNCHANGED <<a, scale>>

(* Mutant of Literal: any number of digits is read. *)
LiteralUnlimited(lit, base) ==
  /\ b' = FromString(lit, base)
  /\ UNCHANGED <<a, scale>>

Literal(lit, base) ==
  /\ Len(lit.frac) <= BC_SCALE_MAX
  /\ b' = FromString(lit, base)
  /\ UNCHANGED <<a, scale>>

(* store_register: the integer part, as far as a usize can tell, moved into the range. *)
Saturated(n) == IF n \in 0..WordMax THEN n ELSE WordMax

StoreScale ==
  /\ scale' = ClampRegister(Saturated(Abs(Quot(a.coeff, pow10(a.scale)))),
                            a.coeff < 0, 0, BC_SCALE_MAX).value
  /\ UNCHANGED <<a, b>>

Init == a = BCNum(0, 0) /\ b = BCNum(0, 0) /\ scale = 0

Next ==
  \/ \E op \in Operations : Compute(op)
  \/ Store \/ StoreScale
  \/ \E lit \in Literals, base \in Bases : Literal(lit, base)

Spec == Init /\ [][Next]_vars
-----------------------------------------------------------------------------
(* Properties *)

(* No sequence of operations leads to a scale above BC_SCALE_MAX: the kernels are verified  *)
(* under that condition (COMPATIBILITY.md section 2), and nothing but the checks of         *)
(* try_mod_op, try_pow, literal and store_register establishes it.                          *)
ScalesBounded == {a.scale, b.scale, scale} \subseteq 0..BC_SCALE_MAX

(* The counts of digits an operation computes, as sums of scales and as arguments of pow10. *)
DigitSums(op, x, y, g) ==
  CASE op = "*" -> {x.scale + y.scale, MulScaleAndShift(x.scale, y.scale, g).shift}
    [] op = "/" -> {Abs(DivScaleAndShift(x.scale, y.scale, g).shift)}
    [] op = "%" -> {Abs(DivScaleAndShift(x.scale, y.scale, g).shift), g + y.scale}
                   \union {AddSubScales(x.scale, g + y.scale).left, AddSubScales(x.scale, g + y.scale).right}
    [] op = "^" -> {y.scale, Abs(DivScaleAndShift(0, ExactScale(x, y), g).shift),
                    PowScaleAndShift(ExactScale(x, y), x.scale, g).shift}
    [] op = "sqrt" -> {2 * Larger(x.scale, g), SqrtScaleAndShift(x.scale, g).shift}
    [] op \in {"length", "scale", "neg"} -> {x.scale}
    [] OTHER -> {AddSubScales(x.scale, y.scale).left, AddSubScales(x.scale, y.scale).right,
                 RelationalScaleShifts(x.scale, y.scale).left, RelationalScaleShifts(x.scale, y.scale).right}

(* No operation that is carried out asks pow10 for a shift that u32 cannot hold (its expect *)
(* would panic) nor adds scales to more than a 32-bit usize holds.                          *)
DigitSumsFit ==
  \A op \in Operations :
    ~Refused(op, a, b, scale) => DigitSums(op, a, b, scale) \subseteq 0..WordMax

(* x is the number num / den cut off after the digits of its scale. *)
CutOff(x, num, den) ==
  /\ Abs(x.coeff) * den <= Abs(num) * pow10(x.scale)
  /\ Abs(num) * pow10(x.scale) < (Abs(x.coeff) + 1) * den
  /\ x.coeff # 0 => Sign(x.coeff) = Sign(num)

(* The scale of a result, as COMPATIBILITY.md section 1.4 lists them. *)
ScaleOf(op, x, y, g) ==
  CASE op \in {"+", "-"} -> Larger(x.scale, y.scale)
    [] op = "*" -> Lesser(x.scale + y.scale, Larger(g, Larger(x.scale, y.scale)))
    [] op = "/" \/ (op = "^" /\ Exponent(y) < 0) -> g
    [] op = "%" -> Larger(g + y.scale, x.scale)
    [] op = "^" /\ Exponent(y) >= 0 -> Lesser(x.scale * Exponent(y), Larger(g, x.scale))
    [] op = "sqrt" -> Larger(g, x.scale)
    [] op \in {"neg", "++", "--"} -> x.scale
    [] OTHER -> 0

(* What r must be for `x op y` at scale g, in exact rational arithmetic; for remainders see *)
(* RemaindersExact.                                                                         *)
Truncated(op, x, y, g, r) ==
  LET X == x.coeff * pow10(y.scale)  Y == y.coeff * pow10(x.scale)  \* over a common denominator
      D == pow10(x.scale + y.scale)  S == pow10(x.scale)
      power(c) == Powers(c)[Abs(Exponent(y))]
  IN  /\ op = "+" => CutOff(r, X + Y, D)
      /\ op = "-" => CutOff(r, X - Y, D)
      /\ op = "*" => CutOff(r, x.coeff * y.coeff, D)
      /\ op = "/" => CutOff(r, X * Sign(Y), Abs(Y))
      /\ op = "^" /\ Exponent(y) >= 0 => CutOff(r, power(x.coeff), power(S))
      /\ op = "^" /\ Exponent(y) < 0  => CutOff(r, power(S) * Sign(power(x.coeff)), Abs(power(x.coeff)))
      /\ op = "sqrt" => /\ r.coeff * r.coeff * S <= x.coeff * pow10(2 * r.scale)
                        /\ x.coeff * pow10(2 * r.scale) < (r.coeff + 1) * (r.coeff + 1) * S
      /\ op = "neg" => r.coeff = -x.coeff
      /\ op = "++" => r.coeff = x.coeff + S
      /\ op = "--" => r.coeff = x.coeff - S
      /\ op = "length" => /\ r.coeff >= Larger(1, x.scale)
                          /\ Abs(x.coeff) < pow10(r.coeff)
                          /\ r.coeff > Larger(1, x.scale) => Abs(x.coeff) >= pow10(r.coeff - 1)
      /\ op = "scale" => r.coeff = x.scale
      /\ op \in Relations => r.coeff = IF Holds(op, X, Y) THEN 1 ELSE 0

(* Every result has the scale POSIX gives it and is the exact value cut off there, towards  *)
(* zero, although the code multiplies and divides by powers of ten in between.              *)
ResultsTruncated ==
  \A op \in Operations :
    ~Refused(op, a, b, scale) =>
      LET r == Result(op, a, b, scale)
      IN  Abs(r.coeff) <= MaxCoeff =>
            r.scale = ScaleOf(op, a, b, scale) /\ Truncated(op, a, b, scale, r)

(* a % b is what division at the current scale leaves: less than one unit of that scale     *)
(* times b, with the sign of a, and a minus it is a whole number of such units of b.        *)
RemaindersExact ==
  ~Refused("%", a, b, scale) =>
    LET r    == Mod(a, b, scale)
        unit == pow10(r.scale - scale - b.scale)
        left == a.coeff * pow10(r.scale - a.scale) - r.coeff
    IN  /\ Abs(r.coeff) < Abs(b.coeff) * unit
        /\ r.coeff # 0 => Sign(r.coeff) = Sign(a.coeff)
        /\ Abs(left) % (Abs(b.coeff) * unit) = 0

(* A number printed in any base is cut off less than one unit of its last digit below its   *)
(* value: no two numbers of a scale look alike, and none that is not zero looks like zero.  *)
PrintedTellsValue ==
  \A base \in Bases :
    LET p     == Printed(a, base)
        value == DigitsValue(p.int \o p.frac, base)
        unit  == Powers(base)[Len(p.frac)]
    IN  /\ \A i \in DOMAIN (p.int \o p.frac) : (p.int \o p.frac)[i] \in 0..(base - 1)
        /\ p.int # <<>> /\ a.coeff # 0 => p.int[1] # 0
        /\ p.negative = (a.coeff < 0)
        /\ Abs(a.coeff) * unit - value * pow10(a.scale) \in 0..(unit - 1)

(* What bc prints it can read back in the same base: exactly in base 10, and in any other   *)
(* less than a digit is lost, in the last place of the number or of what was printed.       *)
PrintedReadsBack ==
  \A base \in Bases :
    LET p    == Printed(a, base)
        back == FromString([int |-> p.int, frac |-> p.frac], base)
        lost == Abs(a.coeff) * pow10(back.scale) - back.coeff * pow10(a.scale)
    IN  /\ lost \in 0..(pow10(back.scale) + pow10(a.scale) - 1)
        /\ base = 10 => lost = 0
=============================================================================
