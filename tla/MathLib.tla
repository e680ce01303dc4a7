------------------------------ MODULE MathLib ------------------------------
(***************************************************************************)
(* The mathematics library of math.rs: s, c, a, l, e and j, called on the  *)
(* numbers of the calculator in Numbers. A Decimal of precision p is its   *)
(* integer value, in units of 10^-p, beside p. Every series is summed as   *)
(* the code sums it; the digits the code guards it with are parameters.    *)
(***************************************************************************)
EXTENDS Numbers

CONSTANTS
  GuardDigits,   \* 15: extra digits of a call, and again of a logarithm or an exponential
  SeriesGuard,   \* SERIES_GUARD_DIGITS, 10: extra digits of s, c and a
  LongMax,       \* u64::MAX
  MaxTerms       \* bound on the turns of a series loop

ASSUME MathConstantsOK ==
  /\ {GuardDigits, SeriesGuard, MaxTerms} \subseteq Nat \ {0}
  /\ LongMax \in Nat /\ LongMax >= WordMax
-----------------------------------------------------------------------------
(* Decimal *)

(* BigInt products x * y / 10^p and quotients x * 10^p / y, taken a digit at a time so that *)
(* the integers of TLC hold what is in between.                                             *)
Times(x, y, p) ==
  LET carry[i \in 0..p] ==
        IF i = 0 THEN 0 ELSE (((Abs(x) \div pow10(i - 1)) % 10) * Abs(y) + carry[i - 1]) \div 10
  IN  Sign(x) * Sign(y) * ((Abs(x) \div pow10(p)) * Abs(y) + carry[p])

Square(x, p) == Times(x, x, p)

Over(x, y, p) ==
  LET long[i \in 0..p] ==
        IF i = 0 THEN <<Abs(x) \div Abs(y), Abs(x) % Abs(y)>>
        ELSE LET t == long[i - 1] IN <<10 * t[1] + (10 * t[2]) \div Abs(y), (10 * t[2]) % Abs(y)>>
  IN  Sign(x) * Sign(y) * long[p][1]

Remainder(x, y) == x - Quot(x, y) * y

(* from_bc_num and to_bc_num: from one count of digits to another. *)
Rescale(value, from, to) == IF to >= from THEN value * pow10(to - from) ELSE Quot(value, pow10(from - to))

(* Division by a product is division by one factor after the other. *)
OverAll(x, factors) ==
  LET over[i \in 0..Len(factors)] == IF i = 0 THEN x ELSE Quot(over[i - 1], factors[i]) IN over[Len(factors)]

UpTo(k) == [d \in 1..k |-> d]

(* The loop of every series: numerators that grow by a ratio, and terms, the numerators     *)
(* over products, that are added, or added and subtracted in turn, until one is zero.       *)
Series(first, ratio, p, alternating, products) ==
  LET turn[i \in 0..MaxTerms] ==
        IF i = 0 THEN [num |-> first, term |-> OverAll(first, products[0]), total |-> 0]
        ELSE LET t == turn[i - 1]  num == Times(t.num, ratio, p)
             IN  IF t.term = 0 THEN t
                 ELSE [num |-> num, term |-> OverAll(num, products[i]),
                       total |-> IF alternating /\ i % 2 = 0 THEN t.total - t.term ELSE t.total + t.term]
  IN  turn[MaxTerms].total

OddNumbers     == [i \in 0..MaxTerms |-> <<2 * i + 1>>]
OddFactorials  == [i \in 0..MaxTerms |-> UpTo(2 * i + 1)]
EvenFactorials == [i \in 0..MaxTerms |-> UpTo(2 * i)]
Factorials     == [i \in 0..MaxTerms |-> UpTo(i)]
-----------------------------------------------------------------------------
(* Sine, cosine and arctangent *)

guarded(p) == p + SeriesGuard

atan_tiny(x, p) == Series(x, Square(x, p), p, TRUE, OddNumbers)

(* pi by its digits. *)
get_pi == [p \in 0..WordMax |-> 4 * (4 * atan_tiny(Quot(2 * pow10(p), 10), p) - atan_tiny(Quot(pow10(p), 239), p))]

IntDigits(x, p) == DigitCount(Abs(x) \div pow10(p))

(* Mutant of IntoPeriod: the remainder is folded to the wrong side. *)
IntoPeriodMirrored(r, pi) == IF Abs(r) > pi THEN Sign(r) * 2 * pi - r ELSE r

IntoPeriod(r, pi) == IF r > pi THEN r - 2 * pi ELSE IF r < -pi THEN r + 2 * pi ELSE r

(* x less multiples of 2 pi, computed with as many more digits as x has before the point. *)
reduce_angle(x, p) ==
  LET work == guarded(p) + IntDigits(x, p)
      pi   == get_pi[work]
  IN  Quot(IntoPeriod(Remainder(x * pow10(work - p), 2 * pi), pi), pow10(IntDigits(x, p)))

decimal_sin(x, p) ==
  Quot(Series(reduce_angle(x, p), Square(reduce_angle(x, p), guarded(p)), guarded(p), TRUE, OddFactorials),
       pow10(SeriesGuard))

decimal_cos(x, p) ==
  Quot(Series(pow10(guarded(p)), Square(reduce_angle(x, p), guarded(p)), guarded(p), TRUE, EvenFactorials),
       pow10(SeriesGuard))

(* A large argument is inverted, and four times atan(x) is taken to be 2 atan(x / (1 + sqrt(1 + x^2))). *)
decimal_atan(x, p) ==
  LET q      == guarded(p)
      y      == Abs(x) * pow10(SeriesGuard)
      invert == y > pow10(q)
      half[i \in 0..4] ==
        IF i = 0 THEN IF invert THEN Over(pow10(q), y, q) ELSE y
        ELSE LET h == half[i - 1]
             IN  Over(h, pow10(q) + Root((pow10(q) + Square(h, q)) * pow10(q)), q)
      value  == 16 * atan_tiny(half[4], q)
  IN  IF x = 0 THEN 0
      ELSE Quot(Sign(x) * (IF invert THEN Quot(get_pi[q], 2) - value ELSE value), pow10(SeriesGuard))
-----------------------------------------------------------------------------
(* Logarithm and exponential *)

compute_ln2 ==
  [p \in 0..WordMax |-> LET y == Quot(pow10(p), 3) IN 2 * Series(y, Square(y, p), p, FALSE, OddNumbers)]

(* A number as m * 2^k with m near one: shifted there by its number of bits, then doubled *)
(* as long as it is below the threshold.                                                    *)
NearOne(value, p) ==
  LET shift     == Width(value, 2) - Quot(p * 3321928, 1000000)
      near      == IF shift >= 0 THEN value \div Powers(2)[shift] ELSE value * Powers(2)[-shift]
      threshold == Quot(707 * pow10(p), 1000)
      doublings == CHOOSE d \in 0..threshold :
                     /\ near * Powers(2)[d] >= threshold
                     /\ d > 0 => near * Powers(2)[d - 1] < threshold
  IN  [m |-> near * Powers(2)[doublings], k |-> shift - doublings]

(* Mutant of decimal_ln: the power of two is taken from the number of bits alone. *)
decimal_ln_bits(x, precision) ==
  LET p == precision + GuardDigits
      n == NearOne(x * pow10(GuardDigits), p)
      y == Over(n.m - pow10(p), n.m + pow10(p), p)
      k == Width(x * pow10(GuardDigits), 2) - Quot(p * 3321928, 1000000)
  IN  Quot(2 * Series(y, Square(y, p), p, FALSE, OddNumbers) + compute_ln2[p] * k, pow10(GuardDigits))

decimal_ln(x, precision) ==
  LET p == precision + GuardDigits
      n == NearOne(x * pow10(GuardDigits), p)
      y == Over(n.m - pow10(p), n.m + pow10(p), p)
  IN  Quot(2 * Series(y, Square(y, p), p, FALSE, OddNumbers) + compute_ln2[p] * n.k, pow10(GuardDigits))

(* The power of two taken out of e^x; one that does not fit in a word counts as the largest. *)
TwoPower(x, precision) ==
  LET p == precision + GuardDigits  n == (Abs(x) * pow10(GuardDigits)) \div compute_ln2[p]
  IN  IF n >= WordMax THEN WordMax ELSE n

decimal_exp(x, precision) ==
  LET p     == precision + GuardDigits
      value == Abs(x) * pow10(GuardDigits)
      n     == value \div compute_ln2[p]
      total == Series(pow10(p), value - compute_ln2[p] * n, p, FALSE, Factorials)
      power == IF TwoPower(x, precision) # WordMax THEN total * Powers(2)[n] ELSE 0
  IN  Quot(IF x < 0 THEN Over(pow10(p), power, p) ELSE power, pow10(GuardDigits))
-----------------------------------------------------------------------------
(* The functions of the language, on the argument x at scale g; n is the order of j. *)

GuardPrec(x, g, extra) == Larger(x.scale, g) + extra + GuardDigits

IntApprox(x) == LET i == Abs(Quot(x.coeff, pow10(x.scale))) IN IF i <= LongMax THEN i ELSE 0

ExtraPrec(f, x) == IF f = "e" THEN IntApprox(x) \div 2 ELSE 0

Order(n) == IF Exponent(n) \in -MaxExponent - 1..MaxExponent THEN Exponent(n) ELSE 0

(* Mutant of NegativeOrderParity: the sign of an odd negative order is forgotten. *)
NegativeOrderUnsigned(n) == [order |-> Abs(n), sign |-> 1]

NegativeOrderParity(n) == [order |-> Abs(n), sign |-> IF n < 0 /\ Abs(n) % 2 = 1 THEN -1 ELSE 1]

bessel(n, x, p) ==
  LET k     == NegativeOrderParity(n)
      x_half == Quot(x, 2)
      products == [m \in 0..MaxTerms |-> UpTo(m) \o UpTo(k.order + m)]
      term_factor[i \in 0..k.order] == IF i = 0 THEN pow10(p) ELSE Times(term_factor[i - 1], x_half, p)
  IN  IF x = 0 THEN IF n = 0 THEN pow10(p) ELSE 0
      ELSE k.sign * Series(term_factor[k.order], Square(x_half, p), p, TRUE, products)

MathResult(f, n, x, g) ==
  LET p     == GuardPrec(x, g, ExtraPrec(f, x))
      dec_x == Rescale(x.coeff, x.scale, p)
      value == CASE f = "s" -> decimal_sin(dec_x, p)
                 [] f = "c" -> decimal_cos(dec_x, p)
                 [] f = "a" -> decimal_atan(dec_x, p)
                 [] f = "l" -> decimal_ln(dec_x, p)
                 [] f = "e" -> decimal_exp(dec_x, p)
                 [] f = "j" -> bessel(Order(n), dec_x, p)
  IN  BCNum(IF f = "l" /\ dec_x <= 0 THEN (1 - pow10(g)) * pow10(g) ELSE Rescale(value, p, g), g)

MathFunctions == {"s", "c", "a", "l", "e", "j"}

(* The largest power of ten a call asks for. *)
Digits(f, x, g) ==
  LET p == GuardPrec(x, g, ExtraPrec(f, x))
  IN  CASE f \in {"s", "c"} -> guarded(p) + IntDigits(Rescale(x.coeff, x.scale, p), p)
        [] f = "a" -> guarded(p)
        [] f \in {"l", "e"} -> p + GuardDigits
        [] f = "j" -> p

(* pow10 of more than a word, 1 / 0 when the power of two was too large, -i64::MIN. *)
Panics(f, n, x, g) ==
  \/ Digits(f, x, g) > WordMax
  \/ /\ f = "e" /\ x.coeff < 0
     /\ LET p == GuardPrec(x, g, ExtraPrec(f, x)) IN TwoPower(Rescale(x.coeff, x.scale, p), p) = WordMax
  \/ f = "j" /\ Order(n) = -MaxExponent - 1

(* Bounds: powers of angles up to 2.4, and of halves of 4, fit in the integers of TLC. *)
InBounds(f, x, g) ==
  CASE f \in {"s", "c"} ->
         LET p == GuardPrec(x, g, 0)
         IN  \/ guarded(p) <= 2
             \/ 10 * Abs(reduce_angle(Rescale(x.coeff, x.scale, p), p)) <= 24 * pow10(guarded(p))
    [] f = "j" -> Abs(x.coeff) <= 4 * pow10(x.scale)
    [] OTHER -> TRUE

(* The call of a library function on the last result, with the stored number as an order. *)
CallMath(f) ==
  /\ ~Panics(f, b, a, scale) /\ InBounds(f, a, scale)
  /\ a' = MathResult(f, b, a, scale)
  /\ Abs(a'.coeff) <= MaxCoeff
  /\ UNCHANGED <<b, scale>>

MathNext == Next \/ \E f \in MathFunctions : CallMath(f)

MathSpec == Init /\ [][MathNext]_vars
-----------------------------------------------------------------------------
(* Properties. COMPATIBILITY.md section 3.4 promises the exact value cut off at the scale, *)
(* so that every value is less than a unit of the scale from the exact one; the equations  *)
(* below are what exact values satisfy, each with the units its terms may be off.           *)

Value(f, n, x) == MathResult(f, n, x, scale).coeff
Calls(f, n, x) == ~Panics(f, n, x, scale) /\ InBounds(f, x, scale)
Near(x, y, units) == Abs(x - y) <= units

(* v, sines and cosines by argument, has those of z = x + y that its terms give. *)
AngleAdded(v, x, y, z, unit) ==
  /\ Near(unit * v["s", z], v["s", x] * v["c", y] + v["c", x] * v["s", y], 6 * unit)
  /\ Near(unit * v["c", z], v["c", x] * v["c", y] - v["s", x] * v["s", y], 6 * unit)

(* x is the tangent of an angle, to the last digits of its sine and cosine. *)
HasTangent(v, x) == Near(v["s"] * pow10(x.scale), x.coeff * v["c"], 3 * (Abs(x.coeff) + pow10(x.scale)))

Tangent(angle) == HasTangent([f \in {"s", "c"} |-> Value(f, b, angle)], a)

(* The sine and cosine of a sum are those of its terms combined, whatever multiples of 2 pi *)
(* are taken off the three angles; and x is the tangent of its arctangent.                  *)
AnglesAdd ==
  LET sum == Sum(a, b, 1)
  IN  /\ (\A x \in {a, b, sum} : Calls("s", b, x)) =>
           AngleAdded([f \in {"s", "c"}, x \in {a, b, sum} |-> Value(f, b, x)], a, b, sum, pow10(scale))
      /\ Tangent(MathResult("a", b, a, scale))

(* An exponential whose power of two fits a word. *)
Fits(x) ==
  /\ Calls("e", b, x)
  /\ LET p == GuardPrec(x, scale, ExtraPrec("e", x)) IN TwoPower(Rescale(x.coeff, x.scale, p), p) # WordMax

ExponentialAdded(e, x, y, z, unit) == Near(unit * e[z], e[x] * e[y], e[x] + e[y] + 2 * unit)

GivesBack(e, x, unit) == Near(e * pow10(x.scale), x.coeff * unit, 2 * (x.coeff + pow10(x.scale)))

PowerOf(logarithm) == Fits(logarithm) => GivesBack(Value("e", b, logarithm), a, pow10(scale))

(* The exponential of a sum is the product of those of its terms, and the logarithm of a    *)
(* positive number is the power of e that gives it back, as far as powers of two fit a word.*)
LogarithmsInvert ==
  LET sum == Sum(a, b, 1)
  IN  /\ (\A x \in {a, b, sum} : Fits(x)) =>
           ExponentialAdded([x \in {a, b, sum} |-> Value("e", b, x)], a, b, sum, pow10(scale))
      /\ a.coeff > 0 => PowerOf(MathResult("l", b, a, scale))

(* j, by order, at x. *)
OrdersRelate(j, n, x) ==
  Near(x.coeff * (j[n - 1] + j[n + 1]), 2 * n * j[n] * pow10(x.scale),
       4 * (Abs(x.coeff) + (Abs(n) + 1) * pow10(x.scale)))

(* Bessel functions of neighbouring orders, negative ones among them, satisfy               *)
(* x (J_(n-1)(x) + J_(n+1)(x)) = 2 n J_n(x).                                                *)
BesselOrders ==
  \A n \in 1 - MaxExponent..MaxExponent - 1 :
    n = Exponent(b) /\ Calls("j", BCNum(n, 0), a) =>
      OrdersRelate([m \in n - 1..n + 1 |-> Value("j", BCNum(m, 0), a)], n, a)

(* COMPATIBILITY.md:159-162: the exact value "must hold for any argument magnitude whose    *)
(* result fits in memory".  e(x) of a negative x is less than one (math.rs 814), and J_n(x) *)
(* is at most 1/2 for x above 0 and up to 1, and an order n of any size (math.rs 900).       *)
AnyMagnitude ==
  /\ a.coeff < 0 => ~Panics("e", b, a, scale) /\ Value("e", b, a) \in 0..pow10(scale)
  /\ Exponent(b) > MaxExponent /\ a.coeff \in 1..pow10(a.scale) - 1 =>
       ~Panics("j", b, a, scale) /\ 2 * Abs(Value("j", b, a)) <= pow10(scale)
=============================================================================
