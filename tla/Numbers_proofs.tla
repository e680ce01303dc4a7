--------------------------- MODULE Numbers_proofs ---------------------------
(***************************************************************************)
(* No sequence of operations leads to a scale above BC_SCALE_MAX, and no   *)
(* count of digits exceeds a 32-bit word (COMPATIBILITY.md section 2);     *)
(* results are exact but for the digits cut off, and output tells numbers  *)
(* apart, also those the library of mathematics computes.                  *)
(***************************************************************************)
EXTENDS MathLib, WellFoundedInduction, TLAPS

Scales == 0..BC_SCALE_MAX

(* The kernels, for scales that are in range. *)
LEMMA KernelsInRange ==
  ASSUME NEW x \in Scales, NEW y \in Scales, NEW g \in Scales, NEW exact \in Scales
  PROVE  /\ AddSubScales(x, y).scale \in Scales
         /\ MulScaleAndShift(x, y, g).scale \in Scales
         /\ DivScaleAndShift(x, y, g).scale \in Scales
         /\ PowScaleAndShift(exact, x, g).scale \in Scales
         /\ SqrtScaleAndShift(x, g).scale \in Scales
BY NumbersConstantsOK
   DEF Scales, Larger, Lesser, AddSubScales, MulScaleAndShift, DivScaleAndShift, PowScaleAndShift,
       SqrtScaleAndShift

LEMMA SumInRange ==
  ASSUME NEW x, NEW y, NEW sign, x.scale \in Scales, y.scale \in Scales
  PROVE  Sum(x, y, sign).scale \in Scales
BY NumbersConstantsOK DEF Sum, BCNum, AddSubScales, Larger, Scales

LEMMA DivInRange ==
  ASSUME NEW x, NEW y, NEW g \in Scales
  PROVE  Div(x, y, g).scale \in Scales
BY DEF Div, BCNum, DivScaleAndShift

(* A remainder has the scale of the product it subtracts or of its left operand: the check  *)
(* on g + scale(y) is what keeps it in range.                                               *)
LEMMA ModInRange ==
  ASSUME NEW x, NEW y, NEW g \in Scales, x.scale \in Scales, y.scale \in Scales,
         g + y.scale <= BC_SCALE_MAX
  PROVE  Mod(x, y, g).scale \in Scales
<1> DEFINE q == Div(x, y, g)  p == BCNum(q.coeff * y.coeff, q.scale + y.scale)
<1>1. q.scale = g
  BY DEF Div, BCNum, DivScaleAndShift
<1>2. p.scale \in Scales
  BY <1>1, NumbersConstantsOK, SMTT(30) DEF BCNum, Scales
<1> HIDE DEF p
<1>3. Sum(x, p, -1).scale \in Scales
  BY <1>2, SumInRange
<1> QED
  BY <1>3 DEF Mod, p

(* A power has the exact scale only as far as try_pow has found it in range. *)
LEMMA PowInRange ==
  ASSUME NEW x, NEW y, NEW g \in Scales, x.scale \in Scales, ~Refused("^", x, y, g)
  PROVE  /\ ExactScale(x, y) \in Scales
         /\ Pow(x, y, g).scale \in Scales
<1> DEFINE Bounded == Exponent(y) \in -MaxExponent - 1..MaxExponent
<1>0. Bounded /\ ~(ExactScale(x, y) > BC_SCALE_MAX)
  BY Zenon DEF Refused
<1>1. Exponent(y) \in Int
  BY <1>0, NumbersConstantsOK
<1>2. Abs(Exponent(y)) \in Nat
  BY <1>1 DEF Abs
<1>3. ExactScale(x, y) \in Nat
  BY <1>2 DEF ExactScale, Scales
<1>4. ExactScale(x, y) \in Scales
  BY <1>0, <1>3, NumbersConstantsOK DEF Scales
<1>5. PowScaleAndShift(ExactScale(x, y), x.scale, g).scale \in Scales
  BY <1>4, KernelsInRange
<1>6. Div(BCNum(1, 0), BCNum(Power(x.coeff, Abs(Exponent(y))), ExactScale(x, y)), g).scale \in Scales
  BY DivInRange
<1> QED
  BY <1>4, <1>5, <1>6 DEF Pow, BCNum

(* Whatever is computed from numbers in range is in range, if it is not refused. *)
LEMMA ResultInRange ==
  ASSUME NEW op \in Operations, NEW x, NEW y, NEW g \in Scales,
         x.scale \in Scales, y.scale \in Scales, ~Refused(op, x, y, g)
  PROVE  Result(op, x, y, g).scale \in Scales
<1>1. CASE op = "+"
  BY <1>1, SumInRange DEF Result
<1>2. CASE op = "-"
  BY <1>2, SumInRange DEF Result
<1>3. CASE op = "*"
  <2>1. MulScaleAndShift(x.scale, y.scale, g).scale \in Scales
    BY KernelsInRange
  <2> QED
    BY <1>3, <2>1 DEF Result, Mul, BCNum
<1>4. CASE op = "/"
  BY <1>4, DivInRange DEF Result
<1>5. CASE op = "%"
  <2>1. g + y.scale <= BC_SCALE_MAX
    BY <1>5, NumbersConstantsOK DEF Refused, Scales
  <2> QED
    BY <1>5, <2>1, ModInRange DEF Result
<1>6. CASE op = "^"
  BY <1>6, PowInRange DEF Result
<1>7. CASE op = "sqrt"
  <2>1. SqrtScaleAndShift(x.scale, g).scale \in Scales
    BY KernelsInRange
  <2> QED
    BY <1>7, <2>1 DEF Result, Sqrt, BCNum
<1>8. CASE op \in {"length", "scale"} \union Relations
  <2>1. Result(op, x, y, g).scale = 0
    BY <1>8 DEF Result, Length, Relate, BCNum, Relations
  <2> QED
    BY <2>1, NumbersConstantsOK DEF Scales
<1>9. CASE op = "neg"
  BY <1>9 DEF Result, BCNum
<1>10. CASE op \in {"++", "--"}
  <2>1. BCNum(1, 0).scale \in Scales
    BY NumbersConstantsOK DEF BCNum, Scales
  <2> QED
    BY <1>10, <2>1, SumInRange DEF Result
<1> QED
  BY <1>1, <1>2, <1>3, <1>4, <1>5, <1>6, <1>7, <1>8, <1>9, <1>10 DEF Operations
-----------------------------------------------------------------------------
(* No operation, stored result, constant or assignment takes a scale out of range. *)
LEMMA NextKeepsScales == ScalesBounded /\ [Next]_vars => ScalesBounded'
<1> SUFFICES ASSUME ScalesBounded, [Next]_vars
             PROVE  a'.scale \in Scales /\ b'.scale \in Scales /\ scale' \in Scales
  BY DEF ScalesBounded, Scales
<1> USE DEF Scales
<1>1. a.scale \in Scales /\ b.scale \in Scales /\ scale \in Scales
  BY DEF ScalesBounded
<1>2. ASSUME NEW op \in Operations, Compute(op)
      PROVE  a'.scale \in Scales /\ UNCHANGED <<b, scale>>
  BY <1>1, <1>2, ResultInRange DEF Compute
<1>3. CASE Store
  BY <1>1, <1>3 DEF Store
<1>4. CASE StoreScale
  <2>1. Saturated(Abs(Quot(a.coeff, pow10(a.scale)))) \in Nat
    BY NumbersConstantsOK DEF Saturated
  <2>2. scale' \in Scales
    BY <1>4, <2>1, NumbersConstantsOK DEF StoreScale, ClampRegister
  <2> QED
    BY <1>1, <1>4, <2>2 DEF StoreScale
<1>5. ASSUME NEW lit \in Literals, NEW base \in Bases, Literal(lit, base)
      PROVE  b'.scale \in Scales /\ UNCHANGED <<a, scale>>
  <2>1. Len(lit.frac) \in Nat
    BY NumbersConstantsOK
  <2>2. b'.scale = Len(lit.frac)
    BY <1>5 DEF Literal, FromString, BCNum
  <2> QED
    BY <1>5, <2>1, <2>2, NumbersConstantsOK DEF Literal
<1>6. CASE UNCHANGED vars
  BY <1>1, <1>6 DEF vars
<1> QED
  BY <1>1, <1>2, <1>3, <1>4, <1>5, <1>6 DEF Next

LEMMA InitialScales == Init => ScalesBounded
BY NumbersConstantsOK DEF Init, ScalesBounded, BCNum

(* ScalesBounded holds in every reachable state (COMPATIBILITY.md section 2): it is        *)
(* inductive as it stands.                                                                  *)
THEOREM ScalesStayBounded == Spec => []ScalesBounded
BY InitialScales, NextKeepsScales, PTL DEF Spec

(* The shifts of the kernels, for scales that are in range. *)
LEMMA ShiftsInWord ==
  ASSUME NEW x \in Scales, NEW y \in Scales, NEW g \in Scales, NEW exact \in Scales
  PROVE  /\ {x, x + y, 2 * Larger(x, g), SqrtScaleAndShift(x, g).shift} \subseteq 0..WordMax
         /\ {AddSubScales(x, y).left, AddSubScales(x, y).right} \subseteq 0..WordMax
         /\ {RelationalScaleShifts(x, y).left, RelationalScaleShifts(x, y).right} \subseteq 0..WordMax
         /\ MulScaleAndShift(x, y, g).shift \in 0..WordMax
         /\ Abs(DivScaleAndShift(x, y, g).shift) \in 0..WordMax
         /\ PowScaleAndShift(exact, x, g).shift \in 0..WordMax
<1> USE NumbersConstantsOK DEF Scales
<1>0. x + y \in 0..WordMax /\ x \in 0..WordMax
  OBVIOUS
<1>1. {x, x + y, 2 * Larger(x, g), SqrtScaleAndShift(x, g).shift} \subseteq 0..WordMax
  <2>1. 2 * Larger(x, g) \in 0..WordMax
    BY DEF Larger
  <2>2. SqrtScaleAndShift(x, g).shift \in 0..WordMax
    BY SMTT(30) DEF SqrtScaleAndShift, Larger
  <2> QED
    BY <1>0, <2>1, <2>2
<1>2. {AddSubScales(x, y).left, AddSubScales(x, y).right} \subseteq 0..WordMax
  BY DEF AddSubScales, Larger
<1>3. {RelationalScaleShifts(x, y).left, RelationalScaleShifts(x, y).right} \subseteq 0..WordMax
  BY DEF RelationalScaleShifts, Larger
<1>4. MulScaleAndShift(x, y, g).shift \in 0..WordMax
  BY DEF MulScaleAndShift, Larger, Lesser
<1>5. Abs(DivScaleAndShift(x, y, g).shift) \in 0..WordMax
  BY DEF DivScaleAndShift, Abs
<1>6. PowScaleAndShift(exact, x, g).shift \in 0..WordMax
  BY DEF PowScaleAndShift, Larger, Lesser
<1> QED
  BY <1>1, <1>2, <1>3, <1>4, <1>5, <1>6

(* Numbers whose scales are in range ask for no more digits than a 32-bit word can count.   *)
LEMMA DigitSumsInRange ==
  ASSUME NEW op \in Operations, NEW x, NEW y, NEW g \in Scales,
         x.scale \in Scales, y.scale \in Scales, ~Refused(op, x, y, g)
  PROVE  DigitSums(op, x, y, g) \subseteq 0..WordMax
<1>0. 0 \in Scales
  BY NumbersConstantsOK DEF Scales
<1>1. CASE op = "*"
  BY <1>1, ShiftsInWord DEF DigitSums
<1>2. CASE op = "/"
  BY <1>2, ShiftsInWord DEF DigitSums
<1>3. CASE op = "%"
  <2>1. g + y.scale \in Scales
    BY <1>3, NumbersConstantsOK, SMTT(30) DEF Refused, Scales
  <2>2. /\ Abs(DivScaleAndShift(x.scale, y.scale, g).shift) \in 0..WordMax
        /\ g + y.scale \in 0..WordMax
        /\ {AddSubScales(x.scale, g + y.scale).left, AddSubScales(x.scale, g + y.scale).right}
             \subseteq 0..WordMax
    BY <2>1, ShiftsInWord
  <2> QED
    BY <1>3, <2>2 DEF DigitSums
<1>4. CASE op = "^"
  <2>1. ExactScale(x, y) \in Scales
    BY <1>4, PowInRange
  <2>2. /\ y.scale \in 0..WordMax
        /\ Abs(DivScaleAndShift(0, ExactScale(x, y), g).shift) \in 0..WordMax
        /\ PowScaleAndShift(ExactScale(x, y), x.scale, g).shift \in 0..WordMax
    BY <1>0, <2>1, ShiftsInWord
  <2> QED
    BY <1>4, <2>2 DEF DigitSums
<1>5. CASE op = "sqrt"
  BY <1>5, ShiftsInWord DEF DigitSums
<1>6. CASE op \in {"length", "scale", "neg"}
  BY <1>6, ShiftsInWord DEF DigitSums
<1>7. CASE op \in {"+", "-", "++", "--"} \union Relations
  BY <1>7, ShiftsInWord DEF DigitSums, Relations
<1> QED
  BY <1>1, <1>2, <1>3, <1>4, <1>5, <1>6, <1>7 DEF Operations

(* Scales in range are all that the counts of digits need. *)
LEMMA ScalesGiveDigits == ScalesBounded => DigitSumsFit
BY DigitSumsInRange DEF ScalesBounded, DigitSumsFit, Scales

(* DigitSumsFit holds in every reachable state: the expect in pow10 never fails and no sum  *)
(* of scales wraps around on a 32-bit target.                                               *)
THEOREM DigitSumsStayInWord == Spec => []DigitSumsFit
BY ScalesGiveDigits, ScalesStayBounded, PTL
-----------------------------------------------------------------------------
(* The library of mathematics keeps what the numbers rely on: a call gives its result at    *)
(* the scale of the register, whatever the guard digits and the digits of the argument, so  *)
(* that the scale kernels keep their range.                                                 *)

(* The result of every call has the scale it was called with, also that of l at zero or     *)
(* below, which is not computed by the series.                                              *)
LEMMA MathScale ==
  ASSUME NEW f, NEW n, NEW x, NEW g
  PROVE  MathResult(f, n, x, g).scale = g
BY DEF MathResult, BCNum

LEMMA MathNextKeepsScales == ScalesBounded /\ [MathNext]_vars => ScalesBounded'
<1> SUFFICES ASSUME ScalesBounded, [MathNext]_vars
             PROVE  ScalesBounded'
  OBVIOUS
<1>1. ASSUME NEW f \in MathFunctions, CallMath(f)
      PROVE  ScalesBounded'
  <2>1. a'.scale = scale /\ b' = b /\ scale' = scale
    BY <1>1, MathScale DEF CallMath
  <2> QED
    BY <2>1 DEF ScalesBounded
<1>2. CASE [Next]_vars
  BY <1>2, NextKeepsScales
<1> QED
  BY <1>1, <1>2 DEF MathNext

(* No sequence of operations and calls of s, c, a, l, e and j leads to a scale outside      *)
(* 0..BC_SCALE_MAX (COMPATIBILITY.md section 2).                                            *)
THEOREM MathScalesStayBounded == MathSpec => []ScalesBounded
BY InitialScales, MathNextKeepsScales, PTL DEF MathSpec

(* Numbers computed by the library may be used by every operation: no count of digits       *)
(* exceeds a 32-bit word and the expect in pow10 does not fail.                             *)
THEOREM MathDigitSumsStayInWord == MathSpec => []DigitSumsFit
BY ScalesGiveDigits, MathScalesStayBounded, PTL
-----------------------------------------------------------------------------
(* Division of BigInt leaves less than the divisor, with the sign of the dividend. *)
LEMMA RemainderSmall ==
  ASSUME NEW x \in Int, NEW y \in Nat \ {0}
  PROVE  Remainder(x, y) \in 1 - y..y - 1
<1>1. /\ \A m \in Nat : m \div y \in Nat /\ m % y \in 0..(y - 1)
      /\ \A m \in Nat : m = y * (m \div y) + (m % y)
  OBVIOUS
<1>2. Sign(y) = 1 /\ Abs(y) = y
  BY DEF Sign, Abs
<1>3. CASE x >= 0
  <2>1. Abs(x) = x /\ x \in Nat /\ (Sign(x) = 1 \/ x = 0)
    BY <1>3 DEF Abs, Sign
  <2>2. x - (x \div y) * y = x % y
    BY SMTT(30), <1>1, <2>1
  <2>3. Quot(x, y) = x \div y
    BY <1>1, <1>2, <2>1 DEF Quot, Sign
  <2> QED
    BY <1>1, <2>1, <2>2, <2>3 DEF Remainder
<1>4. CASE x < 0
  <2>1. Abs(x) = -x /\ -x \in Nat /\ Sign(x) = -1
    BY <1>4 DEF Abs, Sign
  <2>2. Quot(x, y) = -((-x) \div y)
    BY <1>1, <1>2, <2>1 DEF Quot
  <2> DEFINE q == (-x) \div y  r == (-x) % y
  <2>3. q \in Nat /\ r \in 0..(y - 1) /\ -x = y * q + r
    BY <1>1, <2>1
  <2>4. Quot(x, y) = -q
    BY <2>2
  <2> HIDE DEF q, r
  <2>5. x - (-q) * y = -r
    BY <2>3
  <2> QED
    BY <2>3, <2>4, <2>5 DEF Remainder
<1> QED
  BY <1>3, <1>4

(* reduce_angle returns an angle in [-pi, pi], in the digits it computes with, whatever the *)
(* argument and whatever the digits of pi turn out to be: one turn to either side is enough.*)
THEOREM AngleIsReduced ==
  ASSUME NEW x \in Int, NEW pi \in Nat \ {0}
  PROVE  IntoPeriod(Remainder(x, 2 * pi), pi) \in -pi..pi
<1>1. 2 * pi \in Nat \ {0}
  OBVIOUS
<1>2. Remainder(x, 2 * pi) \in 1 - 2 * pi..2 * pi - 1
  BY <1>1, RemainderSmall
<1> QED
  BY <1>2 DEF IntoPeriod

-----------------------------------------------------------------------------
(* What the operations compute. Powers, numbers of digits, roots and products are functions *)
(* defined by recursion: each exists because its argument gets smaller (Descent).           *)

LEMMA Least ==
  ASSUME NEW S \in SUBSET Nat, S # {}
  PROVE  \E n \in S : \A m \in S : n <= m
<1> DEFINE R == OpToRel(<, Nat)
<1>1. IsWellFoundedOn(R, Nat)
  BY NatLessThanWellFounded
<1>2. PICK n \in S : \A m \in S : ~ (<<m, n>> \in R)
  <2> HIDE DEF R
  <2> QED
    BY <1>1, WFMin
<1>3. \A m \in S : ~(m < n)
  BY <1>2 DEF R, OpToRel
<1> QED
  BY <1>3

LEMMA Induction ==
  ASSUME NEW S, 0 \in S, \A n \in Nat : n \in S => n + 1 \in S
  PROVE  Nat \subseteq S
<1> SUFFICES ASSUME NEW k \in Nat, k \notin S
             PROVE  FALSE
  OBVIOUS
<1> DEFINE T == {n \in Nat : n \notin S}
<1>1. PICK n \in T : \A m \in T : n <= m
  <2>1. T \in SUBSET Nat /\ T # {}
    OBVIOUS
  <2> HIDE DEF T
  <2> QED
    BY <2>1, Least
<1>2. n # 0 /\ n \in Nat /\ n - 1 \in Nat
  BY <1>1
<1>3. n - 1 \in S
  BY <1>1, <1>2
<1> QED
  BY <1>1, <1>2, <1>3

(* f is computed up to n: first at zero, and at m from its value at down[m]. *)
Descends(S, first, down, h, n, f) ==
  /\ f[0] = first
  /\ \A m \in 0..n : f[m] \in S
  /\ \A m \in 1..n : f[m] = h[m][f[down[m]]]

Downward(down) == \A m \in Nat : m # 0 => down[m] \in 0..(m - 1)
Keeps(h, S) == \A m \in Nat, x \in S : h[m][x] \in S

LEMMA DescentSteps ==
  ASSUME NEW S, NEW first \in S, NEW down, Downward(down), NEW h, Keeps(h, S),
         NEW n \in Nat, NEW f, Descends(S, first, down, h, n, f)
  PROVE  \E g : Descends(S, first, down, h, n + 1, g)
<1>1. PICK x : x = h[n + 1][f[down[n + 1]]]
  OBVIOUS
<1>2. PICK g : g = [m \in 0..(n + 1) |-> IF m = n + 1 THEN x ELSE f[m]]
  OBVIOUS
<1>3. down[n + 1] \in 0..n
  BY DEF Downward
<1>4. f[down[n + 1]] \in S
  BY <1>3 DEF Descends
<1>5. x \in S
  <2>1. n + 1 \in Nat
    OBVIOUS
  <2> QED
    BY <1>1, <1>4, <2>1, Zenon DEF Keeps
<1>6. \A m \in 0..n : g[m] = f[m] /\ f[m] \in S
  <2>1. \A m \in 0..n : m \in 0..(n + 1) /\ m # n + 1
    OBVIOUS
  <2> QED
    BY <1>2, <2>1 DEF Descends
<1>7. g[n + 1] = x
  BY <1>2
<1>8. \A m \in 0..(n + 1) : g[m] \in S
  <2>1. \A m \in 0..(n + 1) : m \in 0..n \/ m = n + 1
    OBVIOUS
  <2> QED
    BY <2>1, <1>5, <1>6, <1>7
<1>9. ASSUME NEW m \in 1..(n + 1)
      PROVE  g[m] = h[m][g[down[m]]]
  <2>1. CASE m = n + 1
    BY <2>1, <1>1, <1>3, <1>6, <1>7
  <2>2. CASE m # n + 1
    <3>1. m \in 1..n /\ m \in 0..n /\ down[m] \in 0..n
      <4>1. m \in Nat /\ m # 0 /\ m \in 1..n /\ m \in 0..n
        BY <2>2
      <4>2. down[m] \in 0..(m - 1)
        BY <4>1 DEF Downward
      <4> QED
        BY <4>1, <4>2
    <3>2. f[m] = h[m][f[down[m]]]
      BY <3>1 DEF Descends
    <3> QED
      BY <1>6, <3>1, <3>2
  <2> QED
    BY <2>1, <2>2
<1>10. g[0] = first
  <2>1. 0 \in 0..n
    OBVIOUS
  <2> QED
    BY <1>6, <2>1 DEF Descends
<1> QED
  BY <1>8, <1>9, <1>10 DEF Descends

LEMMA DescentUnique ==
  ASSUME NEW S, NEW first, NEW down, Downward(down), NEW h,
         NEW n \in Nat, NEW k \in Nat, n <= k, NEW f, NEW g,
         Descends(S, first, down, h, n, f), Descends(S, first, down, h, k, g)
  PROVE  \A m \in 0..n : f[m] = g[m]
<1> DEFINE T == {m \in 0..n : f[m] # g[m]}
<1> SUFFICES ASSUME T # {}
             PROVE  FALSE
  OBVIOUS
<1>1. PICK m \in T : \A j \in T : m <= j
  <2>1. T \in SUBSET Nat
    OBVIOUS
  <2> HIDE DEF T
  <2> QED
    BY <2>1, Least
<1>2. m \in 0..n /\ f[m] # g[m] /\ \A j \in 0..n : f[j] # g[j] => m <= j
  BY <1>1
<1>3. m # 0
  BY <1>2 DEF Descends
<1>4. m \in Nat /\ m \in 1..n /\ m \in 1..k
  BY <1>2, <1>3
<1>5. down[m] \in 0..(m - 1)
  BY <1>3, <1>4 DEF Downward
<1>6. down[m] \in 0..n /\ ~(m <= down[m])
  BY <1>4, <1>5
<1>7. f[down[m]] = g[down[m]]
  BY <1>2, <1>6
<1>8. f[m] = h[m][f[down[m]]] /\ g[m] = h[m][g[down[m]]]
  BY <1>4 DEF Descends
<1> QED
  BY <1>2, <1>7, <1>8

(* A function whose value at m is computed from a smaller argument exists. *)
LEMMA Descent ==
  ASSUME NEW S, NEW first \in S, NEW down, Downward(down), NEW h, Keeps(h, S)
  PROVE  \E f \in [Nat -> S] :
           f[0] = first /\ \A m \in Nat : m # 0 => f[m] = h[m][f[down[m]]]
<1> DEFINE Up(n, f) == Descends(S, first, down, h, n, f)
           I == {n \in Nat : \E f : Up(n, f)}
<1>1. Nat \subseteq I
  <2>1. 0 \in I
    <3>1. PICK f : f = [m \in 0..0 |-> first]
      OBVIOUS
    <3>2. f[0] = first /\ \A m \in 0..0 : m = 0
      BY <3>1
    <3>3. Up(0, f)
      BY <3>2 DEF Descends
    <3> QED
      BY <3>3
  <2>2. ASSUME NEW n \in Nat, n \in I
        PROVE  n + 1 \in I
    BY <2>2, DescentSteps
  <2> HIDE DEF I
  <2> QED
    BY <2>1, <2>2, Induction
<1>2. PICK F : F = [n \in Nat |-> CHOOSE f : Up(n, f)]
  OBVIOUS
<1>3. \A n \in Nat : Up(n, F[n])
  BY <1>1, <1>2
<1> HIDE DEF Up
<1>4. PICK f : f = [n \in Nat |-> F[n][n]]
  OBVIOUS
<1>5. ASSUME NEW n \in Nat
      PROVE  f[n] \in S
  <2>1. Up(n, F[n]) /\ n \in 0..n
    BY <1>3
  <2> QED
    BY <1>4, <2>1 DEF Up, Descends
<1>6. f[0] = first
  BY <1>3, <1>4 DEF Up, Descends
<1>7. ASSUME NEW m \in Nat, m # 0
      PROVE  f[m] = h[m][f[down[m]]]
  <2>1. PICK d : d = down[m]
    OBVIOUS
  <2>2. d \in 0..(m - 1)
    BY <1>7, <2>1 DEF Downward
  <2>3. d \in Nat /\ d <= m /\ d \in 0..d /\ m \in 1..m
    BY <1>7, <2>2
  <2>4. F[d][d] = F[m][d]
    <3>1. \A j \in 0..d : F[d][j] = F[m][j]
      BY <1>3, <2>3, DescentUnique DEF Up
    <3> QED
      BY <2>3, <3>1
  <2>5. F[m][m] = h[m][F[m][d]]
    BY <1>3, <2>1, <2>3 DEF Up, Descends
  <2> QED
    BY <1>4, <2>1, <2>3, <2>4, <2>5
<1>8. f \in [Nat -> S]
  BY <1>4, <1>5
<1> QED
  BY <1>6, <1>7, <1>8

-----------------------------------------------------------------------------
(* Powers *)

LEMMA PowerSteps ==
  ASSUME NEW base \in Int
  PROVE  /\ Powers(base)[0] = 1
         /\ \A n \in Nat : Powers(base)[n] \in Int /\ Powers(base)[n + 1] = base * Powers(base)[n]
<1> DEFINE Recursion(f) == f = [n \in Nat |-> IF n = 0 THEN 1 ELSE base * f[n - 1]]
<1> DEFINE down == [m \in Nat |-> m - 1]
           h == [m \in Nat |-> [x \in Int |-> base * x]]
<1>1. \A m \in Nat : down[m] = m - 1
  OBVIOUS
<1>2. Downward(down)
  BY <1>1 DEF Downward
<1>3. \A m \in Nat, x \in Int : h[m][x] = base * x /\ base * x \in Int
  OBVIOUS
<1> HIDE DEF down, h
<1>4. Keeps(h, Int)
  BY <1>3 DEF Keeps
<1>5. PICK f \in [Nat -> Int] : f[0] = 1 /\ \A m \in Nat : m # 0 => f[m] = h[m][f[down[m]]]
  <2>1. PICK S : S = Int
    OBVIOUS
  <2>2. 1 \in S /\ Keeps(h, S)
    BY <1>4, <2>1
  <2>3. \E f \in [Nat -> S] : f[0] = 1 /\ \A m \in Nat : m # 0 => f[m] = h[m][f[down[m]]]
    BY <1>2, <2>2, Descent
  <2> QED
    BY <2>1, <2>3
<1>6. \A m \in Nat : f[m] = IF m = 0 THEN 1 ELSE base * f[m - 1]
  <2>1. ASSUME NEW m \in Nat, m # 0
        PROVE  f[m] = base * f[m - 1]
    <3>1. m - 1 \in Nat /\ down[m] = m - 1
      BY <1>1, <2>1
    <3>2. f[m - 1] \in Int
      BY <1>5, <3>1
    <3>3. f[m] = h[m][f[m - 1]]
      BY <1>5, <2>1, <3>1
    <3> QED
      BY <1>3, <3>2, <3>3
  <2> QED
    BY <1>5, <2>1
<1>7. Recursion(f)
  BY <1>5, <1>6
<1>8. Powers(base) = CHOOSE g : Recursion(g)
  BY DEF Powers
<1>9. Recursion(Powers(base))
  BY <1>7, <1>8
<1>10. PICK p : p = Powers(base)
  OBVIOUS
<1>11. \A n \in Nat : p[n] = IF n = 0 THEN 1 ELSE base * p[n - 1]
  BY <1>9, <1>10
<1>12. p[0] = 1 /\ \A n \in Nat : p[n + 1] = base * p[n]
  BY <1>11
<1>13. Nat \subseteq {n \in Nat : p[n] \in Int}
  <2> DEFINE I == {n \in Nat : p[n] \in Int}
  <2>1. 0 \in I
    BY <1>12
  <2>2. ASSUME NEW n \in Nat, n \in I
        PROVE  n + 1 \in I
    <3>1. p[n + 1] = base * p[n] /\ p[n] \in Int
      BY <1>12, <2>2
    <3> QED
      BY <3>1
  <2> HIDE DEF I
  <2>3. Nat \subseteq I
    BY <2>1, <2>2, Induction
  <2> QED
    BY <2>3 DEF I
<1> QED
  BY <1>10, <1>12, <1>13

LEMMA PowerAdds ==
  ASSUME NEW base \in Int, NEW m \in Nat, NEW n \in Nat
  PROVE  Powers(base)[m + n] = Powers(base)[m] * Powers(base)[n]
<1>1. PICK p : p = Powers(base)
  OBVIOUS
<1>2. p[0] = 1 /\ \A i \in Nat : p[i] \in Int /\ p[i + 1] = base * p[i]
  BY <1>1, PowerSteps
<1> DEFINE I == {i \in Nat : p[i + n] = p[i] * p[n]}
<1>3. 0 \in I
  BY <1>2
<1>4. ASSUME NEW i \in Nat, i \in I
      PROVE  i + 1 \in I
  <2>1. PICK x \in Int, y \in Int : x = p[i] /\ y = p[n]
    BY <1>2
  <2>2. p[i + n] = x * y /\ p[i + 1] = base * x
    BY <1>2, <1>4, <2>1
  <2>3. p[(i + n) + 1] = base * p[i + n]
    BY <1>2
  <2>4. base * (x * y) = (base * x) * y
    OBVIOUS
  <2>5. (i + 1) + n = (i + n) + 1
    OBVIOUS
  <2> QED
    BY <2>1, <2>2, <2>3, <2>4, <2>5
<1> HIDE DEF I
<1>5. Nat \subseteq I
  BY <1>3, <1>4, Induction
<1> QED
  BY <1>1, <1>5 DEF I

LEMMA PowerPositive ==
  ASSUME NEW base \in Nat \ {0}
  PROVE  \A n \in Nat : Powers(base)[n] \in Nat \ {0}
<1>1. PICK p : p = Powers(base)
  OBVIOUS
<1>2. p[0] = 1 /\ \A i \in Nat : p[i] \in Int /\ p[i + 1] = base * p[i]
  BY <1>1, PowerSteps
<1> DEFINE I == {i \in Nat : p[i] \in Nat \ {0}}
<1>3. 0 \in I
  BY <1>2
<1>4. ASSUME NEW i \in Nat, i \in I
      PROVE  i + 1 \in I
  <2>1. PICK x \in Nat \ {0} : x = p[i]
    BY <1>4
  <2>2. base * x \in Nat \ {0}
    OBVIOUS
  <2> QED
    BY <1>2, <2>1, <2>2
<1> HIDE DEF I
<1>5. Nat \subseteq I
  BY <1>3, <1>4, Induction
<1> QED
  BY <1>1, <1>5 DEF I

LEMMA Tens ==
  ASSUME NEW m \in Nat, NEW n \in Nat
  PROVE  /\ pow10(n) \in Nat \ {0} /\ pow10(0) = 1
         /\ pow10(n + 1) = 10 * pow10(n)
         /\ pow10(m + n) = pow10(m) * pow10(n)
BY PowerSteps, PowerAdds, PowerPositive DEF pow10

-----------------------------------------------------------------------------
(* Division and truncation *)

LEMMA Cancels ==
  ASSUME NEW x \in Int, NEW y \in Int, NEW q \in Nat \ {0}
  PROVE  /\ x * q <= y * q <=> x <= y
         /\ x * q < y * q <=> x < y
         /\ x * q = y * q <=> x = y
<1>1. ASSUME NEW u \in Int, NEW v \in Int, u <= v
      PROVE  u * q <= v * q
  <2>1. PICK d \in Nat : d = v - u
    BY <1>1
  <2>2. d * q \in Nat
    OBVIOUS
  <2>3. v * q = u * q + d * q
    <3>1. v = u + d
      BY <2>1
    <3>2. (u + d) * q = u * q + d * q
      OBVIOUS
    <3> QED
      BY <3>1, <3>2
  <2> QED
    BY <2>2, <2>3
<1>2. ASSUME NEW u \in Int, NEW v \in Int, u < v
      PROVE  u * q < v * q
  <2>1. u + 1 <= v /\ u + 1 \in Int
    BY <1>2
  <2>2. (u + 1) * q <= v * q
    BY <1>1, <2>1
  <2>3. (u + 1) * q = u * q + q
    OBVIOUS
  <2> QED
    BY <2>2, <2>3
<1>3. x < y \/ x = y \/ y < x
  OBVIOUS
<1>4. x * q \in Int /\ y * q \in Int
  OBVIOUS
<1> QED
  BY <1>2, <1>3, <1>4

LEMMA Division ==
  ASSUME NEW m \in Nat, NEW y \in Nat \ {0}
  PROVE  /\ m \div y \in Nat
         /\ (m \div y) * y <= m
         /\ m < (m \div y + 1) * y
<1>1. PICK q, r : q = m \div y /\ r = m % y
  OBVIOUS
<1>2. q \in Nat /\ r \in 0..(y - 1) /\ m = y * q + r
  BY <1>1
<1>3. q * y = y * q /\ (q + 1) * y = y * q + y
  BY <1>2
<1> QED
  BY <1>1, <1>2, <1>3

(* A quotient of BigInt is cut off towards zero. *)
LEMMA Quotient ==
  ASSUME NEW x \in Int, NEW y \in Nat \ {0}
  PROVE  /\ Quot(x, y) \in Int
         /\ Abs(Quot(x, y)) * y <= Abs(x)
         /\ Abs(x) < (Abs(Quot(x, y)) + 1) * y
         /\ Quot(x, y) # 0 => Sign(Quot(x, y)) = Sign(x)
<1>1. Abs(x) \in Nat /\ Abs(y) = y /\ Sign(y) = 1
  BY DEF Abs, Sign
<1>2. PICK m, q : m = Abs(x) /\ q = m \div y
  OBVIOUS
<1>3. m \in Nat /\ q \in Nat /\ q * y <= m /\ m < (q + 1) * y
  BY <1>1, <1>2, Division
<1>4. PICK s : s = Sign(x)
  OBVIOUS
<1>5. s \in {-1, 0, 1} /\ (s = 0 <=> x = 0)
  BY <1>4 DEF Sign
<1>6. Quot(x, y) = s * q
  BY <1>1, <1>2, <1>3, <1>4, <1>5 DEF Quot
<1>7. s = 0 => m = 0 /\ q = 0
  <2>1. s = 0 => m = 0
    BY <1>2, <1>5 DEF Abs
  <2>2. q = 0 \/ y <= q * y
    <3>1. q # 0 => 1 * y <= q * y
      BY <1>3, Cancels
    <3> QED
      BY <1>3, <3>1
  <2> QED
    BY <1>3, <2>1, <2>2
<1>8. Abs(s * q) = q /\ (s * q # 0 => Sign(s * q) = s) /\ s * q \in Int
  BY <1>3, <1>5, <1>7 DEF Abs, Sign
<1> QED
  BY <1>2, <1>3, <1>4, <1>6, <1>8

LEMMA QuotientSigned ==
  ASSUME NEW x \in Int, NEW y \in Int \ {0}
  PROVE  /\ Abs(y) \in Nat \ {0} /\ Sign(y) \in {-1, 1} /\ Sign(y) * Abs(y) = y /\ Sign(y) * y = Abs(y)
         /\ Quot(x, y) = Quot(Sign(y) * x, Abs(y))
<1>1. /\ Abs(y) \in Nat \ {0} /\ Sign(y) \in {-1, 1} /\ Sign(y) * Abs(y) = y /\ Sign(y) * y = Abs(y)
      /\ Abs(Abs(y)) = Abs(y) /\ Sign(Abs(y)) = 1
  BY DEF Abs, Sign
<1>2. Abs(Sign(y) * x) = Abs(x) /\ Sign(Sign(y) * x) = Sign(x) * Sign(y) /\ Sign(x) \in Int
  BY <1>1 DEF Abs, Sign
<1> QED
  BY <1>1, <1>2 DEF Quot

LEMMA AbsTimes ==
  ASSUME NEW x \in Int, NEW q \in Nat \ {0}
  PROVE  Abs(x * q) = Abs(x) * q /\ Abs(x) \in Nat /\ Sign(x * q) = Sign(x)
<1>1. CASE x >= 0
  <2>1. x * q \in Nat /\ (x # 0 => x * q # 0)
    BY <1>1
  <2> QED
    BY <1>1, <2>1 DEF Abs, Sign
<1>2. CASE x < 0
  <2>1. x * q < 0 /\ -(x * q) = (-x) * q
    <3>1. x * q < 0 * q
      BY <1>2, Cancels
    <3> QED
      BY <3>1
  <2> QED
    BY <1>2, <2>1 DEF Abs, Sign
<1> QED
  BY <1>1, <1>2

(* A quotient in units of the last digit of a number is the number cut off there. *)
LEMMA QuotientCutsOff ==
  ASSUME NEW p \in Int, NEW q \in Nat \ {0}, NEW num \in Int, NEW den \in Nat \ {0}, NEW s \in Nat,
         p * den = num * pow10(s) * q
  PROVE  CutOff(BCNum(Quot(p, q), s), num, den)
<1>1. PICK t, c, m, n : t = pow10(s) /\ c = Quot(p, q) /\ m = Abs(p) /\ n = Abs(num)
  OBVIOUS
<1>2. t \in Nat \ {0}
  BY <1>1, Tens
<1>3. c \in Int /\ Abs(c) * q <= m /\ m < (Abs(c) + 1) * q /\ (c # 0 => Sign(c) = Sign(p))
  BY <1>1, Quotient
<1>4. m \in Nat /\ n \in Nat /\ Abs(c) \in Nat
  BY <1>1, <1>3 DEF Abs
<1>5. m * den = n * t * q /\ Sign(p) = Sign(num)
  <2>1. Abs(p * den) = m * den /\ Sign(p * den) = Sign(p)
    BY <1>1, AbsTimes
  <2>2. t * q \in Nat \ {0} /\ num * t * q = num * (t * q) /\ n * t * q = n * (t * q)
    BY <1>2, <1>4
  <2>3. Abs(num * (t * q)) = n * (t * q) /\ Sign(num * (t * q)) = Sign(num)
    BY <1>1, <2>2, AbsTimes
  <2> QED
    BY <1>1, <2>1, <2>2, <2>3
<1>6. PICK v \in Nat : v = Abs(c)
  BY <1>4
<1>7. v * den <= n * t
  <2>1. (v * q) * den <= m * den
    BY <1>3, <1>4, <1>6, Cancels
  <2>2. (v * q) * den = (v * den) * q /\ v * den \in Int /\ n * t \in Int
    BY <1>2, <1>4
  <2> QED
    BY <1>5, <2>1, <2>2, Cancels
<1>8. n * t < (v + 1) * den
  <2>1. m * den < ((v + 1) * q) * den
    <3>1. (v + 1) * q \in Int /\ m < (v + 1) * q
      BY <1>3, <1>6
    <3> QED
      BY <1>4, <3>1, Cancels
  <2>2. ((v + 1) * q) * den = ((v + 1) * den) * q /\ (v + 1) * den \in Int /\ n * t \in Int
    BY <1>2, <1>4
  <2> QED
    BY <1>5, <2>1, <2>2, Cancels
<1> QED
  BY <1>1, <1>3, <1>5, <1>6, <1>7, <1>8 DEF CutOff, BCNum

LEMMA ExactCutsOff ==
  ASSUME NEW c \in Int, NEW num \in Int, NEW den \in Nat \ {0}, NEW s \in Nat, c * den = num * pow10(s)
  PROVE  CutOff(BCNum(c, s), num, den)
<1>1. PICK t : t = pow10(s)
  OBVIOUS
<1>2. t \in Nat \ {0}
  BY <1>1, Tens
<1>3. Abs(c) * den = Abs(num) * t /\ Sign(c) = Sign(num) /\ Abs(c) \in Nat
  <2>1. Abs(c * den) = Abs(c) * den /\ Sign(c * den) = Sign(c) /\ Abs(c) \in Nat
    BY AbsTimes
  <2>2. Abs(num * t) = Abs(num) * t /\ Sign(num * t) = Sign(num)
    BY <1>2, AbsTimes
  <2> QED
    BY <1>1, <2>1, <2>2
<1>4. PICK v \in Nat : v = Abs(c)
  BY <1>3
<1>5. v * den < (v + 1) * den /\ v * den <= v * den
  BY Cancels
<1> QED
  BY <1>1, <1>3, <1>4, <1>5 DEF CutOff, BCNum
-----------------------------------------------------------------------------
(* The operations *)

Decimals == [coeff : Int, scale : Scales]

LEMMA DecimalTyped ==
  ASSUME NEW x \in Decimals
  PROVE  x.coeff \in Int /\ x.scale \in Nat /\ x.scale \in Scales /\ x.scale <= BC_SCALE_MAX
BY NumbersConstantsOK DEF Decimals, Scales

LEMMA SumExact ==
  ASSUME NEW x, NEW y, NEW sign \in {-1, 1},
         x.coeff \in Int, y.coeff \in Int, x.scale \in Nat, y.scale \in Nat
  PROVE  /\ Sum(x, y, sign).scale = Larger(x.scale, y.scale)
         /\ Sum(x, y, sign).coeff \in Int
         /\ Sum(x, y, sign).coeff = x.coeff * pow10(Larger(x.scale, y.scale) - x.scale)
                                      + sign * y.coeff * pow10(Larger(x.scale, y.scale) - y.scale)
         /\ CutOff(Sum(x, y, sign), x.coeff * pow10(y.scale) + sign * (y.coeff * pow10(x.scale)),
                   pow10(x.scale + y.scale))
<1>1. PICK xs, ys, L, dl, dr : /\ xs = x.scale /\ ys = y.scale /\ L = Larger(xs, ys)
                               /\ dl = L - xs /\ dr = L - ys
  OBVIOUS
<1>2. {xs, ys, L, dl, dr} \subseteq Nat /\ L = dl + xs /\ L = dr + ys
  BY <1>1 DEF Larger
<1>3. PICK xc, yc, ex, ey, el, er, t : /\ xc = x.coeff /\ yc = y.coeff /\ ex = pow10(xs) /\ ey = pow10(ys)
                                       /\ el = pow10(dl) /\ er = pow10(dr) /\ t = pow10(L)
  OBVIOUS
<1>4. xc \in Int /\ yc \in Int /\ {ex, ey, el, er, t} \subseteq Nat \ {0}
  BY <1>2, <1>3, Tens
<1>5. t = el * ex /\ t = er * ey /\ pow10(xs + ys) = ex * ey
  BY <1>2, <1>3, Tens, SMTT(30)
<1>6. PICK c : c = xc * el + sign * yc * er
  OBVIOUS
<1>7. Sum(x, y, sign) = BCNum(c, L)
  BY <1>1, <1>3, <1>6 DEF Sum, AddSubScales
<1>8. c \in Int /\ xc * ey + sign * (yc * ex) \in Int /\ ex * ey \in Nat \ {0}
  BY <1>4, <1>6
<1>9. c * (ex * ey) = (xc * ey + sign * (yc * ex)) * t
  <2>1. c * (ex * ey) = (xc * ey) * (el * ex) + (sign * (yc * ex)) * (er * ey)
    BY <1>4, <1>6
  <2>2. (xc * ey) * t + (sign * (yc * ex)) * t = (xc * ey + sign * (yc * ex)) * t
    BY <1>4
  <2> QED
    BY <1>5, <2>1, <2>2
<1>10. CutOff(BCNum(c, L), xc * ey + sign * (yc * ex), ex * ey)
  BY <1>2, <1>3, <1>8, <1>9, ExactCutsOff
<1> QED
  BY <1>1, <1>3, <1>5, <1>6, <1>7, <1>8, <1>10 DEF BCNum

LEMMA MulCutsOff ==
  ASSUME NEW x \in Decimals, NEW y \in Decimals, NEW g \in Scales
  PROVE  /\ Mul(x, y, g).scale = Lesser(x.scale + y.scale, Larger(g, Larger(x.scale, y.scale)))
         /\ Mul(x, y, g).coeff \in Int
         /\ CutOff(Mul(x, y, g), x.coeff * y.coeff, pow10(x.scale + y.scale))
<1>1. PICK xs, ys, s, d : /\ xs = x.scale /\ ys = y.scale
                          /\ s = Lesser(xs + ys, Larger(g, Larger(xs, ys))) /\ d = xs + ys - s
  OBVIOUS
<1>2. {xs, ys, s, d} \subseteq Nat /\ xs + ys = s + d /\ xs + ys \in Nat
  BY <1>1, DecimalTyped DEF Larger, Lesser, Scales
<1>3. PICK p, q, t, den : p = x.coeff * y.coeff /\ q = pow10(d) /\ t = pow10(s) /\ den = pow10(xs + ys)
  OBVIOUS
<1>4. p \in Int /\ {q, t, den} \subseteq Nat \ {0} /\ den = t * q
  <2>1. x.coeff \in Int /\ y.coeff \in Int
    BY DecimalTyped
  <2>2. {q, t, den} \subseteq Nat \ {0} /\ den = t * q
    BY <1>2, <1>3, Tens
  <2> QED
    BY <1>3, <2>1, <2>2
<1>5. p * den = p * t * q
  BY <1>4
<1>6. Mul(x, y, g) = BCNum(Quot(p, q), s)
  BY <1>1, <1>3 DEF Mul, MulScaleAndShift
<1>7. CutOff(BCNum(Quot(p, q), s), p, den) /\ Quot(p, q) \in Int
  BY <1>2, <1>3, <1>4, <1>5, QuotientCutsOff, Quotient
<1> QED
  BY <1>1, <1>3, <1>6, <1>7 DEF BCNum

LEMMA DivCutsOff ==
  ASSUME NEW x, NEW y, NEW g \in Nat, x.coeff \in Int, y.coeff \in Int \ {0}, x.scale \in Nat, y.scale \in Nat
  PROVE  /\ Div(x, y, g).scale = g
         /\ Div(x, y, g).coeff \in Int
         /\ CutOff(Div(x, y, g), x.coeff * pow10(y.scale) * Sign(y.coeff), Abs(y.coeff) * pow10(x.scale))
<1>1. PICK xs, ys, k, xc, yc, z, v : /\ xs = x.scale /\ ys = y.scale /\ k = ys - xs + g /\ xc = x.coeff /\ yc = y.coeff
                                     /\ z = Sign(yc) /\ v = Abs(yc)
  OBVIOUS
<1>2. {xs, ys} \subseteq Nat /\ k \in Int /\ xc \in Int /\ yc \in Int \ {0}
  BY <1>1
<1>3. v \in Nat \ {0} /\ z \in {-1, 1} /\ z * v = yc
  BY <1>1, <1>2, QuotientSigned
<1>4. PICK ex, ey, t : ex = pow10(xs) /\ ey = pow10(ys) /\ t = pow10(g)
  OBVIOUS
<1>5. {ex, ey, t} \subseteq Nat \ {0} /\ v * ex \in Nat \ {0} /\ xc * ey * z \in Int
  <2>1. {ex, ey, t} \subseteq Nat \ {0}
    BY <1>2, <1>4, Tens
  <2> QED
    BY <1>2, <1>3, <2>1
<1>6. CASE k >= 0
  <2>1. PICK u : u = pow10(k)
    OBVIOUS
  <2>2. k \in Nat /\ k + xs = ys + g
    BY <1>1, <1>2, <1>6
  <2>3. u \in Nat \ {0} /\ u * ex = ey * t
    BY <1>2, <1>4, <2>1, <2>2, Tens
  <2>4. PICK p : p = z * (xc * u)
    OBVIOUS
  <2>5. p \in Int /\ xc * u \in Int
    BY <1>2, <1>3, <2>3, <2>4
  <2>6. Div(x, y, g) = BCNum(Quot(p, v), g)
    <3>1. Div(x, y, g) = BCNum(Quot(xc * u, yc), g)
      BY <1>1, <1>6, <2>1 DEF Div, DivScaleAndShift
    <3>2. Quot(xc * u, yc) = Quot(p, v)
      BY <1>1, <1>2, <2>4, <2>5, QuotientSigned
    <3> QED
      BY <3>1, <3>2
  <2>7. p * (v * ex) = (xc * ey * z) * t * v
    <3>1. p * (v * ex) = (z * xc * v) * (u * ex)
      BY <1>2, <1>3, <1>5, <2>3, <2>4
    <3>2. (xc * ey * z) * t * v = (z * xc * v) * (ey * t)
      BY <1>2, <1>3, <1>5
    <3> QED
      BY <2>3, <3>1, <3>2
  <2>8. CutOff(BCNum(Quot(p, v), g), xc * ey * z, v * ex) /\ Quot(p, v) \in Int
    BY <1>3, <1>4, <1>5, <2>5, <2>7, QuotientCutsOff, Quotient
  <2> QED
    BY <1>1, <1>4, <2>6, <2>8 DEF BCNum
<1>7. CASE k < 0
  <2>1. PICK u : u = pow10(-k)
    OBVIOUS
  <2>2. -k \in Nat /\ -k + (ys + g) = xs /\ ys + g \in Nat
    BY <1>1, <1>2, <1>7
  <2>3. u \in Nat \ {0} /\ ex = u * (ey * t)
    BY <1>2, <1>4, <2>1, <2>2, Tens
  <2>4. PICK p, q : p = z * xc /\ q = v * u
    OBVIOUS
  <2>5. p \in Int /\ q \in Nat \ {0} /\ yc * u \in Int \ {0}
    BY <1>2, <1>3, <2>3, <2>4
  <2>6. Div(x, y, g) = BCNum(Quot(p, q), g)
    <3>1. Div(x, y, g) = BCNum(Quot(xc, yc * u), g)
      BY <1>1, <1>7, <2>1 DEF Div, DivScaleAndShift
    <3>2. Sign(yc * u) = z /\ Abs(yc * u) = q
      BY <1>1, <1>2, <2>3, <2>4, AbsTimes
    <3>3. Quot(xc, yc * u) = Quot(p, q)
      BY <1>2, <2>4, <2>5, <3>2, QuotientSigned
    <3> QED
      BY <3>1, <3>3
  <2>7. p * (v * ex) = (xc * ey * z) * t * q
    <3>1. p * (v * (u * (ey * t))) = (xc * ey * z) * t * q
      BY <1>2, <1>3, <1>5, <2>3, <2>4
    <3> QED
      BY <2>3, <3>1
  <2>8. CutOff(BCNum(Quot(p, q), g), xc * ey * z, v * ex) /\ Quot(p, q) \in Int
    BY <1>4, <1>5, <2>5, <2>7, QuotientCutsOff, Quotient
  <2> QED
    BY <1>1, <1>4, <2>6, <2>8 DEF BCNum
<1> QED
  BY <1>2, <1>6, <1>7

LEMMA Multiples ==
  ASSUME NEW u \in Nat, NEW m \in Nat \ {0}
  PROVE  (u * m) % m = 0
<1>1. PICK p \in Nat : p = u * m
  OBVIOUS
<1>2. PICK q, r : q = p \div m /\ r = p % m
  OBVIOUS
<1>3. q \in Nat /\ r \in 0..(m - 1) /\ p = m * q + r
  BY <1>1, <1>2
<1>4. PICK d \in Int : d = u - q
  BY <1>3
<1>5. d * m = r
  <2>1. d * m = u * m - m * q
    BY <1>3, <1>4
  <2> QED
    BY <1>1, <1>3, <2>1
<1>6. 0 * m <= d * m /\ d * m < 1 * m
  BY <1>3, <1>5
<1>7. d = 0
  BY <1>6, Cancels
<1> QED
  BY <1>1, <1>2, <1>3, <1>5, <1>7

(* What division by a divisor of any sign leaves. *)
LEMMA RemainderSigned ==
  ASSUME NEW p \in Int, NEW d \in Int \ {0}
  PROVE  /\ Quot(p, d) \in Int
         /\ p - Quot(p, d) * d \in Int
         /\ Abs(p - Quot(p, d) * d) < Abs(d)
         /\ p - Quot(p, d) * d # 0 => Sign(p - Quot(p, d) * d) = Sign(p)
<1>1. PICK z, y, n : z = Sign(d) /\ y = Abs(d) /\ n = z * p
  OBVIOUS
<1>2. y \in Nat \ {0} /\ z \in {-1, 1} /\ z * y = d /\ Quot(p, d) = Quot(n, y) /\ n \in Int
  BY <1>1, QuotientSigned
<1>3. PICK c, v, m : c = Quot(n, y) /\ v = Abs(c) /\ m = Abs(n)
  OBVIOUS
<1>4. c \in Int /\ v \in Nat /\ m \in Nat /\ v * y <= m /\ m < (v + 1) * y /\ (c # 0 => Sign(c) = Sign(n))
  <2>1. c \in Int /\ v * y <= m /\ m < (v + 1) * y /\ (c # 0 => Sign(c) = Sign(n))
    BY <1>2, <1>3, Quotient
  <2>2. c \in Int
    BY <2>1
  <2>3. v \in Nat /\ m \in Nat
    BY <1>2, <1>3, <2>2 DEF Abs
  <2> QED
    BY <2>1, <2>3
<1>5. PICK e \in Int : e = m - v * y
  BY <1>2, <1>4
<1>6. e \in 0..(y - 1)
  <2>1. (v + 1) * y = v * y + y
    BY <1>2, <1>4
  <2> QED
    BY <1>2, <1>4, <1>5, <2>1
<1> DEFINE Left(r) == r \in Int /\ Abs(r) < y /\ (r # 0 => Sign(r) = Sign(p))
<1>7. ASSUME n >= 0
      PROVE  Left(p - c * d)
  <2>1. m = n /\ c = v
    BY <1>2, <1>3, <1>4, <1>7 DEF Abs, Sign
  <2>2. p - c * d = z * e
    <3>1. p = z * n
      BY <1>1, <1>2
    <3>2. z * n - v * (z * y) = z * (n - v * y)
      BY <1>2, <1>4
    <3> QED
      BY <1>2, <1>5, <2>1, <3>1, <3>2
  <2>3. p = z * n
    BY <1>1, <1>2
  <2>4. z * e # 0 => n > 0
    <3>1. n = 0 => e = 0
      <4>1. v * y \in Nat
        BY <1>2, <1>4
      <4> QED
        BY <1>5, <1>6, <2>1, <4>1
    <3> QED
      BY <1>2, <1>7, <3>1
  <2>5. Abs(z * e) = e /\ (z * e # 0 => Sign(z * e) = z)
    BY <1>2, <1>6 DEF Abs, Sign
  <2>6. n > 0 => Sign(p) = z
    BY <1>2, <2>3 DEF Sign
  <2>7. Left(z * e)
    BY <1>2, <1>6, <2>4, <2>5, <2>6
  <2> QED
    BY <2>2, <2>7
<1>8. ASSUME n < 0
      PROVE  Left(p - c * d)
  <2>1. m = -n /\ c = -v
    BY <1>2, <1>3, <1>4, <1>8 DEF Abs, Sign
  <2>2. p - c * d = -(z * e)
    <3>1. p = z * n
      BY <1>1, <1>2
    <3>2. z * n - (-v) * (z * y) = -(z * ((-n) - v * y))
      BY <1>2, <1>4
    <3> QED
      BY <1>2, <1>5, <2>1, <3>1, <3>2
  <2>3. p = z * n
    BY <1>1, <1>2
  <2>4. Abs(-(z * e)) = e /\ (-(z * e) # 0 => Sign(-(z * e)) = -z)
    BY <1>2, <1>6 DEF Abs, Sign
  <2>5. Sign(p) = -z
    BY <1>2, <1>8, <2>3 DEF Sign
  <2>6. -(z * e) \in Int
    BY <1>2, <1>6
  <2>7. Left(-(z * e))
    BY <1>2, <1>6, <2>4, <2>5, <2>6
  <2> QED
    BY <2>2, <2>7
<1>9. Left(p - c * d)
  <2>1. n >= 0 \/ n < 0
    BY <1>2
  <2> QED
    BY <1>7, <1>8, <2>1
<1>10. Quot(p, d) = c /\ y = Abs(d)
  BY <1>1, <1>2, <1>3
<1> QED
  BY <1>4, <1>9, <1>10

(* A remainder is that of the operands brought to one scale. *)
LEMMA ModLeaves ==
  ASSUME NEW x \in Decimals, NEW y \in Decimals, NEW g \in Scales, y.coeff # 0
  PROVE  /\ Mod(x, y, g).scale = Larger(g + y.scale, x.scale)
         /\ Mod(x, y, g).coeff \in Int
         /\ \E p \in Int, q \in Int, unit \in Nat \ {0} :
              /\ unit = pow10(Mod(x, y, g).scale - g - y.scale)
              /\ p = x.coeff * pow10(Mod(x, y, g).scale - x.scale)
              /\ q = Quot(p, y.coeff * unit)
              /\ Mod(x, y, g).coeff = p - q * (y.coeff * unit)
              /\ Sign(p) = Sign(x.coeff)
<1>1. PICK xs, ys, xc, yc, L, k : /\ xs = x.scale /\ ys = y.scale /\ xc = x.coeff /\ yc = y.coeff
                                  /\ L = Larger(xs, g + ys) /\ k = ys - xs + g
  OBVIOUS
<1>2. /\ {xs, ys, g, L, g + ys, L - xs, L - (g + ys)} \subseteq Nat /\ xc \in Int /\ yc \in Int \ {0}
      /\ k \in Int /\ L = Larger(g + ys, xs) /\ L - g - ys = L - (g + ys)
  BY <1>1, DecimalTyped DEF Larger, Scales
<1>3. PICK q, m, el, unit : /\ q = Div(x, y, g).coeff /\ m = BCNum(q * yc, g + ys)
                            /\ el = pow10(L - xs) /\ unit = pow10(L - (g + ys))
  OBVIOUS
<1>4. q \in Int /\ Div(x, y, g).scale = g /\ {el, unit} \subseteq Nat \ {0} /\ q * yc \in Int
  <2>1. q \in Int /\ Div(x, y, g).scale = g
    BY <1>1, <1>2, <1>3, DivCutsOff
  <2>2. {el, unit} \subseteq Nat \ {0}
    BY <1>2, <1>3, Tens
  <2> QED
    BY <1>2, <2>1, <2>2
<1>5. Mod(x, y, g) = Sum(x, m, -1)
  BY <1>1, <1>3, <1>4 DEF Mod
<1>6. m.coeff = q * yc /\ m.scale = g + ys
  BY <1>3 DEF BCNum
<1>7. /\ Sum(x, m, -1).scale = L /\ Sum(x, m, -1).coeff \in Int
      /\ Sum(x, m, -1).coeff = xc * el + (-1) * (q * yc) * unit
  <2>1. -1 \in {-1, 1}
    OBVIOUS
  <2> QED
    BY <1>1, <1>2, <1>3, <1>4, <1>6, <2>1, SumExact
<1>8. PICK p \in Int : p = xc * el
  BY <1>2, <1>4
<1>9. xc * el + (-1) * (q * yc) * unit = p - q * (yc * unit)
  BY <1>2, <1>4, <1>8
<1>10. q = Quot(p, yc * unit)
  <2>1. CASE k >= 0
    <3>1. L = g + ys /\ L - xs = k /\ L - (g + ys) = 0
      BY <1>1, <1>2, <2>1 DEF Larger
    <3>2. unit = 1 /\ el = pow10(k) /\ yc * 1 = yc
      BY <1>2, <1>3, <3>1, Tens
    <3>3. q = Quot(xc * pow10(k), yc)
      BY <1>1, <1>3, <2>1 DEF Div, DivScaleAndShift, BCNum
    <3> QED
      BY <1>8, <3>2, <3>3
  <2>2. CASE k < 0
    <3>1. L = xs /\ L - xs = 0 /\ L - (g + ys) = -k
      BY <1>1, <1>2, <2>2 DEF Larger
    <3>2. unit = pow10(-k) /\ el = 1 /\ xc * 1 = xc
      BY <1>2, <1>3, <3>1, Tens
    <3>3. q = Quot(xc, yc * pow10(-k))
      BY <1>1, <1>3, <2>2 DEF Div, DivScaleAndShift, BCNum
    <3> QED
      BY <1>8, <3>2, <3>3
  <2> QED
    BY <1>2, <2>1, <2>2
<1>11. Sign(p) = Sign(xc)
  BY <1>2, <1>4, <1>8, AbsTimes
<1>12. Mod(x, y, g).scale = L /\ Mod(x, y, g).coeff \in Int /\ Mod(x, y, g).coeff = p - q * (yc * unit)
  BY <1>5, <1>7, <1>9
<1> QED
  BY <1>1, <1>2, <1>3, <1>4, <1>8, <1>10, <1>11, <1>12

LEMMA AbsProduct ==
  ASSUME NEW x \in Int, NEW y \in Int
  PROVE  Abs(x * y) = Abs(x) * Abs(y)
<1>1. CASE y = 0
  <2>1. x * y = 0 /\ Abs(x) * 0 = 0
    BY <1>1 DEF Abs
  <2> QED
    BY <1>1, <2>1 DEF Abs
<1>2. CASE y > 0
  <2>1. Abs(y) = y /\ y \in Nat \ {0}
    BY <1>2 DEF Abs
  <2> QED
    BY <2>1, AbsTimes
<1>3. CASE y < 0
  <2>1. Abs(y) = -y /\ -y \in Nat \ {0}
    BY <1>3 DEF Abs
  <2>2. Abs(x * (-y)) = Abs(x) * (-y)
    BY <2>1, AbsTimes
  <2>3. x * (-y) = -(x * y) /\ x * y \in Int
    OBVIOUS
  <2>4. Abs(-(x * y)) = Abs(x * y)
    BY <2>3 DEF Abs
  <2> QED
    BY <2>1, <2>2, <2>3, <2>4
<1> QED
  BY <1>1, <1>2, <1>3

(* What is left by division: less than a unit of b, and a whole number of them away from a. *)
LEMMA ModExact ==
  ASSUME NEW x \in Decimals, NEW y \in Decimals, NEW g \in Scales, y.coeff # 0
  PROVE  LET r    == Mod(x, y, g)
             unit == pow10(r.scale - g - y.scale)
             left == x.coeff * pow10(r.scale - x.scale) - r.coeff
         IN  /\ Abs(r.coeff) < Abs(y.coeff) * unit
             /\ r.coeff # 0 => Sign(r.coeff) = Sign(x.coeff)
             /\ Abs(left) % (Abs(y.coeff) * unit) = 0
<1>1. PICK r, yc : r = Mod(x, y, g) /\ yc = y.coeff
  OBVIOUS
<1>2. PICK p \in Int, q \in Int, unit \in Nat \ {0} :
        /\ unit = pow10(r.scale - g - y.scale)
        /\ p = x.coeff * pow10(r.scale - x.scale)
        /\ q = Quot(p, yc * unit)
        /\ r.coeff = p - q * (yc * unit)
        /\ Sign(p) = Sign(x.coeff)
  BY <1>1, ModLeaves
<1>3. PICK d : d = yc * unit
  OBVIOUS
<1>4. yc \in Int \ {0} /\ d \in Int \ {0} /\ Abs(d) = Abs(yc) * unit /\ Abs(d) \in Nat \ {0}
  <2>1. yc \in Int \ {0}
    BY <1>1, DecimalTyped
  <2>2. Abs(yc * unit) = Abs(yc) * unit /\ Abs(yc) \in Nat \ {0}
    BY <2>1, AbsTimes DEF Abs
  <2>3. Abs(yc) * unit \in Nat \ {0}
    BY <2>2
  <2>4. d \in Int
    BY <1>3, <2>1
  <2>5. d # 0
    BY <1>3, <2>2, <2>3 DEF Abs
  <2> QED
    BY <1>3, <2>1, <2>2, <2>3, <2>4, <2>5
<1>5. Abs(p - q * d) < Abs(d) /\ (p - q * d # 0 => Sign(p - q * d) = Sign(p))
  BY <1>2, <1>3, <1>4, RemainderSigned
<1>6. p - (p - q * d) = q * d
  <2>1. q * d \in Int
    BY <1>4
  <2> QED
    BY <2>1
<1>7. Abs(q * d) % Abs(d) = 0
  <2>1. Abs(q * d) = Abs(q) * Abs(d) /\ Abs(q) \in Nat
    BY <1>4, AbsProduct DEF Abs
  <2> QED
    BY <1>4, <2>1, Multiples
<1> QED
  BY <1>1, <1>2, <1>3, <1>4, <1>5, <1>6, <1>7
-----------------------------------------------------------------------------
(* Square and multiply *)

LEMMA PowerOfProduct ==
  ASSUME NEW x \in Int, NEW y \in Int, NEW n \in Nat
  PROVE  Powers(x * y)[n] = Powers(x)[n] * Powers(y)[n]
<1>1. PICK p, q, r : p = Powers(x) /\ q = Powers(y) /\ r = Powers(x * y)
  OBVIOUS
<1>2. /\ p[0] = 1 /\ \A i \in Nat : p[i] \in Int /\ p[i + 1] = x * p[i]
      /\ q[0] = 1 /\ \A i \in Nat : q[i] \in Int /\ q[i + 1] = y * q[i]
      /\ r[0] = 1 /\ \A i \in Nat : r[i] \in Int /\ r[i + 1] = (x * y) * r[i]
  <2>1. x * y \in Int
    OBVIOUS
  <2> QED
    BY <1>1, <2>1, PowerSteps
<1> DEFINE I == {i \in Nat : r[i] = p[i] * q[i]}
<1>3. 0 \in I
  BY <1>2
<1>4. ASSUME NEW i \in Nat, i \in I
      PROVE  i + 1 \in I
  <2>1. PICK u \in Int, v \in Int : u = p[i] /\ v = q[i]
    BY <1>2
  <2>2. r[i] = u * v /\ r[i + 1] = (x * y) * r[i] /\ p[i + 1] = x * u /\ q[i + 1] = y * v
    BY <1>2, <1>4, <2>1
  <2>3. (x * y) * (u * v) = (x * u) * (y * v)
    OBVIOUS
  <2> QED
    BY <2>2, <2>3
<1> HIDE DEF I
<1>5. Nat \subseteq I
  BY <1>3, <1>4, Induction
<1> QED
  BY <1>1, <1>5 DEF I

LEMMA PowerOfPower ==
  ASSUME NEW base \in Int, NEW m \in Nat, NEW n \in Nat
  PROVE  Powers(Powers(base)[m])[n] = Powers(base)[m * n]
<1>1. PICK p, x, q : p = Powers(base) /\ x = p[m] /\ q = Powers(x)
  OBVIOUS
<1>2. x \in Int
  BY <1>1, PowerSteps
<1>3. p[0] = 1 /\ q[0] = 1 /\ \A i \in Nat : q[i] \in Int /\ q[i + 1] = x * q[i]
  BY <1>1, <1>2, PowerSteps
<1> DEFINE I == {i \in Nat : q[i] = p[m * i]}
<1>4. 0 \in I
  <2>1. m * 0 = 0
    OBVIOUS
  <2> QED
    BY <1>3, <2>1
<1>5. ASSUME NEW i \in Nat, i \in I
      PROVE  i + 1 \in I
  <2>1. m * i \in Nat /\ m * (i + 1) = m + m * i
    OBVIOUS
  <2>2. p[m + m * i] = x * p[m * i]
    BY <1>1, <2>1, PowerAdds
  <2> QED
    BY <1>3, <1>5, <2>1, <2>2
<1> HIDE DEF I
<1>6. Nat \subseteq I
  BY <1>4, <1>5, Induction
<1> QED
  BY <1>1, <1>6 DEF I

LEMMA PowerNonzero ==
  ASSUME NEW base \in Int \ {0}
  PROVE  \A n \in Nat : Powers(base)[n] \in Int \ {0}
<1>1. PICK p : p = Powers(base)
  OBVIOUS
<1>2. p[0] = 1 /\ \A i \in Nat : p[i] \in Int /\ p[i + 1] = base * p[i]
  BY <1>1, PowerSteps
<1> DEFINE I == {i \in Nat : p[i] \in Int \ {0}}
<1>3. 0 \in I
  BY <1>2
<1>4. ASSUME NEW i \in Nat, i \in I
      PROVE  i + 1 \in I
  <2>1. PICK x \in Int \ {0} : x = p[i]
    BY <1>4
  <2>2. base * x \in Int \ {0}
    OBVIOUS
  <2> QED
    BY <1>2, <2>1, <2>2
<1> HIDE DEF I
<1>5. Nat \subseteq I
  BY <1>3, <1>4, Induction
<1> QED
  BY <1>1, <1>5 DEF I

(* One turn of the loop of try_pow. *)
Turn(t) == << IF t[3] % 2 = 1 THEN t[1] * t[2] ELSE t[1],
              IF t[3] > 1 THEN t[2] * t[2] ELSE t[2],
              t[3] \div 2 >>

LEMMA TurnKeeps ==
  ASSUME NEW u \in Int, NEW s \in Int, NEW k \in Nat
  PROVE  /\ Turn(<<u, s, k>>) \in Int \X Int \X Nat
         /\ Turn(<<u, s, k>>)[1] * Powers(Turn(<<u, s, k>>)[2])[Turn(<<u, s, k>>)[3]] = u * Powers(s)[k]
         /\ k > 0 => Turn(<<u, s, k>>)[3] < k
         /\ k = 0 => Turn(<<u, s, k>>)[3] = 0
<1>1. PICK h, r : h = k \div 2 /\ r = k % 2
  OBVIOUS
<1>2. h \in Nat /\ r \in 0..1 /\ k = 2 * h + r /\ (k > 0 => h < k) /\ (k = 0 => h = 0)
  BY <1>1
<1>3. PICK v, w : v = (IF r = 1 THEN u * s ELSE u) /\ w = (IF k > 1 THEN s * s ELSE s)
  OBVIOUS
<1>4. v \in Int /\ w \in Int
  BY <1>3
<1>5. Turn(<<u, s, k>>) = <<v, w, h>>
  BY <1>1, <1>3 DEF Turn
<1>6. PICK p : p = Powers(s)
  OBVIOUS
<1>7. p[0] = 1 /\ \A i \in Nat : p[i] \in Int /\ p[i + 1] = s * p[i]
  BY <1>6, PowerSteps
<1>8. v * Powers(w)[h] = u * p[k]
  <2>1. CASE k > 1
    <3>1. Powers(w)[h] = p[h] * p[h]
      BY <1>2, <1>3, <1>6, <2>1, PowerOfProduct
    <3>2. h + h \in Nat /\ p[h + h] = p[h] * p[h]
      <4>1. h \in Nat
        BY <1>2
      <4>2. Powers(s)[h + h] = Powers(s)[h] * Powers(s)[h]
        BY <4>1, PowerAdds
      <4> QED
        BY <1>6, <4>1, <4>2
    <3>3. PICK x \in Int : x = p[h + h]
      BY <1>7, <3>2
    <3>4. CASE r = 0
      BY <1>2, <1>3, <3>1, <3>2, <3>3, <3>4
    <3>5. CASE r = 1
      <4>1. k = (h + h) + 1
        BY <1>2, <3>5
      <4>2. p[k] = s * x
        BY <1>7, <3>2, <3>3, <4>1
      <4>3. (u * s) * x = u * (s * x)
        OBVIOUS
      <4> QED
        BY <1>3, <3>1, <3>2, <3>3, <3>5, <4>2, <4>3
    <3> QED
      BY <1>2, <3>4, <3>5
  <2>2. CASE k = 1
    <3>1. h = 0 /\ r = 1 /\ 1 = 0 + 1
      BY <1>2, <2>2
    <3>2. Powers(w)[0] = 1
      BY <1>4, PowerSteps
    <3>3. p[1] = s * 1
      BY <1>7, <3>1
    <3> QED
      BY <1>3, <2>2, <3>1, <3>2, <3>3
  <2>3. CASE k = 0
    <3>1. h = 0 /\ r = 0
      BY <1>2, <2>3
    <3>2. Powers(w)[0] = 1
      BY <1>4, PowerSteps
    <3> QED
      BY <1>3, <1>7, <2>3, <3>1, <3>2
  <2> QED
    BY <2>1, <2>2, <2>3
<1> QED
  BY <1>2, <1>4, <1>5, <1>6, <1>8

(* The loop of try_pow computes the power: product times square to the bits left stays it. *)
LEMMA PowerIs ==
  ASSUME NEW c \in Int, NEW n \in Nat
  PROVE  Power(c, n) = Powers(c)[n]
<1> DEFINE S == Int \X Int \X Nat
           first == <<1, c, n>>
           down == [m \in Nat |-> m - 1]
           h == [m \in Nat |-> [t \in S |-> Turn(t)]]
           Recursion(f) == f = [i \in 0..n |-> IF i = 0 THEN first ELSE Turn(f[i - 1])]
           Is(t) == t[1] * Powers(t[2])[t[3]] = Powers(c)[n]
<1>1. \A m \in Nat : down[m] = m - 1
  OBVIOUS
<1>2. Downward(down)
  BY <1>1 DEF Downward
<1>3. \A t \in S : /\ Turn(t) \in S
                   /\ Is(t) => Is(Turn(t))
                   /\ t[3] \in Nat /\ Turn(t)[3] \in Nat
                   /\ t[3] > 0 => Turn(t)[3] < t[3]
                   /\ t[3] = 0 => Turn(t)[3] = 0
  <2>1. ASSUME NEW t \in S
        PROVE  /\ Turn(t) \in S
               /\ Is(t) => Is(Turn(t))
               /\ t[3] \in Nat /\ Turn(t)[3] \in Nat
               /\ t[3] > 0 => Turn(t)[3] < t[3]
               /\ t[3] = 0 => Turn(t)[3] = 0
    <3>1. PICK u \in Int, s \in Int, k \in Nat : t = <<u, s, k>>
      OBVIOUS
    <3>2. t[1] = u /\ t[2] = s /\ t[3] = k
      BY <3>1
    <3>3. /\ Turn(t) \in S
          /\ Turn(t)[1] * Powers(Turn(t)[2])[Turn(t)[3]] = u * Powers(s)[k]
          /\ k > 0 => Turn(t)[3] < k
          /\ k = 0 => Turn(t)[3] = 0
      BY <3>1, TurnKeeps
    <3>4. Turn(t)[3] \in Nat
      BY <3>3
    <3> QED
      BY <3>2, <3>3, <3>4
  <2> QED
    BY <2>1
<1>4. first \in S /\ Is(first) /\ first[3] = n
  <2>1. Powers(c)[n] \in Int
    BY PowerSteps
  <2> QED
    BY <2>1
<1>5. \A m \in Nat, t \in S : h[m][t] = Turn(t)
  OBVIOUS
<1>6. Power(c, n) = (CHOOSE f : Recursion(f))[n][1]
  BY DEF Power, Turn
<1> HIDE DEF S, first, down, h, Is
<1>7. Keeps(h, S)
  BY <1>3, <1>5 DEF Keeps
<1>8. PICK f \in [Nat -> S] : f[0] = first /\ \A m \in Nat : m # 0 => f[m] = h[m][f[down[m]]]
  BY <1>2, <1>4, <1>7, Descent
<1>9. ASSUME NEW m \in Nat, m # 0
      PROVE  f[m] = Turn(f[m - 1])
  <2>1. m - 1 \in Nat /\ down[m] = m - 1
    BY <1>1, <1>9
  <2>2. f[m - 1] \in S
    BY <1>8, <2>1
  <2>3. f[m] = h[m][f[m - 1]]
    BY <1>8, <1>9, <2>1
  <2> QED
    BY <1>5, <2>2, <2>3
<1>10. PICK g : g = [i \in 0..n |-> f[i]]
  OBVIOUS
<1>11. Recursion(g)
  <2>1. ASSUME NEW i \in 0..n
        PROVE  f[i] = IF i = 0 THEN first ELSE Turn(g[i - 1])
    <3>1. i # 0 => i - 1 \in 0..n /\ i \in Nat
      OBVIOUS
    <3> QED
      BY <1>8, <1>9, <1>10, <3>1
  <2> QED
    BY <1>10, <2>1
<1>12. PICK t : Recursion(t) /\ Power(c, n) = t[n][1]
  BY <1>6, <1>11
<1>13. t[0] = first /\ \A i \in 0..(n - 1) : t[i + 1] = Turn(t[i])
  BY <1>12
<1> DEFINE I == {i \in Nat : i <= n => t[i] \in S /\ Is(t[i]) /\ t[i][3] <= n - i}
<1>14. Nat \subseteq I
  <2>1. 0 \in I
    BY <1>4, <1>13
  <2>2. ASSUME NEW i \in Nat, i \in I, i + 1 <= n
        PROVE  t[i + 1] \in S /\ Is(t[i + 1]) /\ t[i + 1][3] <= n - (i + 1)
    <3>1. i \in 0..(n - 1) /\ t[i] \in S /\ Is(t[i]) /\ t[i][3] <= n - i
      BY <2>2
    <3>2. PICK x : x = t[i]
      OBVIOUS
    <3>3. t[i + 1] = Turn(x) /\ x \in S /\ Is(x) /\ x[3] <= n - i
      BY <1>13, <3>1, <3>2
    <3>4. Turn(x) \in S /\ Is(Turn(x))
      BY <1>3, <3>3
    <3>5. PICK k, l : k = x[3] /\ l = Turn(x)[3]
      OBVIOUS
    <3>6. k \in Nat /\ l \in Nat /\ (k > 0 => l < k) /\ (k = 0 => l = 0)
      BY <1>3, <3>3, <3>5
    <3>7. l <= n - (i + 1)
      BY <3>1, <3>3, <3>5, <3>6
    <3> QED
      BY <3>3, <3>4, <3>5, <3>7
  <2>3. \A i \in Nat : i \in I => i + 1 \in I
    BY <2>2
  <2> HIDE DEF I
  <2> QED
    BY <2>1, <2>3, Induction
<1>15. PICK x : x = t[n]
  OBVIOUS
<1>16. x \in S /\ Is(x) /\ x[3] <= n - n
  BY <1>14, <1>15
<1>17. x[3] = 0
  BY <1>3, <1>16
<1>18. x[1] \in Int /\ x[2] \in Int
  BY <1>16 DEF S
<1>19. Powers(x[2])[0] = 1
  BY <1>18, PowerSteps
<1>20. x[1] * 1 = Powers(c)[n]
  BY <1>16, <1>17, <1>19 DEF Is
<1> QED
  BY <1>12, <1>15, <1>18, <1>20

(* A power is cut off like a product, and one with a negative exponent like a quotient. *)
LEMMA PowCutsOff ==
  ASSUME NEW x \in Decimals, NEW y \in Decimals, NEW g \in Scales, ~Refused("^", x, y, g)
  PROVE  LET e == Exponent(y)  S == pow10(x.scale)  power(c) == Powers(c)[Abs(e)]  r == Pow(x, y, g)
         IN  /\ e \in Int /\ r.coeff \in Int
             /\ e >= 0 => /\ r.scale = Lesser(x.scale * e, Larger(g, x.scale))
                          /\ CutOff(r, power(x.coeff), power(S))
             /\ e < 0  => /\ r.scale = g
                          /\ CutOff(r, power(S) * Sign(power(x.coeff)), Abs(power(x.coeff)))
<1>1. PICK xs, xc, e, n : xs = x.scale /\ xc = x.coeff /\ e = Exponent(y) /\ n = Abs(e)
  OBVIOUS
<1>2. xs \in Nat /\ xc \in Int /\ g \in Nat /\ e \in Int /\ n \in Nat /\ (e < 0 => xc # 0)
  <2>1. xs \in Nat /\ xc \in Int /\ g \in Nat
    BY <1>1, DecimalTyped DEF Scales
  <2>2. e \in -MaxExponent - 1..MaxExponent /\ (e < 0 => xc # 0)
    BY <1>1, Zenon DEF Refused
  <2>3. e \in Int
    BY <2>2, NumbersConstantsOK
  <2> QED
    BY <1>1, <2>1, <2>2, <2>3 DEF Abs
<1>3. PICK p, exact, ex : p = Powers(xc)[n] /\ exact = xs * n /\ ex = pow10(exact)
  OBVIOUS
<1>4. /\ p \in Int /\ (e < 0 => p # 0) /\ exact \in Nat /\ ex \in Nat \ {0} /\ Power(xc, n) = p
      /\ ExactScale(x, y) = exact
  <2>1. exact \in Nat
    BY <1>2, <1>3
  <2>2. p \in Int /\ Power(xc, n) = p
    BY <1>2, <1>3, PowerSteps, PowerIs
  <2>3. e < 0 => p # 0
    BY <1>2, <1>3, PowerNonzero
  <2>4. ex \in Nat \ {0}
    BY <1>3, <2>1, Tens
  <2>5. ExactScale(x, y) = exact
    BY <1>1, <1>3 DEF ExactScale
  <2> QED
    BY <2>1, <2>2, <2>3, <2>4, <2>5
<1>5. Powers(pow10(xs))[n] = ex
  <2>1. Powers(Powers(10)[xs])[n] = Powers(10)[xs * n]
    BY <1>2, PowerOfPower
  <2> QED
    BY <1>3, <2>1 DEF pow10
<1>6. CASE e >= 0
  <2>1. n = e
    BY <1>1, <1>2, <1>6 DEF Abs
  <2>2. PICK s, d : s = Lesser(exact, Larger(g, xs)) /\ d = exact - s
    OBVIOUS
  <2>3. s \in Nat /\ d \in Nat /\ exact = s + d
    BY <1>2, <1>4, <2>2 DEF Lesser, Larger
  <2>4. PICK t, q : t = pow10(s) /\ q = pow10(d)
    OBVIOUS
  <2>5. t \in Nat \ {0} /\ q \in Nat \ {0} /\ ex = t * q
    BY <1>3, <2>3, <2>4, Tens
  <2>6. p * ex = p * t * q
    BY <1>4, <2>5
  <2>7. Pow(x, y, g) = BCNum(Quot(p, q), s)
    BY <1>1, <1>4, <1>6, <2>2, <2>4 DEF Pow, PowScaleAndShift
  <2>8. CutOff(BCNum(Quot(p, q), s), p, ex) /\ Quot(p, q) \in Int
    BY <1>4, <2>3, <2>4, <2>5, <2>6, QuotientCutsOff, Quotient
  <2>9. BCNum(Quot(p, q), s).scale = s /\ BCNum(Quot(p, q), s).coeff = Quot(p, q) /\ ~(e < 0)
    BY <1>2, <1>6 DEF BCNum
  <2> QED
    BY <1>1, <1>2, <1>3, <1>5, <2>1, <2>2, <2>7, <2>8, <2>9
<1>7. CASE e < 0
  <2>1. PICK u, v : u = BCNum(1, 0) /\ v = BCNum(p, exact)
    OBVIOUS
  <2>2. u.coeff = 1 /\ u.scale = 0 /\ v.coeff = p /\ v.scale = exact
    BY <2>1 DEF BCNum
  <2>3. Pow(x, y, g) = Div(u, v, g)
    BY <1>1, <1>2, <1>4, <1>7, <2>1 DEF Pow
  <2>4. /\ Div(u, v, g).scale = g /\ Div(u, v, g).coeff \in Int
        /\ CutOff(Div(u, v, g), 1 * ex * Sign(p), Abs(p) * pow10(0))
    BY <1>2, <1>3, <1>4, <1>7, <2>2, DivCutsOff
  <2>5. 1 * ex = ex /\ Abs(p) * pow10(0) = Abs(p) /\ ~(e >= 0)
    <3>1. Abs(p) \in Nat
      BY <1>4 DEF Abs
    <3>2. pow10(0) = 1
      BY <1>2, Tens
    <3> QED
      BY <1>2, <1>4, <1>7, <3>1, <3>2
  <2>6. CutOff(Div(u, v, g), ex * Sign(p), Abs(p))
    BY <2>4, <2>5
  <2> QED
    BY <1>1, <1>2, <1>3, <1>5, <2>3, <2>4, <2>5, <2>6
<1> QED
  BY <1>2, <1>6, <1>7

-----------------------------------------------------------------------------
(* Digits and roots *)

(* A number of w digits in a base is at least the smallest and less than all numbers that have more. *)
LEMMA WidthIs ==
  ASSUME NEW base \in Nat, base >= 2, NEW n \in Nat
  PROVE  /\ Width(n, base) \in Nat
         /\ n < Powers(base)[Width(n, base)]
         /\ Width(n, base) > 0 => Powers(base)[Width(n, base) - 1] <= n
<1> DEFINE down == [m \in Nat |-> m \div base]
           h == [m \in Nat |-> [x \in Nat |-> 1 + x]]
           Recursion(f) == f = [m \in 0..n |-> IF m = 0 THEN 0 ELSE 1 + f[m \div base]]
<1>1. \A m \in Nat : m # 0 => m \div base \in 0..(m - 1)
  <2>1. ASSUME NEW m \in Nat, m # 0
        PROVE  m \div base \in 0..(m - 1)
    <3>1. PICK d : d = m \div base
      OBVIOUS
    <3>2. d \in Nat /\ d * base <= m
      BY <3>1, Division
    <3>3. d * 2 <= d * base
      <4>1. PICK e \in Nat : e = base - 2
        OBVIOUS
      <4>2. d * base = d * 2 + d * e /\ d * e \in Nat
        BY <3>2, <4>1
      <4> QED
        BY <3>2, <4>2
    <3> QED
      BY <2>1, <3>1, <3>2, <3>3
  <2> QED
    BY <2>1
<1>2. \A m \in Nat : down[m] = m \div base
  OBVIOUS
<1>3. \A m \in Nat, x \in Nat : h[m][x] = 1 + x /\ 1 + x \in Nat
  OBVIOUS
<1>4. Width(n, base) = (CHOOSE f : Recursion(f))[n]
  BY DEF Width
<1> HIDE DEF down, h
<1>5. Downward(down)
  BY <1>1, <1>2 DEF Downward
<1>6. PICK f \in [Nat -> Nat] : f[0] = 0 /\ \A m \in Nat : m # 0 => f[m] = h[m][f[down[m]]]
  <2>1. PICK S : S = Nat
    OBVIOUS
  <2>2. 0 \in S /\ Keeps(h, S)
    BY <1>3, <2>1 DEF Keeps
  <2>3. \E f \in [Nat -> S] : f[0] = 0 /\ \A m \in Nat : m # 0 => f[m] = h[m][f[down[m]]]
    BY <1>5, <2>2, Descent
  <2> QED
    BY <2>1, <2>3
<1>7. PICK v : v = [m \in 0..n |-> f[m]]
  OBVIOUS
<1>8. Recursion(v)
  <2>1. ASSUME NEW m \in 0..n
        PROVE  f[m] = IF m = 0 THEN 0 ELSE 1 + v[m \div base]
    <3>1. CASE m # 0
      <4>1. PICK d : d = m \div base
        OBVIOUS
      <4>2. d \in 0..n /\ d \in Nat /\ m \in Nat /\ down[m] = d
        BY <1>1, <1>2, <3>1, <4>1
      <4>3. f[d] \in Nat /\ f[m] = h[m][f[d]] /\ v[d] = f[d]
        BY <1>6, <1>7, <3>1, <4>2
      <4> QED
        BY <1>3, <3>1, <4>1, <4>2, <4>3, SMTT(30)
    <3> QED
      BY <1>6, <3>1
  <2> QED
    BY <1>7, <2>1
<1>9. PICK w : Recursion(w) /\ Width(n, base) = w[n]
  BY <1>4, <1>8
<1>10. w[0] = 0 /\ \A m \in 0..n : m # 0 => w[m] = 1 + w[m \div base]
  <2>1. \A m \in 0..n : w[m] = IF m = 0 THEN 0 ELSE 1 + w[m \div base]
    BY <1>9, Zenon
  <2>2. 0 \in 0..n
    OBVIOUS
  <2> QED
    BY <2>1, <2>2, Zenon
<1>11. PICK p : p = Powers(base)
  OBVIOUS
<1>12. p[0] = 1 /\ \A i \in Nat : p[i] \in Nat \ {0} /\ p[i + 1] = base * p[i]
  <2>1. base \in Int /\ base \in Nat \ {0}
    OBVIOUS
  <2> QED
    BY <1>11, <2>1, PowerSteps, PowerPositive
<1> DEFINE Digits_(m) == w[m] \in Nat /\ m < p[w[m]] /\ (w[m] > 0 => p[w[m] - 1] <= m)
<1>13. Digits_(n)
  <2> DEFINE T == {m \in 0..n : ~Digits_(m)}
  <2>1. SUFFICES ASSUME T # {}
                 PROVE  FALSE
    OBVIOUS
  <2>2. PICK m \in T : \A j \in T : m <= j
    <3>1. T \in SUBSET Nat
      OBVIOUS
    <3> HIDE DEF T
    <3> QED
      BY <2>1, <3>1, Least
  <2>3. m \in 0..n /\ ~Digits_(m) /\ \A j \in 0..n : ~Digits_(j) => m <= j
    BY <2>2
  <2>4. CASE m = 0
    BY <1>10, <1>12, <2>3, <2>4
  <2>5. CASE m # 0
    <3>1. PICK d : d = m \div base
      OBVIOUS
    <3>2. m \in Nat /\ d \in 0..n /\ d \in Nat /\ ~(m <= d) /\ d * base <= m /\ m < (d + 1) * base
      BY <1>1, <2>3, <2>5, <3>1, Division
    <3>3. Digits_(d)
      BY <2>3, <3>2
    <3>4. PICK k \in Nat, x \in Nat \ {0} : k = w[d] /\ x = p[k]
      BY <1>12, <3>3
    <3>5. w[m] = k + 1 /\ p[k + 1] = base * x /\ d < x
      <4>1. w[m] = 1 + w[d]
        BY <1>10, <2>3, <2>5, <3>1
      <4>2. p[k + 1] = base * p[k]
        BY <1>12
      <4> QED
        BY <3>3, <3>4, <4>1, <4>2
    <3>6. m < base * x
      <4>1. (d + 1) * base <= x * base
        <5>1. d + 1 <= x /\ d + 1 \in Int
          BY <3>2, <3>5
        <5> QED
          BY <5>1, Cancels
      <4>2. x * base = base * x
        OBVIOUS
      <4> QED
        BY <3>2, <4>1, <4>2
    <3>7. x <= m
      <4>1. CASE k = 0
        BY <1>12, <2>5, <3>2, <3>4, <4>1
      <4>2. CASE k > 0
        <5>1. PICK z \in Nat : z = p[k - 1]
          BY <1>12, <4>2
        <5>2. z <= d
          BY <3>3, <3>4, <4>2, <5>1
        <5>3. x = base * z
          <6>1. k - 1 \in Nat /\ (k - 1) + 1 = k
            BY <4>2
          <6> QED
            BY <1>12, <3>4, <5>1, <6>1
        <5>4. z * base <= d * base /\ z * base = base * z
          BY <3>2, <5>2, Cancels
        <5> QED
          BY <3>2, <5>3, <5>4
      <4> QED
        BY <4>1, <4>2
    <3>8. w[m] - 1 = k /\ w[m] \in Nat
      BY <3>5
    <3>9. Digits_(m)
      BY <3>4, <3>5, <3>6, <3>7, <3>8
    <3> QED
      BY <2>3, <3>9
  <2> QED
    BY <2>4, <2>5
<1> QED
  BY <1>9, <1>11, <1>13

(* One bit of a root: whether it is set or not, the root is between the same bounds. *)
LEMMA BitKeeps ==
  ASSUME NEW n \in Nat, NEW t \in Nat, NEW s \in Nat, t * t <= n, n < (t + 2 * s) * (t + 2 * s),
         NEW r, r = IF (t + s) * (t + s) <= n THEN t + s ELSE t
  PROVE  r \in Nat /\ r * r <= n /\ n < (r + s) * (r + s)
<1>1. (t + s) + s = t + 2 * s
  OBVIOUS
<1> QED
  BY <1>1

(* BigInt::sqrt finds the root of the greatest square that is not greater. *)
LEMMA RootIs ==
  ASSUME NEW n \in Nat
  PROVE  Root(n) \in Nat /\ Root(n) * Root(n) <= n /\ n < (Root(n) + 1) * (Root(n) + 1)
<1>1. PICK bits, p : bits = Width(n, 4) /\ p = Powers(2)
  OBVIOUS
<1>2. bits \in Nat /\ n < Powers(4)[bits]
  <2>1. 4 \in Nat /\ 4 >= 2
    OBVIOUS
  <2> QED
    BY <1>1, <2>1, WidthIs
<1>3. p[0] = 1 /\ \A i \in Nat : p[i] \in Nat \ {0} /\ p[i + 1] = 2 * p[i]
  <2>1. 2 \in Int /\ 2 \in Nat \ {0}
    OBVIOUS
  <2> QED
    BY <1>1, <2>1, PowerSteps, PowerPositive
<1> DEFINE Bit(t, i) == IF (t + p[bits - i]) * (t + p[bits - i]) <= n THEN t + p[bits - i] ELSE t
           down == [m \in Nat |-> m - 1]
           h == [m \in Nat |-> [x \in Nat |-> IF m \in 0..bits THEN Bit(x, m) ELSE 0]]
           Recursion(f) == f = [i \in 0..bits |-> IF i = 0 THEN 0 ELSE Bit(f[i - 1], i)]
<1>4. \A m \in Nat : down[m] = m - 1
  OBVIOUS
<1>5. \A m \in Nat, x \in Nat : h[m][x] \in Nat /\ (m \in 0..bits => h[m][x] = Bit(x, m))
  <2>1. \A m \in 0..bits, x \in Nat : Bit(x, m) \in Nat
    <3>1. ASSUME NEW m \in 0..bits, NEW x \in Nat
          PROVE  Bit(x, m) \in Nat
      <4>1. bits - m \in Nat
        BY <1>2
      <4>2. p[bits - m] \in Nat
        BY <1>3, <4>1
      <4> QED
        BY <4>2
    <3> QED
      BY <3>1
  <2> HIDE DEF Bit
  <2> QED
    BY <2>1
<1>6. Root(n) = (CHOOSE f : Recursion(f))[bits]
  BY <1>1 DEF Root
<1> HIDE DEF down, h
<1>7. Downward(down)
  BY <1>4 DEF Downward
<1>8. PICK f \in [Nat -> Nat] : f[0] = 0 /\ \A m \in Nat : m # 0 => f[m] = h[m][f[down[m]]]
  <2>1. PICK S : S = Nat
    OBVIOUS
  <2>2. 0 \in S /\ Keeps(h, S)
    BY <1>5, <2>1, Zenon DEF Keeps
  <2>3. \E f \in [Nat -> S] : f[0] = 0 /\ \A m \in Nat : m # 0 => f[m] = h[m][f[down[m]]]
    BY <1>7, <2>2, Descent
  <2> QED
    BY <2>1, <2>3
<1>9. PICK v : v = [m \in 0..bits |-> f[m]]
  OBVIOUS
<1> HIDE DEF Bit
<1>10. Recursion(v)
  <2>1. ASSUME NEW m \in 0..bits
        PROVE  f[m] = IF m = 0 THEN 0 ELSE Bit(v[m - 1], m)
    <3>1. CASE m # 0
      <4>1. PICK d : d = m - 1
        OBVIOUS
      <4>2. d \in 0..bits /\ d \in Nat /\ m \in Nat /\ down[m] = d
        BY <1>2, <1>4, <3>1, <4>1
      <4>3. f[d] \in Nat /\ f[m] = h[m][f[d]] /\ v[d] = f[d]
        BY <1>8, <1>9, <3>1, <4>2
      <4> QED
        BY <1>5, <3>1, <4>1, <4>2, <4>3
    <3> QED
      BY <1>8, <3>1
  <2> QED
    BY <1>9, <2>1
<1>11. PICK t : Recursion(t) /\ Root(n) = t[bits]
  BY <1>6, <1>10
<1>12. t[0] = 0 /\ \A i \in 0..bits : i # 0 => t[i] = Bit(t[i - 1], i)
  <2>1. \A i \in 0..bits : t[i] = IF i = 0 THEN 0 ELSE Bit(t[i - 1], i)
    BY <1>11, Zenon
  <2>2. 0 \in 0..bits
    BY <1>2
  <2> QED
    BY <2>1, <2>2, Zenon
<1> DEFINE Between(i) == /\ t[i] \in Nat /\ t[i] * t[i] <= n
                         /\ n < (t[i] + p[bits - i]) * (t[i] + p[bits - i])
           I == {i \in Nat : i <= bits => Between(i)}
<1>13. Nat \subseteq I
  <2>1. 0 \in I
    <3>1. PICK x \in Nat : x = p[bits]
      BY <1>2, <1>3
    <3>2. Powers(4)[bits] = x * x
      <4>1. PICK two \in Int : two = 2
        OBVIOUS
      <4>2. Powers(two * two)[bits] = Powers(two)[bits] * Powers(two)[bits]
        BY <1>2, PowerOfProduct
      <4>3. two * two = 4
        BY <4>1
      <4> QED
        BY <1>1, <3>1, <4>1, <4>2, <4>3
    <3>3. bits - 0 = bits /\ 0 * 0 = 0 /\ (0 + x) = x
      BY <1>2
    <3>4. Between(0)
      BY <1>2, <1>12, <3>1, <3>2, <3>3
    <3> QED
      BY <3>4
  <2>2. ASSUME NEW i \in Nat, i \in I, i + 1 <= bits
        PROVE  Between(i + 1)
    <3>1. PICK u, s : u = t[i] /\ s = p[bits - (i + 1)]
      OBVIOUS
    <3>2. bits - (i + 1) \in Nat /\ bits - i = (bits - (i + 1)) + 1 /\ i + 1 \in 0..bits /\ (i + 1) - 1 = i /\ i + 1 # 0
      BY <1>2, <2>2
    <3>3. s \in Nat /\ p[bits - i] = 2 * s
      BY <1>3, <3>1, <3>2
    <3>4. u \in Nat /\ u * u <= n /\ n < (u + 2 * s) * (u + 2 * s)
      BY <1>2, <2>2, <3>1, <3>3
    <3>5. t[i + 1] = IF (u + s) * (u + s) <= n THEN u + s ELSE u
      BY <1>12, <3>1, <3>2 DEF Bit
    <3>6. t[i + 1] \in Nat /\ t[i + 1] * t[i + 1] <= n /\ n < (t[i + 1] + s) * (t[i + 1] + s)
      BY <3>3, <3>4, <3>5, BitKeeps
    <3> QED
      BY <3>1, <3>6
  <2>3. \A i \in Nat : i \in I => i + 1 \in I
    BY <2>2
  <2> HIDE DEF I
  <2> QED
    BY <2>1, <2>3, Induction
<1>14. Between(bits) /\ bits - bits = 0
  BY <1>2, <1>13
<1> QED
  BY <1>3, <1>11, <1>14

LEMMA SqrtCutsOff ==
  ASSUME NEW x \in Decimals, NEW g \in Scales, x.coeff >= 0
  PROVE  LET r == Sqrt(x, g)  S == pow10(x.scale)
         IN  /\ r.scale = Larger(g, x.scale)
             /\ r.coeff \in Int
             /\ r.coeff * r.coeff * S <= x.coeff * pow10(2 * r.scale)
             /\ x.coeff * pow10(2 * r.scale) < (r.coeff + 1) * (r.coeff + 1) * S
<1>1. PICK xs, xc, s, k : xs = x.scale /\ xc = x.coeff /\ s = Larger(xs, g) /\ k = 2 * s - xs
  OBVIOUS
<1>2. xs \in Nat /\ xc \in Nat /\ s \in Nat /\ k \in Nat /\ k + xs = 2 * s /\ s = Larger(g, xs)
  <2>1. xs \in Nat /\ xc \in Nat /\ g \in Nat
    BY <1>1, DecimalTyped DEF Scales
  <2> QED
    BY <1>1, <2>1 DEF Larger
<1>3. PICK ex, t, u : ex = pow10(xs) /\ t = pow10(k) /\ u = pow10(2 * s)
  OBVIOUS
<1>4. ex \in Nat \ {0} /\ t \in Nat \ {0} /\ u = t * ex
  BY <1>2, <1>3, Tens
<1>5. PICK n \in Nat : n = xc * t
  BY <1>2, <1>4
<1>6. PICK r : r = Root(n)
  OBVIOUS
<1>7. r \in Nat /\ r * r <= n /\ n < (r + 1) * (r + 1)
  BY <1>6, RootIs
<1>8. n * ex = xc * u
  BY <1>2, <1>4, <1>5
<1>9. r * r * ex <= n * ex /\ n * ex < (r + 1) * (r + 1) * ex
  <2>1. r * r \in Int /\ (r + 1) * (r + 1) \in Int
    BY <1>7
  <2> QED
    BY <1>4, <1>7, <2>1, Cancels
<1>10. Sqrt(x, g) = BCNum(r, s)
  BY <1>1, <1>3, <1>5, <1>6 DEF Sqrt, SqrtScaleAndShift
<1> QED
  BY <1>1, <1>2, <1>3, <1>7, <1>8, <1>9, <1>10 DEF BCNum

(* The length of a number counts its digits: those of its integer part, or those of its     *)
(* fraction if there is none.                                                               *)
LEMMA LengthCounts ==
  ASSUME NEW x \in Decimals
  PROVE  LET r == Length(x)
         IN  /\ r.scale = 0
             /\ r.coeff \in Nat
             /\ r.coeff >= Larger(1, x.scale)
             /\ Abs(x.coeff) < pow10(r.coeff)
             /\ r.coeff > Larger(1, x.scale) => Abs(x.coeff) >= pow10(r.coeff - 1)
<1>1. PICK xs, m, ex, int : xs = x.scale /\ m = Abs(x.coeff) /\ ex = pow10(xs) /\ int = m \div ex
  OBVIOUS
<1>2. xs \in Nat /\ m \in Nat
  BY <1>1, DecimalTyped DEF Abs
<1>3. ex \in Nat \ {0}
  BY <1>1, <1>2, Tens
<1>4. int \in Nat /\ int * ex <= m /\ m < (int + 1) * ex
  BY <1>1, <1>2, <1>3, Division
<1>5. PICK n : n = Length(x).coeff
  OBVIOUS
<1>6. Length(x).scale = 0 /\ n = BCNumLength(int = 0, DigitCount(int), xs)
  BY <1>1, <1>5 DEF Length, BCNum
<1>7. CASE int = 0
  <2>1. n = Larger(xs, 1)
    BY <1>6, <1>7 DEF BCNumLength
  <2>2. n \in Nat /\ n >= xs /\ n = Larger(1, xs)
    BY <1>2, <2>1 DEF Larger
  <2>3. m < pow10(n)
    <3>1. PICK d \in Nat : d = n - xs
      BY <1>2, <2>2
    <3>2. n = d + xs
      BY <1>2, <2>2, <3>1
    <3>3. PICK u \in Nat \ {0} : u = pow10(d)
      BY Tens
    <3>4. pow10(n) = u * ex
      BY <1>1, <1>2, <3>2, <3>3, Tens
    <3>5. 1 * ex <= u * ex
      BY <1>3, Cancels
    <3>6. m < 1 * ex
      BY <1>4, <1>7
    <3> QED
      BY <1>2, <1>3, <3>4, <3>5, <3>6
  <2> QED
    BY <1>1, <1>5, <1>6, <2>2, <2>3
<1>8. CASE int # 0
  <2>1. PICK w, p : w = Width(int, 10) /\ p = Powers(10)
    OBVIOUS
  <2>2. w \in Nat /\ int < p[w] /\ (w > 0 => p[w - 1] <= int)
    <3>1. 10 \in Nat /\ 10 >= 2
      OBVIOUS
    <3> QED
      BY <1>4, <2>1, <3>1, WidthIs
  <2>3. w > 0
    <3>1. p[0] = 1
      BY <2>1, PowerSteps
    <3> QED
      BY <1>4, <1>8, <2>2, <3>1
  <2>4. n = w + xs
    BY <1>6, <1>8, <2>1, <2>2, <2>3 DEF BCNumLength, DigitCount, Larger
  <2>5. PICK u, v : u = pow10(w) /\ v = pow10(w - 1)
    OBVIOUS
  <2>6. u \in Nat \ {0} /\ v \in Nat \ {0} /\ int < u /\ v <= int
    <3>1. w - 1 \in Nat
      BY <2>2, <2>3
    <3> QED
      BY <2>1, <2>2, <2>3, <2>5, <3>1, Tens DEF pow10
  <2>7. pow10(n) = u * ex
    BY <1>1, <1>2, <2>2, <2>4, <2>5, Tens
  <2>8. pow10(n - 1) = v * ex
    <3>1. n - 1 = (w - 1) + xs /\ w - 1 \in Nat
      BY <1>2, <2>2, <2>3, <2>4
    <3> QED
      BY <1>1, <1>2, <2>5, <3>1, Tens
  <2>9. (int + 1) * ex <= u * ex /\ v * ex <= int * ex
    <3>1. int + 1 <= u /\ int + 1 \in Int
      BY <1>4, <2>6
    <3> QED
      BY <1>3, <1>4, <2>6, <3>1, Cancels
  <2>10. m < pow10(n) /\ m >= pow10(n - 1)
    <3>1. u * ex \in Int /\ v * ex \in Int /\ int * ex \in Int /\ (int + 1) * ex \in Int
      BY <1>3, <1>4, <2>6
    <3> QED
      BY <1>2, <1>4, <2>7, <2>8, <2>9, <3>1
  <2>11. n \in Nat /\ n >= Larger(1, xs)
    BY <1>2, <2>2, <2>3, <2>4 DEF Larger
  <2> QED
    BY <1>1, <1>5, <1>6, <2>10, <2>11
<1> QED
  BY <1>7, <1>8

(* Numbers are compared by what they are, whatever their scales. *)
LEMMA RelateCompares ==
  ASSUME NEW x \in Decimals, NEW y \in Decimals, NEW rel \in Relations
  PROVE  /\ Relate(rel, x, y).scale = 0
         /\ Relate(rel, x, y).coeff =
              IF Holds(rel, x.coeff * pow10(y.scale), y.coeff * pow10(x.scale)) THEN 1 ELSE 0
<1>1. PICK xs, ys, xc, yc, k, l : /\ xs = x.scale /\ ys = y.scale /\ xc = x.coeff /\ yc = y.coeff
                                  /\ k = Larger(ys - xs, 0) /\ l = Larger(xs - ys, 0)
  OBVIOUS
<1>2. {xs, ys, k, l} \subseteq Nat /\ xc \in Int /\ yc \in Int /\ k + xs = l + ys
  BY <1>1, DecimalTyped DEF Larger
<1>3. PICK d : d = Lesser(xs, ys)
  OBVIOUS
<1>4. d \in Nat /\ ys = k + d /\ xs = l + d
  BY <1>1, <1>2, <1>3 DEF Lesser, Larger
<1>5. PICK t, u, v : t = pow10(d) /\ u = pow10(k) /\ v = pow10(l)
  OBVIOUS
<1>6. {t, u, v} \subseteq Nat \ {0} /\ pow10(ys) = u * t /\ pow10(xs) = v * t
  BY <1>2, <1>4, <1>5, Tens
<1>7. PICK m, n : m = xc * u /\ n = yc * v
  OBVIOUS
<1>8. m \in Int /\ n \in Int /\ t \in Nat \ {0} /\ xc * (u * t) = m * t /\ yc * (v * t) = n * t
  BY <1>2, <1>6, <1>7
<1>9. Holds(rel, m, n) <=> Holds(rel, m * t, n * t)
  <2>1. /\ m * t <= n * t <=> m <= n
        /\ m * t < n * t <=> m < n
        /\ m * t = n * t <=> m = n
    BY <1>8, Cancels
  <2>2. m * t \in Int /\ n * t \in Int
    BY <1>8
  <2>3. rel \in {"==", "<=", ">=", "!=", "<", ">"}
    BY DEF Relations
  <2>4. PICK e \in Int, f \in Int : e = m * t /\ f = n * t
    BY <2>2
  <2> QED
    BY <1>8, <2>1, <2>3, <2>4 DEF Holds
<1>10. Relate(rel, x, y) = BCNum(IF Holds(rel, m, n) THEN 1 ELSE 0, 0)
  BY <1>1, <1>5, <1>7 DEF Relate, RelationalScaleShifts
<1>11. Holds(rel, m, n) <=> Holds(rel, x.coeff * pow10(y.scale), y.coeff * pow10(x.scale))
  BY <1>1, <1>6, <1>8, <1>9
<1> QED
  BY <1>10, <1>11 DEF BCNum

LEMMA StepCounts ==
  ASSUME NEW x \in Decimals, NEW sign \in {-1, 1}
  PROVE  /\ Sum(x, BCNum(1, 0), sign).scale = x.scale
         /\ Sum(x, BCNum(1, 0), sign).coeff \in Int
         /\ Sum(x, BCNum(1, 0), sign).coeff = x.coeff + sign * pow10(x.scale)
<1>1. PICK u, xs, xc : u = BCNum(1, 0) /\ xs = x.scale /\ xc = x.coeff
  OBVIOUS
<1>2. xs \in Nat /\ xc \in Int /\ u.coeff = 1 /\ u.scale = 0
  BY <1>1, DecimalTyped DEF BCNum
<1>3. Larger(xs, 0) = xs /\ xs - xs = 0 /\ xs - 0 = xs
  BY <1>2 DEF Larger
<1>4. /\ Sum(x, u, sign).scale = xs
      /\ Sum(x, u, sign).coeff \in Int
      /\ Sum(x, u, sign).coeff = xc * pow10(0) + sign * 1 * pow10(xs)
  BY <1>1, <1>2, <1>3, SumExact, SMTT(30)
<1>5. pow10(0) = 1 /\ pow10(xs) \in Int
  BY <1>2, Tens
<1>6. xc * 1 + sign * 1 * pow10(xs) = xc + sign * pow10(xs)
  BY <1>2, <1>5
<1> QED
  BY <1>1, <1>4, <1>5, <1>6

(* Every operation that is carried out gives the exact result, cut off at its scale. *)
Correct(op, x, y, g) ==
  /\ Result(op, x, y, g).coeff \in Int
  /\ Result(op, x, y, g).scale = ScaleOf(op, x, y, g)
  /\ Truncated(op, x, y, g, Result(op, x, y, g))

LEMMA ResultCorrect ==
  ASSUME NEW op \in Operations, NEW x \in Decimals, NEW y \in Decimals, NEW g \in Scales,
         ~Refused(op, x, y, g)
  PROVE  Correct(op, x, y, g)
<1>1. PICK xs, ys, xc, yc, ex, ey : /\ xs = x.scale /\ ys = y.scale /\ xc = x.coeff /\ yc = y.coeff
                                    /\ ex = pow10(xs) /\ ey = pow10(ys)
  OBVIOUS
<1>2. xs \in Nat /\ ys \in Nat /\ xc \in Int /\ yc \in Int /\ g \in Nat
  BY <1>1, DecimalTyped DEF Scales
<1>3. ex \in Nat \ {0} /\ ey \in Nat \ {0}
  BY <1>1, <1>2, Tens
<1>4. CASE op = "+"
  <2>1. 1 \in {-1, 1} /\ xc * ey + 1 * (yc * ex) = xc * ey + yc * ex
    BY <1>2, <1>3
  <2>2. /\ Sum(x, y, 1).coeff \in Int /\ Sum(x, y, 1).scale = Larger(xs, ys)
        /\ CutOff(Sum(x, y, 1), xc * ey + 1 * (yc * ex), pow10(xs + ys))
    BY <1>1, <1>2, <2>1, SumExact
  <2>3. CutOff(Sum(x, y, 1), xc * ey + yc * ex, pow10(xs + ys))
    BY <2>1, <2>2
  <2>4. Result(op, x, y, g) = Sum(x, y, 1) /\ ScaleOf(op, x, y, g) = Larger(xs, ys)
    BY <1>1, <1>4 DEF Result, ScaleOf
  <2>5. Truncated(op, x, y, g, Sum(x, y, 1))
    BY <1>1, <1>4, <2>3 DEF Truncated, Relations
  <2> QED
    BY <2>2, <2>4, <2>5 DEF Correct
<1>5. CASE op = "-"
  <2>1. -1 \in {-1, 1} /\ xc * ey + (-1) * (yc * ex) = xc * ey - yc * ex
    BY <1>2, <1>3
  <2>2. /\ Sum(x, y, -1).coeff \in Int /\ Sum(x, y, -1).scale = Larger(xs, ys)
        /\ CutOff(Sum(x, y, -1), xc * ey + (-1) * (yc * ex), pow10(xs + ys))
    BY <1>1, <1>2, <2>1, SumExact
  <2>3. CutOff(Sum(x, y, -1), xc * ey - yc * ex, pow10(xs + ys))
    BY <2>1, <2>2
  <2>4. Result(op, x, y, g) = Sum(x, y, -1) /\ ScaleOf(op, x, y, g) = Larger(xs, ys)
    BY <1>1, <1>5 DEF Result, ScaleOf
  <2>5. Truncated(op, x, y, g, Sum(x, y, -1))
    BY <1>1, <1>5, <2>3 DEF Truncated, Relations
  <2> QED
    BY <2>2, <2>4, <2>5 DEF Correct
<1>6. CASE op = "*"
  <2>1. /\ Mul(x, y, g).coeff \in Int
        /\ Mul(x, y, g).scale = Lesser(x.scale + y.scale, Larger(g, Larger(x.scale, y.scale)))
        /\ CutOff(Mul(x, y, g), x.coeff * y.coeff, pow10(x.scale + y.scale))
    BY MulCutsOff
  <2>2. /\ Result(op, x, y, g) = Mul(x, y, g)
        /\ ScaleOf(op, x, y, g) = Lesser(x.scale + y.scale, Larger(g, Larger(x.scale, y.scale)))
    BY <1>6 DEF Result, ScaleOf
  <2>3. Truncated(op, x, y, g, Mul(x, y, g))
    BY <1>6, <2>1 DEF Truncated, Relations
  <2> QED
    BY <2>1, <2>2, <2>3 DEF Correct
<1>7. CASE op = "/"
  <2>1. yc # 0
    BY <1>1, <1>7 DEF Refused
  <2>2. /\ Div(x, y, g).coeff \in Int /\ Div(x, y, g).scale = g
        /\ CutOff(Div(x, y, g), xc * ey * Sign(yc), Abs(yc) * ex)
    BY <1>1, <1>2, <2>1, DivCutsOff
  <2>3. Sign(yc * ex) = Sign(yc) /\ Abs(yc * ex) = Abs(yc) * ex
    BY <1>2, <1>3, AbsTimes
  <2>4. CutOff(Div(x, y, g), xc * ey * Sign(yc * ex), Abs(yc * ex))
    BY <2>2, <2>3
  <2>5. Result(op, x, y, g) = Div(x, y, g) /\ ScaleOf(op, x, y, g) = g
    BY <1>7 DEF Result, ScaleOf
  <2>6. Truncated(op, x, y, g, Div(x, y, g))
    BY <1>1, <1>7, <2>4 DEF Truncated, Relations
  <2> QED
    BY <2>2, <2>5, <2>6 DEF Correct
<1>8. CASE op = "%"
  <2>1. yc # 0
    BY <1>1, <1>8 DEF Refused
  <2>2. Mod(x, y, g).scale = Larger(g + ys, xs) /\ Mod(x, y, g).coeff \in Int
    BY <1>1, <2>1, ModLeaves
  <2>3. Result(op, x, y, g) = Mod(x, y, g) /\ ScaleOf(op, x, y, g) = Larger(g + ys, xs)
    BY <1>1, <1>8 DEF Result, ScaleOf
  <2>4. Truncated(op, x, y, g, Mod(x, y, g))
    BY <1>8 DEF Truncated, Relations
  <2> QED
    BY <2>2, <2>3, <2>4 DEF Correct
<1>9. CASE op = "^"
  <2>1. PICK e, r, c, s : /\ e = Exponent(y) /\ r = Pow(x, y, g)
                          /\ c = Powers(xc)[Abs(e)] /\ s = Powers(ex)[Abs(e)]
    OBVIOUS
  <2>2. /\ e \in Int /\ r.coeff \in Int
        /\ e >= 0 => r.scale = Lesser(xs * e, Larger(g, xs)) /\ CutOff(r, c, s)
        /\ e < 0 => r.scale = g /\ CutOff(r, s * Sign(c), Abs(c))
    BY <1>1, <1>9, <2>1, PowCutsOff
  <2>3. Result(op, x, y, g) = r
    BY <1>9, <2>1 DEF Result
  <2>4. CASE e >= 0
    <3>1. ~(e < 0)
      BY <2>2, <2>4
    <3>2. ScaleOf(op, x, y, g) = Lesser(xs * e, Larger(g, xs))
      BY <1>1, <1>9, <2>1, <2>4, <3>1 DEF ScaleOf
    <3>3. Truncated(op, x, y, g, r)
      BY <1>1, <1>9, <2>1, <2>2, <2>4, <3>1 DEF Truncated, Relations
    <3> QED
      BY <2>2, <2>3, <2>4, <3>2, <3>3 DEF Correct
  <2>5. CASE e < 0
    <3>1. ~(e >= 0)
      BY <2>2, <2>5
    <3>2. Exponent(y) < 0 /\ ~(Exponent(y) >= 0)
      BY <2>1, <2>5, <3>1
    <3>3. ScaleOf(op, x, y, g) = g
      BY <1>9, <3>2 DEF ScaleOf
    <3>4. Truncated(op, x, y, g, r)
      BY <1>1, <1>9, <2>1, <2>2, <2>5, <3>1 DEF Truncated, Relations
    <3> QED
      BY <2>2, <2>3, <2>5, <3>3, <3>4 DEF Correct
  <2> QED
    BY <2>2, <2>4, <2>5
<1>10. CASE op = "sqrt"
  <2>1. xc >= 0
    BY <1>1, <1>2, <1>10 DEF Refused
  <2>2. PICK r : r = Sqrt(x, g)
    OBVIOUS
  <2>3. /\ r.scale = Larger(g, xs) /\ r.coeff \in Int
        /\ r.coeff * r.coeff * ex <= xc * pow10(2 * r.scale)
        /\ xc * pow10(2 * r.scale) < (r.coeff + 1) * (r.coeff + 1) * ex
    BY <1>1, <2>1, <2>2, SqrtCutsOff
  <2>4. Result(op, x, y, g) = r /\ ScaleOf(op, x, y, g) = Larger(g, xs)
    BY <1>1, <1>10, <2>2 DEF Result, ScaleOf
  <2>5. Truncated(op, x, y, g, r)
    BY <1>1, <1>10, <2>3 DEF Truncated, Relations
  <2> QED
    BY <2>3, <2>4, <2>5 DEF Correct
<1>11. CASE op = "length"
  <2>1. PICK r : r = Length(x)
    OBVIOUS
  <2>2. /\ r.scale = 0 /\ r.coeff \in Int
        /\ r.coeff >= Larger(1, xs)
        /\ Abs(xc) < pow10(r.coeff)
        /\ r.coeff > Larger(1, xs) => Abs(xc) >= pow10(r.coeff - 1)
    BY <1>1, <2>1, LengthCounts
  <2>3. Result(op, x, y, g) = r /\ ScaleOf(op, x, y, g) = 0
    BY <1>11, <2>1 DEF Result, ScaleOf
  <2>4. Truncated(op, x, y, g, r)
    BY <1>1, <1>11, <2>2 DEF Truncated, Relations
  <2> QED
    BY <2>2, <2>3, <2>4 DEF Correct
<1>12. CASE op = "scale"
  <2>1. PICK r : r = BCNum(xs, 0)
    OBVIOUS
  <2>2. r.coeff = xs /\ r.scale = 0 /\ r.coeff \in Int
    BY <1>2, <2>1 DEF BCNum
  <2>3. Result(op, x, y, g) = r /\ ScaleOf(op, x, y, g) = 0
    BY <1>1, <1>12, <2>1 DEF Result, ScaleOf
  <2>4. Truncated(op, x, y, g, r)
    BY <1>1, <1>12, <2>2 DEF Truncated, Relations
  <2> QED
    BY <2>2, <2>3, <2>4 DEF Correct
<1>13. CASE op = "neg"
  <2>1. PICK r : r = BCNum(-xc, xs)
    OBVIOUS
  <2>2. r.coeff = -xc /\ r.scale = xs /\ r.coeff \in Int
    BY <1>2, <2>1 DEF BCNum
  <2>3. Result(op, x, y, g) = r /\ ScaleOf(op, x, y, g) = xs
    BY <1>1, <1>13, <2>1 DEF Result, ScaleOf
  <2>4. Truncated(op, x, y, g, r)
    BY <1>1, <1>13, <2>2 DEF Truncated, Relations
  <2> QED
    BY <2>2, <2>3, <2>4 DEF Correct
<1>14. CASE op = "++"
  <2>1. PICK r : r = Sum(x, BCNum(1, 0), 1)
    OBVIOUS
  <2>2. 1 \in {-1, 1}
    OBVIOUS
  <2>3. r.scale = xs /\ r.coeff \in Int /\ r.coeff = xc + 1 * ex
    BY <1>1, <2>1, <2>2, StepCounts
  <2>4. r.coeff = xc + ex
    BY <1>2, <1>3, <2>3
  <2>5. Result(op, x, y, g) = r /\ ScaleOf(op, x, y, g) = xs
    BY <1>1, <1>14, <2>1 DEF Result, ScaleOf
  <2>6. Truncated(op, x, y, g, r)
    BY <1>1, <1>14, <2>4 DEF Truncated, Relations
  <2> QED
    BY <2>3, <2>5, <2>6 DEF Correct
<1>15. CASE op = "--"
  <2>1. PICK r : r = Sum(x, BCNum(1, 0), -1)
    OBVIOUS
  <2>2. -1 \in {-1, 1}
    OBVIOUS
  <2>3. r.scale = xs /\ r.coeff \in Int /\ r.coeff = xc + (-1) * ex
    BY <1>1, <2>1, <2>2, StepCounts
  <2>4. r.coeff = xc - ex
    BY <1>2, <1>3, <2>3
  <2>5. Result(op, x, y, g) = r /\ ScaleOf(op, x, y, g) = xs
    BY <1>1, <1>15, <2>1 DEF Result, ScaleOf
  <2>6. Truncated(op, x, y, g, r)
    BY <1>1, <1>15, <2>4 DEF Truncated, Relations
  <2> QED
    BY <2>3, <2>5, <2>6 DEF Correct
<1>16. CASE op \in Relations
  <2>1. PICK r : r = Relate(op, x, y)
    OBVIOUS
  <2>2. r.scale = 0 /\ r.coeff = (IF Holds(op, xc * ey, yc * ex) THEN 1 ELSE 0) /\ r.coeff \in Int
    BY <1>1, <1>16, <2>1, RelateCompares
  <2>3. /\ op \notin {"+", "-", "*", "/", "%", "^", "sqrt", "length", "scale", "neg", "++", "--"}
    BY <1>16 DEF Relations
  <2>4. Result(op, x, y, g) = r
    BY <2>1, <2>3 DEF Result
  <2>5. ScaleOf(op, x, y, g) = 0
    BY <2>3 DEF ScaleOf
  <2>6. Truncated(op, x, y, g, r)
    BY <1>1, <1>16, <2>2, <2>3 DEF Truncated
  <2> QED
    BY <2>2, <2>4, <2>5, <2>6 DEF Correct
<1> QED
  BY <1>4, <1>5, <1>6, <1>7, <1>8, <1>9, <1>10, <1>11, <1>12, <1>13, <1>14, <1>15, <1>16 DEF Operations

-----------------------------------------------------------------------------
(* Constants are typed, and so is every number the calculator reaches. *)

Integral(seq) == Len(seq) \in Nat /\ \A i \in 1..Len(seq) : seq[i] \in Int

(* The value of a sequence of digits, digit by digit. *)
LEMMA DigitsSteps ==
  ASSUME NEW base \in Int, NEW seq, Integral(seq)
  PROVE  \E value : /\ value[0] = 0 /\ DigitsValue(seq, base) = value[Len(seq)]
                    /\ \A i \in 0..Len(seq) : value[i] \in Int
                    /\ \A i \in 1..Len(seq) : value[i] = value[i - 1] * base + seq[i]
<1>1. PICK n \in Nat : n = Len(seq) /\ \A i \in 1..n : seq[i] \in Int
  BY DEF Integral
<1> DEFINE Digit(t, i) == t * base + seq[i]
           down == [m \in Nat |-> m - 1]
           h == [m \in Nat |-> [x \in Int |-> IF m \in 1..n THEN Digit(x, m) ELSE 0]]
           Recursion(f) == f = [i \in 0..n |-> IF i = 0 THEN 0 ELSE Digit(f[i - 1], i)]
<1>2. \A m \in Nat : down[m] = m - 1
  OBVIOUS
<1>3. \A m \in Nat, x \in Int : h[m][x] \in Int /\ (m \in 1..n => h[m][x] = Digit(x, m))
  <2>1. \A m \in 1..n, x \in Int : Digit(x, m) \in Int
    BY <1>1
  <2> HIDE DEF Digit
  <2> QED
    BY <2>1
<1>4. DigitsValue(seq, base) = (CHOOSE f : Recursion(f))[n]
  BY <1>1 DEF DigitsValue
<1> HIDE DEF down, h
<1>5. Downward(down)
  BY <1>2 DEF Downward
<1>6. PICK f \in [Nat -> Int] : f[0] = 0 /\ \A m \in Nat : m # 0 => f[m] = h[m][f[down[m]]]
  <2>1. PICK S : S = Int
    OBVIOUS
  <2>2. 0 \in S
    BY <2>1
  <2>3. Keeps(h, S)
    BY <1>3, <2>1, Zenon DEF Keeps
  <2>4. \E f \in [Nat -> S] : f[0] = 0 /\ \A m \in Nat : m # 0 => f[m] = h[m][f[down[m]]]
    BY <1>5, <2>2, <2>3, Descent
  <2> QED
    BY <2>1, <2>4
<1>7. PICK v : v = [m \in 0..n |-> f[m]]
  OBVIOUS
<1> HIDE DEF Digit
<1>8. Recursion(v)
  <2>1. ASSUME NEW m \in 0..n
        PROVE  f[m] = IF m = 0 THEN 0 ELSE Digit(v[m - 1], m)
    <3>1. CASE m # 0
      <4>1. PICK d : d = m - 1
        OBVIOUS
      <4>2. d \in 0..n /\ d \in Nat /\ m \in Nat /\ m \in 1..n /\ down[m] = d
        BY <1>2, <3>1, <4>1
      <4>3. f[d] \in Int /\ f[m] = h[m][f[d]] /\ v[d] = f[d]
        BY <1>6, <1>7, <3>1, <4>2
      <4> QED
        BY <1>3, <3>1, <4>1, <4>2, <4>3
    <3> QED
      BY <1>6, <3>1
  <2> QED
    BY <1>7, <2>1
<1>9. PICK t : Recursion(t) /\ DigitsValue(seq, base) = t[n]
  BY <1>4, <1>8
<1>10. \A i \in 0..n : t[i] = IF i = 0 THEN 0 ELSE Digit(t[i - 1], i)
  BY <1>9, Zenon
<1>11. t[0] = 0
  <2>1. 0 \in 0..n
    OBVIOUS
  <2> QED
    BY <1>10, <2>1, Zenon
<1>12. \A i \in 1..n : t[i] = t[i - 1] * base + seq[i]
  <2>1. \A i \in 1..n : i \in 0..n /\ i # 0
    OBVIOUS
  <2>2. \A i \in 1..n : t[i] = Digit(t[i - 1], i)
    BY <1>10, <2>1, Zenon
  <2> QED
    BY <2>2, Zenon DEF Digit
<1> DEFINE I == {i \in Nat : i <= n => t[i] \in Int}
<1>13. Nat \subseteq I
  <2>1. 0 \in I
    BY <1>11
  <2>2. ASSUME NEW i \in Nat, i \in I, i + 1 <= n
        PROVE  t[i + 1] \in Int
    <3>1. i + 1 \in 1..n /\ (i + 1) - 1 = i /\ t[i] \in Int
      BY <2>2
    <3>2. t[i + 1] = t[i] * base + seq[i + 1] /\ seq[i + 1] \in Int
      BY <1>1, <1>12, <3>1
    <3> QED
      BY <3>1, <3>2
  <2>3. \A i \in Nat : i \in I => i + 1 \in I
    BY <2>2
  <2> HIDE DEF I
  <2> QED
    BY <2>1, <2>3, Induction
<1>14. \A i \in 0..n : t[i] \in Int
  BY <1>13
<1> QED
  BY <1>1, <1>9, <1>11, <1>12, <1>14

LEMMA DigitsTyped ==
  ASSUME NEW base \in Int, NEW seq \in Seq(Int)
  PROVE  DigitsValue(seq, base) \in Int
<1>1. PICK n \in Nat : n = Len(seq)
  OBVIOUS
<1>2. Integral(seq)
  BY DEF Integral
<1>3. PICK value : DigitsValue(seq, base) = value[n] /\ \A i \in 0..n : value[i] \in Int
  BY <1>1, <1>2, DigitsSteps
<1>4. n \in 0..n
  OBVIOUS
<1> QED
  BY <1>3, <1>4

(* A constant is read as a number with as many decimals as it has digits after the point. *)
LEMMA ConstantTyped ==
  ASSUME NEW lit \in Literals, NEW base \in Bases, Len(lit.frac) <= BC_SCALE_MAX
  PROVE  FromString(lit, base) \in Decimals
<1>1. base \in Nat \ {0, 1} /\ lit.int \in Seq(0..15) /\ lit.frac \in Seq(0..15)
  BY NumbersConstantsOK
<1> DEFINE digit(d) == IF Len(lit.int \o lit.frac) > 1 /\ d >= base THEN base - 1 ELSE d
           read(seq) == [i \in DOMAIN seq |-> digit(seq[i])]
<1>2. ASSUME NEW seq \in Seq(0..15)
      PROVE  DigitsValue(read(seq), base) \in Int
  <2>1. \A i \in 1..Len(seq) : seq[i] \in Int
    BY <1>2, SMTT(30)
  <2>2. ASSUME NEW i \in 1..Len(seq)
        PROVE  digit(seq[i]) \in Int
    <3>1. seq[i] \in Int /\ base \in Int /\ base - 1 \in Int
      BY <1>1, <2>1
    <3> QED
      BY <3>1
  <2> HIDE DEF digit
  <2>3. read(seq) \in Seq(Int)
    <3>1. DOMAIN seq = 1..Len(seq) /\ Len(seq) \in Nat
      BY <1>2
    <3>2. read(seq) \in [1..Len(seq) -> Int]
      BY <2>2, <3>1
    <3> HIDE DEF read
    <3> QED
      BY <3>1, <3>2
  <2> HIDE DEF read
  <2> QED
    BY <1>1, <2>3, DigitsTyped
<1>3. PICK n, unit, whole, part : /\ n = Len(lit.frac) /\ unit = Powers(base)[n]
                                  /\ whole = DigitsValue(read(lit.int), base)
                                  /\ part = DigitsValue(read(lit.frac), base)
  OBVIOUS
<1>4. n \in Scales /\ n \in Nat
  BY <1>1, <1>3, NumbersConstantsOK DEF Scales
<1>5. whole \in Int /\ part \in Int
  BY <1>1, <1>2, <1>3
<1>6. unit \in Nat \ {0} /\ pow10(n) \in Nat \ {0}
  BY <1>1, <1>3, <1>4, PowerPositive, Tens
<1>7. (whole * unit + part) * pow10(n) \in Int
  BY <1>5, <1>6
<1>8. Quot((whole * unit + part) * pow10(n), unit) \in Int
  BY <1>6, <1>7, Quotient
<1>9. FromString(lit, base) = [coeff |-> Quot((whole * unit + part) * pow10(n), unit), scale |-> n]
  BY <1>3 DEF FromString, BCNum
<1> QED
  BY <1>4, <1>8, <1>9 DEF Decimals

(* The inductive invariant: all the numbers are numbers of at most BC_SCALE_MAX decimals. *)
Typed == a \in Decimals /\ b \in Decimals /\ scale \in Scales

LEMMA TypedScales == Typed => ScalesBounded
<1> SUFFICES ASSUME Typed
             PROVE  ScalesBounded
  OBVIOUS
<1>1. a.scale \in Scales /\ b.scale \in Scales /\ scale \in Scales
  BY DEF Typed, Decimals
<1> QED
  BY <1>1 DEF ScalesBounded, Scales

Number(x) == x = BCNum(x.coeff, x.scale)

LEMMA ResultShape ==
  ASSUME NEW op, NEW x, NEW y, NEW g
  PROVE  Number(Result(op, x, y, g))
<1>1. \A c, d : Number(BCNum(c, d))
  BY DEF Number, BCNum
<1>2. \A u, v, s : Number(Sum(u, v, s))
  BY <1>1 DEF Sum
<1>3. Number(Mul(x, y, g)) /\ \A u, v : Number(Div(u, v, g))
  BY <1>1 DEF Mul, Div
<1>4. Number(Mod(x, y, g))
  BY <1>2 DEF Mod
<1>5. Number(Pow(x, y, g))
  BY <1>1, <1>3 DEF Pow
<1>6. Number(Sqrt(x, g)) /\ Number(Length(x)) /\ Number(Relate(op, x, y))
  BY <1>1 DEF Sqrt, Length, Relate
<1> HIDE DEF Number
<1> QED
  BY <1>1, <1>2, <1>3, <1>4, <1>5, <1>6 DEF Result

LEMMA NextKeepsTypes == Typed /\ [Next]_vars => Typed'
<1> SUFFICES ASSUME Typed, [Next]_vars
             PROVE  Typed'
  OBVIOUS
<1>1. a \in Decimals /\ b \in Decimals /\ scale \in Scales
  BY DEF Typed
<1>2. a'.scale \in Scales /\ b'.scale \in Scales /\ scale' \in Scales
  <2>1. ScalesBounded'
    BY TypedScales, NextKeepsScales
  <2> QED
    BY <2>1 DEF ScalesBounded, Scales
<1>3. ASSUME NEW op \in Operations, Compute(op)
      PROVE  a' \in Decimals /\ b' = b
  <2>1. ~Refused(op, a, b, scale) /\ a' = Result(op, a, b, scale) /\ b' = b
    BY <1>3 DEF Compute
  <2>2. a'.coeff \in Int
    BY <1>1, <2>1, ResultCorrect DEF Correct
  <2>3. Number(a')
    BY <2>1, ResultShape
  <2> QED
    BY <1>2, <2>1, <2>2, <2>3 DEF Number, BCNum, Decimals
<1>4. CASE Store
  BY <1>1, <1>4 DEF Store, Typed
<1>5. CASE StoreScale
  BY <1>1, <1>2, <1>5 DEF StoreScale, Typed
<1>6. ASSUME NEW lit \in Literals, NEW base \in Bases, Literal(lit, base)
      PROVE  b' \in Decimals /\ a' = a
  BY <1>6, ConstantTyped DEF Literal
<1>7. CASE UNCHANGED vars
  BY <1>1, <1>7 DEF vars, Typed
<1> QED
  BY <1>1, <1>2, <1>3, <1>4, <1>5, <1>6, <1>7 DEF Next, Typed

LEMMA InitiallyTyped == Init => Typed
BY NumbersConstantsOK DEF Init, Typed, Decimals, Scales, BCNum

LEMMA TypedTruncated == Typed => ResultsTruncated
<1> SUFFICES ASSUME Typed, NEW op \in Operations, ~Refused(op, a, b, scale)
             PROVE  LET r == Result(op, a, b, scale)
                    IN  r.scale = ScaleOf(op, a, b, scale) /\ Truncated(op, a, b, scale, r)
  BY DEF ResultsTruncated
<1> QED
  BY ResultCorrect DEF Typed, Correct

LEMMA TypedRemainders == Typed => RemaindersExact
<1> SUFFICES ASSUME Typed, ~Refused("%", a, b, scale)
             PROVE  LET r    == Mod(a, b, scale)
                        unit == pow10(r.scale - scale - b.scale)
                        left == a.coeff * pow10(r.scale - a.scale) - r.coeff
                    IN  /\ Abs(r.coeff) < Abs(b.coeff) * unit
                        /\ r.coeff # 0 => Sign(r.coeff) = Sign(a.coeff)
                        /\ Abs(left) % (Abs(b.coeff) * unit) = 0
  BY DEF RemaindersExact
<1>1. b.coeff # 0
  BY DEF Refused
<1> QED
  BY <1>1, ModExact DEF Typed

-----------------------------------------------------------------------------
(* What is printed: the digits of the integer part by division, those of the fraction by    *)
(* multiplying what is left.                                                                *)

LEMMA Remainders ==
  ASSUME NEW m \in Nat, NEW y \in Nat \ {0}
  PROVE  m \div y \in Nat /\ m % y \in 0..(y - 1) /\ m = (m \div y) * y + (m % y)
<1>1. PICK q, r : q = m \div y /\ r = m % y
  OBVIOUS
<1>2. q \in Nat /\ r \in 0..(y - 1) /\ m = y * q + r
  BY <1>1
<1> QED
  BY <1>1, <1>2

LEMMA DivisionIs ==
  ASSUME NEW m \in Nat, NEW y \in Nat \ {0}, NEW q \in Nat, q * y <= m, m < (q + 1) * y
  PROVE  m \div y = q
<1>1. PICK d \in Nat : d = m \div y
  BY Division
<1>2. d * y <= m /\ m < (d + 1) * y
  BY <1>1, Division
<1>3. d * y \in Int /\ q * y \in Int /\ (d + 1) * y \in Int /\ (q + 1) * y \in Int
  OBVIOUS
<1>4. d * y < (q + 1) * y /\ q * y < (d + 1) * y
  BY <1>2, <1>3
<1>5. d < q + 1 /\ q < d + 1
  <2>1. d + 1 \in Int /\ q + 1 \in Int
    OBVIOUS
  <2> QED
    BY <1>4, <2>1, Cancels
<1> QED
  BY <1>1, <1>5

LEMMA DivisionSteps ==
  ASSUME NEW n \in Nat, NEW m \in Nat \ {0}, NEW base \in Nat \ {0}
  PROVE  n \div m = (n \div (base * m)) * base + ((n \div m) % base)
<1>1. PICK q \in Nat : q = n \div m
  BY Division
<1>2. PICK d \in Nat, e \in 0..(base - 1) : d = q \div base /\ e = q % base /\ q = d * base + e
  BY Remainders
<1>3. q * m <= n /\ n < (q + 1) * m
  BY <1>1, Division
<1>4. PICK s \in Nat \ {0} : s = base * m
  OBVIOUS
<1>5. d * s <= n
  <2>1. d * base \in Nat /\ d * base <= q
    BY <1>2
  <2>2. (d * base) * m <= q * m
    BY <2>1, Cancels
  <2>3. d * s = (d * base) * m /\ d * s \in Nat /\ q * m \in Nat
    BY <1>4
  <2> QED
    BY <1>3, <2>2, <2>3
<1>6. n < (d + 1) * s
  <2>1. (d + 1) * base \in Nat /\ q + 1 <= (d + 1) * base
    BY <1>2
  <2>2. (q + 1) * m <= ((d + 1) * base) * m
    <3>1. q + 1 \in Int /\ (d + 1) * base \in Int
      BY <2>1
    <3> QED
      BY <2>1, <3>1, Cancels
  <2>3. (d + 1) * s = ((d + 1) * base) * m /\ (d + 1) * s \in Nat /\ (q + 1) * m \in Nat
    BY <1>4
  <2> QED
    BY <1>3, <2>2, <2>3
<1>7. n \div s = d
  BY <1>4, <1>5, <1>6, DivisionIs
<1> QED
  BY <1>1, <1>2, <1>4, <1>7

LEMMA SequenceOf ==
  ASSUME NEW D, NEW n \in Nat, NEW seq \in [1..n -> D]
  PROVE  seq \in Seq(D) /\ Len(seq) = n
OBVIOUS

LEMMA SequenceWidened ==
  ASSUME NEW base \in Nat, NEW seq \in Seq(0..(base - 1))
  PROVE  seq \in Seq(Int)
<1>1. PICK n \in Nat : n = Len(seq)
  OBVIOUS
<1>2. DOMAIN seq = 1..n /\ seq = [i \in 1..n |-> seq[i]]
  BY <1>1
<1>3. \A i \in 1..n : seq[i] \in Int
  <2>1. \A i \in 1..n : seq[i] \in 0..(base - 1)
    BY <1>1
  <2> QED
    BY <2>1
<1>4. PICK D : D = Int
  OBVIOUS
<1>5. seq \in [1..n -> D]
  BY <1>2, <1>3, <1>4
<1> QED
  BY <1>4, <1>5, SequenceOf

LEMMA DigitsOfPowers ==
  ASSUME NEW base \in Nat \ {0}, NEW n \in Nat, NEW m \in Nat
  PROVE  (n \div Powers(base)[m]) % base \in 0..(base - 1)
<1>1. PICK u \in Nat \ {0} : u = Powers(base)[m]
  BY PowerPositive
<1>2. n \div u \in Nat
  BY Remainders
<1> QED
  BY <1>1, <1>2, Remainders

(* The digits of n, the first of them not zero. *)
LEMMA WholeDigits ==
  ASSUME NEW base \in Nat \ {0}, base >= 2, NEW n \in Nat, NEW seq, Len(seq) = Width(n, base),
         \A i \in 1..Len(seq) : seq[i] = (n \div Powers(base)[Len(seq) - i]) % base
  PROVE  /\ DigitsValue(seq, base) = n
         /\ Len(seq) > 0 => seq[1] # 0
<1>0. PICK p : p = Powers(base)
  OBVIOUS
<1>1. PICK count \in Nat : count = Width(n, base) /\ p = Powers(base)
  BY <1>0, WidthIs
<1>2. p[0] = 1 /\ \A i \in Nat : p[i] \in Nat \ {0} /\ p[i + 1] = base * p[i]
  <2>1. base \in Int
    OBVIOUS
  <2> QED
    BY <1>1, <2>1, PowerSteps, PowerPositive
<1>3. n < p[count] /\ (count > 0 => p[count - 1] <= n)
  BY <1>1, WidthIs
<1>4. Len(seq) = count /\ \A i \in 1..count : seq[i] = (n \div p[count - i]) % base
  BY <1>1
<1>5. ASSUME NEW i \in 1..count
      PROVE  seq[i] \in Int
  <2>1. count - i \in Nat
    OBVIOUS
  <2>2. (n \div p[count - i]) % base \in 0..(base - 1)
    BY <1>1, <2>1, DigitsOfPowers
  <2> QED
    BY <1>4, <2>2
<1>8. PICK value : /\ value[0] = 0 /\ DigitsValue(seq, base) = value[count]
                   /\ \A i \in 1..count : value[i] = value[i - 1] * base + seq[i]
  <2>1. Integral(seq)
    BY <1>4, <1>5 DEF Integral
  <2>2. base \in Int
    OBVIOUS
  <2>3. PICK value : /\ value[0] = 0 /\ DigitsValue(seq, base) = value[Len(seq)]
                     /\ \A i \in 0..Len(seq) : value[i] \in Int
                     /\ \A i \in 1..Len(seq) : value[i] = value[i - 1] * base + seq[i]
    BY <2>1, <2>2, DigitsSteps
  <2> QED
    BY <1>4, <2>3
<1> DEFINE I == {i \in Nat : i <= count => value[i] = n \div p[count - i]}
<1>9. Nat \subseteq I
  <2>1. 0 \in I
    <3>1. PICK m \in Nat \ {0} : m = p[count]
      BY <1>2
    <3>2. 0 * m <= n /\ n < (0 + 1) * m
      BY <1>3, <3>1
    <3>3. n \div m = 0
      BY <3>2, DivisionIs
    <3>4. count - 0 = count
      OBVIOUS
    <3> QED
      BY <1>8, <3>1, <3>3, <3>4
  <2>2. ASSUME NEW i \in Nat, i \in I, i + 1 <= count
        PROVE  value[i + 1] = n \div p[count - (i + 1)]
    <3>1. PICK k \in Nat : k = count - (i + 1)
      BY <2>2
    <3>2. count - i = k + 1 /\ i + 1 \in 1..count /\ (i + 1) - 1 = i
      BY <2>2, <3>1
    <3>3. PICK m \in Nat \ {0} : m = p[k]
      BY <1>2
    <3>4. p[count - i] = base * m
      BY <1>2, <3>2, <3>3
    <3>5. value[i] = n \div (base * m)
      BY <2>2, <3>4
    <3>6. value[i + 1] = value[i] * base + seq[i + 1] /\ seq[i + 1] = (n \div m) % base
      BY <1>4, <1>8, <3>1, <3>2, <3>3
    <3>7. n \div m = (n \div (base * m)) * base + ((n \div m) % base)
      BY DivisionSteps
    <3> QED
      BY <3>1, <3>3, <3>5, <3>6, <3>7
  <2>3. \A i \in Nat : i \in I => i + 1 \in I
    BY <2>2
  <2> HIDE DEF I
  <2> QED
    BY <2>1, <2>3, Induction
<1>10. DigitsValue(seq, base) = n
  <2>1. value[count] = n \div p[count - count] /\ count - count = 0
    BY <1>9
  <2>2. n \div 1 = n
    OBVIOUS
  <2> QED
    BY <1>2, <1>8, <2>1, <2>2
<1>11. ASSUME Len(seq) > 0
       PROVE  seq[1] # 0
  <2>1. count > 0
    BY <1>4, <1>11
  <2>2. PICK m \in Nat \ {0} : m = p[count - 1]
    <3>1. count - 1 \in Nat
      BY <2>1
    <3> QED
      BY <1>2, <3>1
  <2>3. PICK q \in Nat : q = n \div m
    BY Division
  <2>4. q * m <= n /\ n < (q + 1) * m
    BY <2>3, Division
  <2>5. q # 0
    BY <1>3, <2>1, <2>2, <2>4
  <2>6. p[count] = base * m
    <3>1. count - 1 \in Nat /\ (count - 1) + 1 = count
      BY <2>1
    <3> QED
      BY <1>2, <2>2, <3>1
  <2>7. q < base
    <3>1. q * m < base * m
      <4>1. q * m \in Nat /\ base * m \in Nat
        OBVIOUS
      <4> QED
        BY <1>3, <2>4, <2>6, <4>1
    <3> QED
      BY <3>1, Cancels
  <2>8. q % base = q
    <3>1. q = 0 * base + q /\ q \in 0..(base - 1)
      BY <2>7
    <3> QED
      BY <3>1
  <2>9. seq[1] = (n \div p[count - 1]) % base
    <3>1. 1 \in 1..count
      BY <2>1
    <3> QED
      BY <1>4, <3>1
  <2> QED
    BY <2>2, <2>3, <2>5, <2>8, <2>9
<1> QED
  BY <1>10, <1>11

(* Enough digits are printed to tell apart what the decimals tell apart. *)
LEMMA FractionWidth ==
  ASSUME NEW d \in Nat, NEW base \in Nat \ {0}, base >= 2
  PROVE  /\ FractionDigits(d, base) \in Nat
         /\ pow10(d) <= Powers(base)[FractionDigits(d, base)]
         /\ base = 10 \/ d = 0 => FractionDigits(d, base) = d
<1>1. CASE base = 10
  <2>1. FractionDigits(d, base) = d /\ pow10(d) \in Nat
    BY <1>1, Tens DEF FractionDigits
  <2> QED
    BY <1>1, <2>1 DEF pow10
<1>2. CASE d = 0
  <2>1. FractionDigits(d, base) = 0
    BY <1>2 DEF FractionDigits
  <2>2. pow10(0) = 1
    BY Tens
  <2>3. Powers(base)[0] = 1
    BY PowerSteps
  <2> QED
    BY <1>2, <2>1, <2>2, <2>3
<1>3. CASE base # 10 /\ d # 0
  <2>1. PICK p, t : p = Powers(base) /\ t = Powers(10)
    OBVIOUS
  <2>2. p[0] = 1 /\ \A n \in Nat : p[n] \in Nat \ {0} /\ p[n + 1] = base * p[n]
    <3>1. base \in Int
      OBVIOUS
    <3> QED
      BY <2>1, <3>1, PowerSteps, PowerPositive
  <2>3. t[0] = 1 /\ \A n \in Nat : t[n] \in Nat \ {0} /\ t[n + 1] = 10 * t[n]
    BY <2>1, Tens DEF pow10
  <2>4. p[4] >= 10
    <3>1. p[1] = base * p[0] /\ p[2] = base * p[1] /\ p[3] = base * p[2] /\ p[4] = base * p[3]
      <4>1. p[0 + 1] = base * p[0] /\ p[1 + 1] = base * p[1] /\ p[2 + 1] = base * p[2] /\ p[3 + 1] = base * p[3]
        BY <2>2
      <4> QED
        BY <4>1
    <3>2. ASSUME NEW u \in Nat, NEW l \in Nat, u >= l
          PROVE  base * u \in Nat /\ base * u >= 2 * l
      <4>1. PICK c \in Nat : base = 2 + c
        <5>1. base - 2 \in Nat /\ base = 2 + (base - 2)
          OBVIOUS
        <5> QED
          BY <5>1
      <4>2. base * u = 2 * u + c * u /\ c * u \in Nat
        BY <4>1
      <4> QED
        BY <3>2, <4>2
    <3>3. p[1] \in Nat /\ p[1] >= 2 * 1
      BY <2>2, <3>1, <3>2
    <3>4. p[2] \in Nat /\ p[2] >= 2 * 2
      BY <3>1, <3>2, <3>3
    <3>5. p[3] \in Nat /\ p[3] >= 2 * 4
      BY <3>1, <3>2, <3>4
    <3>6. p[4] \in Nat /\ p[4] >= 2 * 8
      BY <3>1, <3>2, <3>5
    <3> QED
      BY <3>6
  <2> DEFINE I == {n \in Nat : t[n] <= p[4 * n]}
  <2>5. Nat \subseteq I
    <3>1. 0 \in I
      BY <2>2, <2>3
    <3>2. ASSUME NEW n \in Nat, n \in I
          PROVE  n + 1 \in I
      <4>1. PICK u \in Nat, v \in Nat, w \in Nat : u = t[n] /\ v = p[4 * n] /\ w = p[4]
        <5>1. 4 * n \in Nat /\ 4 \in Nat
          OBVIOUS
        <5>2. t[n] \in Nat /\ p[4 * n] \in Nat /\ p[4] \in Nat
          BY <2>2, <2>3, <5>1
        <5> QED
          BY <5>2
      <4>2. u <= v /\ w >= 10
        BY <2>4, <3>2, <4>1
      <4>3. t[n + 1] = 10 * u
        BY <2>3, <4>1
      <4>4. p[4 * (n + 1)] = v * w
        <5>1. base \in Int /\ 4 * n \in Nat /\ 4 * (n + 1) = 4 * n + 4
          OBVIOUS
        <5>2. p[4 * n + 4] = p[4 * n] * p[4]
          <6>1. PICK k \in Nat, m \in Nat : k = 4 * n /\ m = 4
            BY <5>1
          <6>2. Powers(base)[k + m] = Powers(base)[k] * Powers(base)[m]
            BY <5>1, PowerAdds
          <6> QED
            BY <2>1, <6>1, <6>2
        <5> QED
          BY <4>1, <5>1, <5>2
      <4>5. 10 * u <= v * w
        <5>1. PICK c \in Nat : w = 10 + c
          <6>1. w - 10 \in Nat /\ w = 10 + (w - 10)
            BY <4>2
          <6> QED
            BY <6>1
        <5>2. v * w = 10 * v + v * c /\ v * c \in Nat
          BY <5>1
        <5> QED
          BY <4>2, <5>2
      <4> QED
        BY <4>3, <4>4, <4>5
    <3> HIDE DEF I
    <3> QED
      BY <3>1, <3>2, Induction
  <2> DEFINE S == {n \in Nat : t[d] <= p[n]}
  <2>6. 4 * d \in S
    BY <2>5
  <2>7. PICK k \in S : \A n \in S : k <= n
    <3>1. S \in SUBSET Nat /\ S # {}
      BY <2>6
    <3> HIDE DEF S
    <3> QED
      BY <3>1, Least
  <2>8. k \in Nat /\ t[d] <= p[k] /\ k <= 4 * d
    BY <2>6, <2>7
  <2>9. k # 0
    <3>1. d - 1 \in Nat /\ (d - 1) + 1 = d
      BY <1>3
    <3>2. t[d] = 10 * t[d - 1] /\ t[d - 1] \in Nat \ {0}
      BY <2>3, <3>1
    <3>3. t[d] > 1
      BY <3>2
    <3>4. ~(t[d] <= 1)
      BY <3>2, <3>3
    <3> QED
      BY <2>2, <2>8, <3>4
  <2>10. k - 1 \in Nat /\ p[k - 1] < t[d]
    <3>1. k - 1 \in Nat /\ k - 1 \notin S
      BY <2>7, <2>8, <2>9
    <3>2. p[k - 1] \in Nat /\ t[d] \in Nat
      BY <2>2, <2>3, <3>1
    <3> QED
      BY <3>1, <3>2
  <2>11. k \in 1..(4 * d) /\ p[k - 1] < t[d] /\ p[k] >= t[d]
    <3>1. p[k] \in Nat /\ t[d] \in Nat
      BY <2>2, <2>3, <2>8
    <3> QED
      BY <2>8, <2>9, <2>10, <3>1
  <2>12. FractionDigits(d, base) = CHOOSE n \in 1..(4 * d) : p[n - 1] < t[d] /\ p[n] >= t[d]
    BY <1>3, <2>1 DEF FractionDigits, pow10
  <2>13. PICK r : r = FractionDigits(d, base)
    OBVIOUS
  <2>14. r \in 1..(4 * d) /\ p[r] >= t[d]
    BY <2>11, <2>12, <2>13
  <2>15. r \in Nat /\ t[d] <= p[r]
    <3>1. r \in Nat
      BY <2>14
    <3>2. p[r] \in Nat /\ t[d] \in Nat
      BY <2>2, <2>3, <3>1
    <3> QED
      BY <2>14, <3>1, <3>2
  <2> QED
    BY <1>3, <2>1, <2>13, <2>15 DEF pow10
<1> QED
  BY <1>1, <1>2, <1>3

(* What is left of the fraction after each digit. *)
Rests(rest, base, unit, part, k) ==
  /\ rest[0] = part
  /\ \A i \in 0..k : rest[i] \in 0..(unit - 1)
  /\ \A i \in 1..k : rest[i] = (rest[i - 1] * base) % unit

LEMMA RestsExist ==
  ASSUME NEW base \in Nat \ {0}, NEW unit \in Nat \ {0}, NEW part \in 0..(unit - 1), NEW k \in Nat, NEW rest,
         rest = CHOOSE f : f = [i \in 0..k |-> IF i = 0 THEN part ELSE (f[i - 1] * base) % unit]
  PROVE  Rests(rest, base, unit, part, k)
<1> DEFINE Left(t) == (t * base) % unit
           down == [m \in Nat |-> m - 1]
           h == [m \in Nat |-> [x \in 0..(unit - 1) |-> Left(x)]]
           Recursion(f) == f = [i \in 0..k |-> IF i = 0 THEN part ELSE Left(f[i - 1])]
<1>1. \A m \in Nat : down[m] = m - 1
  OBVIOUS
<1>2. \A m \in Nat, x \in 0..(unit - 1) : h[m][x] \in 0..(unit - 1) /\ h[m][x] = Left(x)
  <2>1. ASSUME NEW x \in 0..(unit - 1)
        PROVE  Left(x) \in 0..(unit - 1)
    <3>1. x * base \in Nat
      OBVIOUS
    <3> QED
      BY <3>1, Remainders
  <2> HIDE DEF Left
  <2> QED
    BY <2>1
<1>3. rest = CHOOSE f : Recursion(f)
  OBVIOUS
<1> HIDE DEF down, h
<1>4. Downward(down)
  BY <1>1 DEF Downward
<1>5. PICK S : S = 0..(unit - 1)
  OBVIOUS
<1>6. PICK f \in [Nat -> S] : f[0] = part /\ \A m \in Nat : m # 0 => f[m] = h[m][f[down[m]]]
  <2>1. part \in S
    BY <1>5
  <2>2. Keeps(h, S)
    BY <1>2, <1>5, Zenon DEF Keeps
  <2> QED
    BY <1>4, <2>1, <2>2, Descent
<1>7. PICK v : v = [m \in 0..k |-> f[m]]
  OBVIOUS
<1> HIDE DEF Left
<1>8. Recursion(v)
  <2>1. ASSUME NEW m \in 0..k
        PROVE  f[m] = IF m = 0 THEN part ELSE Left(v[m - 1])
    <3>1. CASE m # 0
      <4>1. PICK d : d = m - 1
        OBVIOUS
      <4>2. d \in 0..k /\ d \in Nat /\ m \in Nat /\ down[m] = d
        BY <1>1, <3>1, <4>1
      <4>3. f[d] \in S /\ f[m] = h[m][f[d]] /\ v[d] = f[d]
        BY <1>6, <1>7, <3>1, <4>2
      <4> QED
        BY <1>2, <1>5, <3>1, <4>1, <4>2, <4>3, SMTT(30)
    <3> QED
      BY <1>6, <3>1
  <2> QED
    BY <1>7, <2>1
<1>9. Recursion(rest)
  BY <1>3, <1>8
<1>10. \A i \in 0..k : rest[i] = IF i = 0 THEN part ELSE Left(rest[i - 1])
  BY <1>9, Zenon
<1>11. rest[0] = part
  <2>1. 0 \in 0..k
    OBVIOUS
  <2> QED
    BY <1>10, <2>1, Zenon
<1>12. \A i \in 1..k : rest[i] = Left(rest[i - 1])
  <2>1. \A i \in 1..k : i \in 0..k /\ i # 0
    OBVIOUS
  <2> QED
    BY <1>10, <2>1, Zenon
<1> DEFINE I == {i \in Nat : i <= k => rest[i] \in 0..(unit - 1)}
<1>13. Nat \subseteq I
  <2>1. 0 \in I
    BY <1>11
  <2>2. ASSUME NEW i \in Nat, i \in I, i + 1 <= k
        PROVE  rest[i + 1] \in 0..(unit - 1)
    <3>1. i + 1 \in 1..k /\ (i + 1) - 1 = i /\ rest[i] \in 0..(unit - 1)
      BY <2>2
    <3>2. rest[i + 1] = Left(rest[i])
      BY <1>12, <3>1
    <3>3. rest[i] * base \in Nat
      BY <3>1
    <3>4. (rest[i] * base) % unit \in 0..(unit - 1)
      BY <3>3, Remainders
    <3> QED
      BY <3>2, <3>4 DEF Left
  <2>3. \A i \in Nat : i \in I => i + 1 \in I
    BY <2>2
  <2> HIDE DEF I
  <2> QED
    BY <2>1, <2>3, Induction
<1>14. \A i \in 0..k : rest[i] \in 0..(unit - 1)
  BY <1>13
<1> QED
  BY <1>11, <1>12, <1>14 DEF Rests, Left

LEMMA FractionDigit ==
  ASSUME NEW base \in Nat \ {0}, NEW unit \in Nat \ {0}, NEW part \in 0..(unit - 1), NEW k \in Nat,
         NEW rest, Rests(rest, base, unit, part, k), NEW i \in 1..k
  PROVE  LET q == (rest[i - 1] * base) \div unit
         IN  /\ q \in 0..(base - 1)
             /\ rest[i - 1] \in Nat /\ rest[i] \in Nat
             /\ q * unit + rest[i] = rest[i - 1] * base
<1>1. PICK r \in 0..(unit - 1) : r = rest[i - 1]
  <2>1. i - 1 \in 0..k
    OBVIOUS
  <2> QED
    BY <2>1 DEF Rests
<1>2. PICK m \in Nat : m = r * base
  OBVIOUS
<1>3. PICK q \in Nat, s \in 0..(unit - 1) : q = m \div unit /\ s = m % unit /\ m = q * unit + s
  <2>1. m \div unit \in Nat /\ m % unit \in 0..(unit - 1) /\ m = (m \div unit) * unit + (m % unit)
    BY Remainders
  <2> QED
    BY <2>1
<1>4. (rest[i - 1] * base) \div unit = q /\ rest[i] = s
  BY <1>1, <1>2, <1>3 DEF Rests
<1>5. q < base
  <2>1. q * unit < base * unit
    <3>1. q * unit \in Nat /\ base * unit \in Nat /\ q * unit <= m
      BY <1>3
    <3>2. m < base * unit
      <4>1. r < unit /\ unit \in Nat /\ r \in Int /\ unit \in Int
        BY <1>1
      <4>2. r * base < unit * base
        BY <4>1, Cancels
      <4> QED
        BY <1>2, <4>2
    <3> QED
      BY <3>1, <3>2
  <2> QED
    BY <2>1, Cancels
<1>6. q \in 0..(base - 1) /\ r \in Nat /\ s \in Nat
  BY <1>5
<1>7. q * unit + s = r * base
  BY <1>2, <1>3
<1> QED
  BY <1>1, <1>4, <1>6, <1>7

(* The digits of a fraction, and what they leave of it. *)
LEMMA FractionOf ==
  ASSUME NEW base \in Nat \ {0}, NEW unit \in Nat \ {0}, NEW part \in 0..(unit - 1), NEW k \in Nat,
         NEW rest, Rests(rest, base, unit, part, k),
         NEW seq, Len(seq) = k, \A i \in 1..k : seq[i] = (rest[i - 1] * base) \div unit
  PROVE  /\ \A i \in 1..k : seq[i] \in 0..(base - 1)
         /\ DigitsValue(seq, base) \in Int
         /\ DigitsValue(seq, base) * unit + rest[k] = part * Powers(base)[k]
<1>1. ASSUME NEW i \in 1..k
      PROVE  /\ seq[i] \in 0..(base - 1)
             /\ rest[i - 1] \in Nat /\ rest[i] \in Nat
             /\ seq[i] * unit + rest[i] = rest[i - 1] * base
  BY FractionDigit
<1>2. PICK value : /\ value[0] = 0 /\ DigitsValue(seq, base) = value[k]
                   /\ \A i \in 0..k : value[i] \in Int
                   /\ \A i \in 1..k : value[i] = value[i - 1] * base + seq[i]
  <2>1. Integral(seq)
    BY <1>1 DEF Integral
  <2>2. base \in Int
    OBVIOUS
  <2>3. PICK value : /\ value[0] = 0 /\ DigitsValue(seq, base) = value[Len(seq)]
                     /\ \A i \in 0..Len(seq) : value[i] \in Int
                     /\ \A i \in 1..Len(seq) : value[i] = value[i - 1] * base + seq[i]
    BY <2>1, <2>2, DigitsSteps
  <2> QED
    BY <2>3
<1>3. PICK p : p = Powers(base)
  OBVIOUS
<1>4. p[0] = 1 /\ \A n \in Nat : p[n] \in Nat \ {0} /\ p[n + 1] = base * p[n]
  <2>1. base \in Int
    OBVIOUS
  <2> QED
    BY <1>3, <2>1, PowerSteps, PowerPositive
<1> DEFINE I == {i \in Nat : i <= k => value[i] * unit + rest[i] = part * p[i]}
<1>5. Nat \subseteq I
  <2>1. 0 \in I
    <3>1. rest[0] = part
      BY DEF Rests
    <3>2. 0 * unit + part = part * 1
      OBVIOUS
    <3> QED
      BY <1>2, <1>4, <3>1, <3>2
  <2>2. ASSUME NEW i \in Nat, i \in I, i + 1 <= k
        PROVE  value[i + 1] * unit + rest[i + 1] = part * p[i + 1]
    <3>1. i + 1 \in 1..k /\ (i + 1) - 1 = i /\ i \in 0..k
      BY <2>2
    <3>2. PICK v \in Int, r \in Nat, u \in Nat, d \in Nat, s \in Nat :
            v = value[i] /\ r = rest[i] /\ u = p[i] /\ d = seq[i + 1] /\ s = rest[i + 1]
      <4>1. value[i] \in Int /\ p[i] \in Nat
        BY <1>2, <1>4, <3>1
      <4>2. seq[i + 1] \in Nat /\ rest[i] \in Nat /\ rest[i + 1] \in Nat
        BY <1>1, <3>1
      <4> QED
        BY <4>1, <4>2
    <3>3. v * unit + r = part * u
      BY <2>2, <3>2
    <3>4. d * unit + s = r * base
      BY <1>1, <3>1, <3>2
    <3>5. value[i + 1] = v * base + d /\ p[i + 1] = base * u
      BY <1>2, <1>4, <3>1, <3>2
    <3>6. (v * base + d) * unit + s = part * (base * u)
      <4>1. (v * base + d) * unit + s = (v * unit) * base + (d * unit + s)
        OBVIOUS
      <4>2. (v * unit) * base + r * base = (v * unit + r) * base
        OBVIOUS
      <4>3. (part * u) * base = part * (base * u)
        OBVIOUS
      <4> QED
        BY <3>3, <3>4, <4>1, <4>2, <4>3
    <3> QED
      BY <3>2, <3>5, <3>6
  <2>3. \A i \in Nat : i \in I => i + 1 \in I
    BY <2>2
  <2> HIDE DEF I
  <2> QED
    BY <2>1, <2>3, Induction
<1>6. value[k] * unit + rest[k] = part * p[k] /\ value[k] \in Int
  BY <1>2, <1>5
<1> QED
  BY <1>1, <1>2, <1>3, <1>6

(* A sequence of digits after another counts for its value times a power of the base. *)
LEMMA DigitsAppended ==
  ASSUME NEW base \in Int, NEW s \in Seq(Int), NEW t \in Seq(Int)
  PROVE  DigitsValue(s \o t, base) = DigitsValue(s, base) * Powers(base)[Len(t)] + DigitsValue(t, base)
<1>0. PICK u : u = s \o t
  OBVIOUS
<1>1. PICK m \in Nat, n \in Nat : m = Len(s) /\ n = Len(t)
  OBVIOUS
<1>2. /\ u \in Seq(Int) /\ Len(u) = m + n
      /\ \A i \in 1..m : u[i] = s[i]
      /\ \A i \in 1..n : u[m + i] = t[i]
  BY <1>0, <1>1
<1>3. Integral(s) /\ Integral(t) /\ Integral(u)
  BY <1>1, <1>2 DEF Integral
<1>4. PICK vs : /\ vs[0] = 0 /\ DigitsValue(s, base) = vs[Len(s)]
                /\ \A i \in 0..Len(s) : vs[i] \in Int
                /\ \A i \in 1..Len(s) : vs[i] = vs[i - 1] * base + s[i]
  BY <1>3, DigitsSteps
<1>5. PICK vt : /\ vt[0] = 0 /\ DigitsValue(t, base) = vt[Len(t)]
                /\ \A i \in 0..Len(t) : vt[i] \in Int
                /\ \A i \in 1..Len(t) : vt[i] = vt[i - 1] * base + t[i]
  BY <1>3, DigitsSteps
<1>6. PICK vu : /\ vu[0] = 0 /\ DigitsValue(u, base) = vu[Len(u)]
                /\ \A i \in 0..Len(u) : vu[i] \in Int
                /\ \A i \in 1..Len(u) : vu[i] = vu[i - 1] * base + u[i]
  BY <1>3, DigitsSteps
<1>7. PICK p : p = Powers(base)
  OBVIOUS
<1>8. p[0] = 1 /\ \A i \in Nat : p[i] \in Int /\ p[i + 1] = base * p[i]
  BY <1>7, PowerSteps
<1> DEFINE I == {i \in Nat : i <= m => vu[i] = vs[i]}
<1>9. Nat \subseteq I
  <2>1. 0 \in I
    BY <1>4, <1>6
  <2>2. ASSUME NEW i \in Nat, i \in I, i + 1 <= m
        PROVE  vu[i + 1] = vs[i + 1]
    <3>1. i + 1 \in 1..m /\ i + 1 \in 1..(m + n) /\ (i + 1) - 1 = i /\ vu[i] = vs[i]
      <4>1. vu[i] = vs[i]
        BY <2>2
      <4>2. i + 1 \in 1..m /\ i + 1 \in 1..(m + n) /\ (i + 1) - 1 = i
        BY <2>2
      <4> QED
        BY <4>1, <4>2
    <3>2. vs[i + 1] = vs[i] * base + s[i + 1]
      BY <1>1, <1>4, <3>1
    <3>3. vu[i + 1] = vu[i] * base + u[i + 1] /\ u[i + 1] = s[i + 1]
      BY <1>2, <1>6, <3>1
    <3> QED
      BY <3>1, <3>2, <3>3
  <2>3. \A i \in Nat : i \in I => i + 1 \in I
    BY <2>2
  <2> HIDE DEF I
  <2> QED
    BY <2>1, <2>3, Induction
<1>10. PICK w \in Int : w = vs[m] /\ vu[m] = w
  <2>1. m \in 0..Len(s) /\ m \in I
    BY <1>1, <1>9
  <2> QED
    BY <1>4, <2>1
<1> DEFINE J == {i \in Nat : i <= n => vu[m + i] = w * p[i] + vt[i]}
<1>11. Nat \subseteq J
  <2>1. 0 \in J
    <3>1. w * 1 + 0 = w /\ m + 0 = m
      OBVIOUS
    <3>2. vu[m + 0] = w * p[0] + vt[0]
      BY <1>5, <1>8, <1>10, <3>1
    <3> QED
      BY <3>2
  <2>2. ASSUME NEW i \in Nat, i \in J, i + 1 <= n
        PROVE  vu[m + (i + 1)] = w * p[i + 1] + vt[i + 1]
    <3>1. /\ i + 1 \in 1..n /\ i \in 0..n /\ (i + 1) - 1 = i
          /\ m + (i + 1) \in 1..(m + n) /\ (m + (i + 1)) - 1 = m + i
      BY <2>2
    <3>2. PICK x \in Int, y \in Int, d \in Int : x = p[i] /\ y = vt[i] /\ d = t[i + 1]
      <4>1. p[i] \in Int /\ vt[i] \in Int /\ t[i + 1] \in Int
        BY <1>1, <1>5, <1>8, <3>1
      <4> QED
        BY <4>1
    <3>3. vu[m + i] = w * x + y
      BY <2>2, <3>2
    <3>4. vt[i + 1] = y * base + d /\ p[i + 1] = base * x
      BY <1>1, <1>5, <1>8, <3>1, <3>2
    <3>5. vu[m + (i + 1)] = vu[m + i] * base + d
      <4>1. vu[m + (i + 1)] = vu[(m + (i + 1)) - 1] * base + u[m + (i + 1)]
        BY <1>2, <1>6, <3>1
      <4>2. u[m + (i + 1)] = d
        BY <1>2, <3>1, <3>2
      <4> QED
        BY <3>1, <4>1, <4>2
    <3>6. (w * x + y) * base + d = w * (base * x) + (y * base + d)
      OBVIOUS
    <3> QED
      BY <3>3, <3>4, <3>5, <3>6
  <2>3. \A i \in Nat : i \in J => i + 1 \in J
    BY <2>2
  <2> HIDE DEF J
  <2> QED
    BY <2>1, <2>3, Induction
<1>12. vu[m + n] = w * p[n] + vt[n]
  BY <1>11
<1> QED
  BY <1>0, <1>1, <1>2, <1>4, <1>5, <1>6, <1>7, <1>10, <1>12

(* What Printed(x, base) says of x: left is less than a unit of x and of what is printed. *)
Tells(p, x, base, left) ==
  LET unit == pow10(x.scale)  power == Powers(base)[Len(p.frac)]
  IN  /\ p.int \in Seq(0..(base - 1)) /\ p.frac \in Seq(0..(base - 1))
      /\ p.negative = (x.coeff < 0)
      /\ x.coeff # 0 /\ Len(p.int) > 0 => p.int[1] # 0
      /\ x.coeff # 0 => unit <= power
      /\ x.coeff # 0 /\ base = 10 => Len(p.frac) = x.scale
      /\ left \in 0..(unit - 1) /\ left < power
      /\ Abs(x.coeff) * power
           = (DigitsValue(p.int, base) * power + DigitsValue(p.frac, base)) * unit + left

LEMMA NothingPrinted ==
  ASSUME NEW x \in Decimals, x.coeff = 0, NEW base \in Nat \ {0}, base >= 2
  PROVE  Tells(Printed(x, base), x, base, 0)
<1>1. PICK p, I, F : p = Printed(x, base) /\ I = <<0>> /\ F = <<>>
  OBVIOUS
<1>2. p = [negative |-> FALSE, int |-> I, frac |-> F]
  BY <1>1 DEF Printed
<1>3. p.int = I /\ p.frac = F /\ ~p.negative
  BY <1>2
<1>4. I \in Seq(0..(base - 1)) /\ F \in Seq(0..(base - 1)) /\ Len(I) = 1 /\ Len(F) = 0 /\ I[1] = 0
  BY <1>1
<1>5. base \in Int
  OBVIOUS
<1>6. DigitsValue(I, base) = 0
  <2>1. Integral(I)
    BY <1>4 DEF Integral
  <2>2. PICK value : /\ value[0] = 0 /\ DigitsValue(I, base) = value[Len(I)]
                     /\ \A i \in 0..Len(I) : value[i] \in Int
                     /\ \A i \in 1..Len(I) : value[i] = value[i - 1] * base + I[i]
    BY <1>5, <2>1, DigitsSteps
  <2>3. 1 \in 1..Len(I) /\ 1 - 1 = 0 /\ 0 * base + 0 = 0
    BY <1>4
  <2>4. value[1] = value[1 - 1] * base + I[1]
    BY <2>2, <2>3
  <2> QED
    BY <1>4, <2>2, <2>3, <2>4
<1>7. DigitsValue(F, base) = 0
  <2>1. Integral(F)
    BY <1>4 DEF Integral
  <2>2. PICK value : /\ value[0] = 0 /\ DigitsValue(F, base) = value[Len(F)]
                     /\ \A i \in 0..Len(F) : value[i] \in Int
                     /\ \A i \in 1..Len(F) : value[i] = value[i - 1] * base + F[i]
    BY <1>5, <2>1, DigitsSteps
  <2> QED
    BY <1>4, <2>2
<1>8. Powers(base)[0] = 1
  BY <1>5, PowerSteps
<1>9. PICK unit \in Nat \ {0} : unit = pow10(x.scale)
  BY DecimalTyped, Tens
<1>10. 0 \in 0..(unit - 1) /\ 0 < 1 /\ Abs(x.coeff) = 0 /\ 0 * 1 = (0 * 1 + 0) * unit + 0
  BY DEF Abs
<1>12. p.negative = (x.coeff < 0)
  <2>1. ~(x.coeff < 0)
    OBVIOUS
  <2>2. p.negative = FALSE
    BY <1>2
  <2>3. (x.coeff < 0) = FALSE
    BY <2>1
  <2> QED
    BY <2>2, <2>3, Zenon
<1>11. Tells(p, x, base, 0)
  BY <1>12, <1>3, <1>4, <1>6, <1>7, <1>8, <1>9, <1>10 DEF Tells
<1> QED
  BY <1>1, <1>11

LEMMA DigitsPrinted ==
  ASSUME NEW x \in Decimals, x.coeff # 0, NEW base \in Nat \ {0}, base >= 2
  PROVE  \E left : Tells(Printed(x, base), x, base, left)
<1> DEFINE unit == pow10(x.scale)
           whole == Abs(x.coeff) \div unit
           part == Abs(x.coeff) % unit
           k == FractionDigits(x.scale, base)
           count == Width(whole, base)
           rest == CHOOSE f : f = [i \in 0..k |-> IF i = 0 THEN part ELSE (f[i - 1] * base) % unit]
           I == [i \in 1..count |-> (whole \div Powers(base)[count - i]) % base]
           F == [i \in 1..k |-> (rest[i - 1] * base) \div unit]
<1>9. Printed(x, base) = [negative |-> x.coeff < 0, int |-> I, frac |-> F]
  BY DEF Printed
<1>1. /\ unit = pow10(x.scale) /\ k = FractionDigits(x.scale, base)
      /\ whole = Abs(x.coeff) \div unit /\ part = Abs(x.coeff) % unit
      /\ count = Width(whole, base)
  OBVIOUS
<1>7. rest = CHOOSE f : f = [i \in 0..k |-> IF i = 0 THEN part ELSE (f[i - 1] * base) % unit]
  OBVIOUS
<1>8. /\ I = [i \in 1..count |-> (whole \div Powers(base)[count - i]) % base]
      /\ F = [i \in 1..k |-> (rest[i - 1] * base) \div unit]
  OBVIOUS
<1> HIDE DEF unit, whole, part, k, count, rest, I, F
<1>2. PICK p, d, c, n : p = Printed(x, base) /\ d = x.scale /\ c = x.coeff /\ n = Abs(c)
  OBVIOUS
<1>3. d \in Nat /\ c \in Int /\ n \in Nat /\ unit \in Nat \ {0}
  <2>1. d \in Nat /\ c \in Int
    BY <1>2, DecimalTyped
  <2>2. n \in Nat
    BY <1>2, <2>1 DEF Abs
  <2>3. pow10(d) \in Nat \ {0}
    BY <2>1, Tens
  <2> QED
    BY <1>1, <1>2, <2>1, <2>2, <2>3
<1>4. whole \in Nat /\ part \in 0..(unit - 1) /\ n = whole * unit + part
  <2>1. n \div unit \in Nat /\ n % unit \in 0..(unit - 1) /\ n = (n \div unit) * unit + (n % unit)
    BY <1>3, Remainders
  <2> QED
    BY <1>1, <1>2, <2>1
<1>5. /\ k \in Nat /\ count \in Nat
      /\ unit <= Powers(base)[k] /\ (base = 10 => k = d)
  <2>1. k \in Nat /\ pow10(d) <= Powers(base)[k] /\ (base = 10 \/ d = 0 => k = d)
    BY <1>1, <1>2, <1>3, FractionWidth
  <2>2. count \in Nat
    BY <1>1, <1>4, WidthIs
  <2> QED
    BY <1>1, <1>2, <2>1, <2>2
<1>6. PICK power \in Nat \ {0} : power = Powers(base)[k]
  BY <1>5, PowerPositive
<1>19. Rests(rest, base, unit, part, k)
  BY <1>3, <1>4, <1>5, <1>7, RestsExist
<1>10. p.int = I /\ p.frac = F /\ p.negative = (x.coeff < 0)
  <2>1. PICK z : z = (x.coeff < 0)
    OBVIOUS
  <2>2. p = [negative |-> z, int |-> I, frac |-> F]
    BY <1>2, <1>9, <2>1, Zenon
  <2>3. p.int = I /\ p.frac = F /\ p.negative = z
    BY <2>2
  <2> QED
    BY <2>1, <2>3, Zenon
<1>11. PICK D : D = 0..(base - 1)
  OBVIOUS
<1>12. I \in Seq(D) /\ Len(I) = count /\ DigitsValue(I, base) = whole /\ (Len(I) > 0 => I[1] # 0)
  <2>1. \A i \in 1..count : (whole \div Powers(base)[count - i]) % base \in D
    <3>1. ASSUME NEW i \in 1..count
          PROVE  (whole \div Powers(base)[count - i]) % base \in D
      <4>1. count - i \in Nat
        BY <1>5
      <4> QED
        BY <1>4, <1>11, <4>1, DigitsOfPowers
    <3> QED
      BY <3>1
  <2>2. I \in [1..count -> D] /\ \A i \in 1..count : I[i] = (whole \div Powers(base)[count - i]) % base
    BY <1>8, <2>1
  <2>3. I \in Seq(D) /\ Len(I) = count
    BY <1>5, <2>2, SequenceOf
  <2>4. /\ Len(I) = Width(whole, base)
        /\ \A i \in 1..Len(I) : I[i] = (whole \div Powers(base)[Len(I) - i]) % base
    BY <1>1, <2>2, <2>3
  <2>5. DigitsValue(I, base) = whole /\ (Len(I) > 0 => I[1] # 0)
    BY <1>4, <2>4, WholeDigits
  <2> QED
    BY <2>3, <2>5
<1>13. /\ F \in Seq(D) /\ Len(F) = k /\ DigitsValue(F, base) \in Int
       /\ DigitsValue(F, base) * unit + rest[k] = part * power
  <2>1. \A i \in 1..k : (rest[i - 1] * base) \div unit \in D
    <3>1. ASSUME NEW i \in 1..k
          PROVE  (rest[i - 1] * base) \div unit \in D
      BY <1>3, <1>4, <1>5, <1>11, <1>19, FractionDigit
    <3> QED
      BY <3>1
  <2>2. F \in [1..k -> D] /\ \A i \in 1..k : F[i] = (rest[i - 1] * base) \div unit
    BY <1>8, <2>1
  <2>3. F \in Seq(D) /\ Len(F) = k
    BY <1>5, <2>2, SequenceOf
  <2>4. DigitsValue(F, base) \in Int /\ DigitsValue(F, base) * unit + rest[k] = part * Powers(base)[k]
    BY <1>3, <1>4, <1>5, <1>19, <2>2, <2>3, FractionOf
  <2> QED
    BY <1>6, <2>3, <2>4
<1>14. rest[k] \in 0..(unit - 1)
  BY <1>5, <1>19 DEF Rests
<1>15. PICK left \in 0..(unit - 1), value \in Int : left = rest[k] /\ value = DigitsValue(F, base)
  BY <1>13, <1>14
<1>16. n * power = (whole * power + value) * unit + left
  <2>1. (whole * unit + part) * power = (whole * power) * unit + part * power
    BY <1>3, <1>4
  <2>2. (whole * power + value) * unit = (whole * power) * unit + value * unit
    BY <1>3, <1>4
  <2>3. part * power = value * unit + left
    BY <1>13, <1>15
  <2>4. PICK t \in Int, v \in Int : t = (whole * power) * unit /\ v = value * unit
    BY <1>3, <1>4
  <2>5. n * power = t + part * power /\ (whole * power + value) * unit = t + v /\ part * power = v + left
    BY <1>4, <2>1, <2>2, <2>3, <2>4
  <2>6. t + (v + left) = (t + v) + left
    BY <1>15, <2>4, <1>3
  <2> QED
    BY <2>5, <2>6
<1>17. left < power
  BY <1>3, <1>5, <1>6, <1>15
<1>18. Tells(p, x, base, left)
  <2>1. I \in Seq(0..(base - 1)) /\ F \in Seq(0..(base - 1))
    BY <1>11, <1>12, <1>13
  <2>2. Powers(base)[Len(F)] = power /\ pow10(x.scale) = unit /\ Len(F) = k /\ Abs(x.coeff) = n
    BY <1>1, <1>2, <1>6, <1>13
  <2> QED
    BY <1>2, <1>5, <1>6, <1>10, <1>12, <1>15, <1>16, <1>17, <2>1, <2>2 DEF Tells
<1> QED
  BY <1>2, <1>18

LEMMA Whole ==
  ASSUME NEW base \in Bases
  PROVE  base \in Nat \ {0} /\ base >= 2
BY NumbersConstantsOK

LEMMA TypedPrinted == Typed => PrintedTellsValue
<1> SUFFICES ASSUME Typed, NEW base \in Bases
             PROVE  LET p     == Printed(a, base)
                        value == DigitsValue(p.int \o p.frac, base)
                        unit  == Powers(base)[Len(p.frac)]
                    IN  /\ \A i \in DOMAIN (p.int \o p.frac) : (p.int \o p.frac)[i] \in 0..(base - 1)
                        /\ p.int # <<>> /\ a.coeff # 0 => p.int[1] # 0
                        /\ p.negative = (a.coeff < 0)
                        /\ Abs(a.coeff) * unit - value * pow10(a.scale) \in 0..(unit - 1)
  BY DEF PrintedTellsValue
<1>1. base \in Nat \ {0} /\ base >= 2 /\ a \in Decimals
  BY Whole DEF Typed
<1>2. PICK p, left : p = Printed(a, base) /\ Tells(p, a, base, left)
  BY <1>1, NothingPrinted, DigitsPrinted
<1>3. PICK I, F, D : I = p.int /\ F = p.frac /\ D = 0..(base - 1)
  OBVIOUS
<1>4. I \in Seq(D) /\ F \in Seq(D) /\ I \in Seq(Int) /\ F \in Seq(Int)
  <2>1. I \in Seq(D) /\ F \in Seq(D)
    BY <1>2, <1>3 DEF Tells
  <2>2. I \in Seq(Int) /\ F \in Seq(Int)
    BY <1>1, <1>3, <2>1, SequenceWidened
  <2> QED
    BY <2>1, <2>2
<1>5. \A i \in DOMAIN (I \o F) : (I \o F)[i] \in D
  <2>1. I \o F \in Seq(D)
    BY <1>4
  <2> QED
    BY <2>1
<1>6. PICK k \in Nat : k = Len(F)
  BY <1>4
<1>7. PICK power \in Nat \ {0}, unit \in Nat \ {0}, n \in Nat :
        power = Powers(base)[k] /\ unit = pow10(a.scale) /\ n = Abs(a.coeff)
  <2>1. Powers(base)[k] \in Nat \ {0}
    BY <1>1, <1>6, PowerPositive
  <2>2. a.scale \in Nat /\ a.coeff \in Int
    BY <1>1, DecimalTyped
  <2>3. pow10(a.scale) \in Nat \ {0}
    BY <2>2, Tens
  <2>4. Abs(a.coeff) \in Nat
    BY <2>2 DEF Abs
  <2> QED
    BY <2>1, <2>3, <2>4
<1>8. PICK value \in Int : /\ value = DigitsValue(I \o F, base)
                           /\ value = DigitsValue(I, base) * power + DigitsValue(F, base)
  <2>1. base \in Int
    BY <1>1
  <2>2. DigitsValue(I \o F, base) = DigitsValue(I, base) * power + DigitsValue(F, base)
    BY <1>4, <1>6, <1>7, <2>1, DigitsAppended
  <2>3. DigitsValue(I, base) \in Int /\ DigitsValue(F, base) \in Int
    BY <1>4, <2>1, DigitsTyped
  <2> QED
    BY <2>2, <2>3
<1>9. left \in 0..(unit - 1) /\ left < power /\ n * power = value * unit + left
  BY <1>2, <1>3, <1>6, <1>7, <1>8 DEF Tells
<1>10. n * power - value * unit \in 0..(power - 1)
  <2>1. n * power \in Int /\ value * unit \in Int
    BY <1>7, <1>8
  <2> QED
    BY <1>7, <1>9, <2>1
<1>11. p.negative = (a.coeff < 0) /\ (a.coeff # 0 /\ Len(I) > 0 => I[1] # 0)
  BY <1>2, <1>3 DEF Tells
<1>12. I # <<>> => Len(I) > 0
  BY <1>4
<1> QED
  BY <1>2, <1>3, <1>5, <1>6, <1>7, <1>8, <1>10, <1>11, <1>12

(* Digits below the base are read as they are. *)
LEMMA DigitsRead ==
  ASSUME NEW base \in Nat \ {0}, NEW I \in Seq(0..(base - 1)), NEW F \in Seq(0..(base - 1))
  PROVE  FromString([int |-> I, frac |-> F], base) =
           BCNum(Quot((DigitsValue(I, base) * Powers(base)[Len(F)] + DigitsValue(F, base)) * pow10(Len(F)),
                      Powers(base)[Len(F)]), Len(F))
<1> DEFINE lit == [int |-> I, frac |-> F]
           digit(d) == IF Len(lit.int \o lit.frac) > 1 /\ d >= base THEN base - 1 ELSE d
           read(seq) == [i \in DOMAIN seq |-> digit(seq[i])]
<1>1. lit.int = I /\ lit.frac = F
  OBVIOUS
<1>2. ASSUME NEW seq \in Seq(0..(base - 1))
      PROVE  read(seq) = seq
  <2>1. \A i \in DOMAIN seq : seq[i] \in 0..(base - 1)
    OBVIOUS
  <2>2. \A d \in 0..(base - 1) : ~(d >= base)
    OBVIOUS
  <2>3. \A i \in DOMAIN seq : digit(seq[i]) = seq[i]
    BY <2>1, <2>2
  <2> HIDE DEF digit
  <2>4. read(seq) = [i \in DOMAIN seq |-> seq[i]]
    BY <2>3
  <2> HIDE DEF read
  <2> QED
    BY <2>4
<1>3. FromString(lit, base) =
        BCNum(Quot((DigitsValue(read(lit.int), base) * Powers(base)[Len(lit.frac)]
                      + DigitsValue(read(lit.frac), base)) * pow10(Len(lit.frac)),
                   Powers(base)[Len(lit.frac)]), Len(lit.frac))
  BY DEF FromString
<1> HIDE DEF read, digit
<1>4. read(lit.int) = I /\ read(lit.frac) = F
  BY <1>1, <1>2
<1> HIDE DEF lit
<1> QED
  BY <1>1, <1>3, <1>4 DEF lit

(* n / U is W / B, and what printing left out. *)
LeftOut(n, U, W, B, left) ==
  left \in 0..(U - 1) /\ left < B /\ n * B = W * U + left /\ (n = 0 \/ U <= B)

(* What is lost by printing n to k digits and reading them back as decimals. *)
LEMMA Lost ==
  ASSUME NEW n \in Nat, NEW W \in Int, NEW U \in Nat \ {0}, NEW T \in Nat \ {0}, NEW B \in Nat \ {0},
         NEW left, LeftOut(n, U, W, B, left)
  PROVE  /\ n * T - Quot(W * T, B) * U \in 0..(T + U - 1)
         /\ n = 0 \/ (T = U /\ T = B) => n * T - Quot(W * T, B) * U = 0
<1>0. left \in 0..(U - 1) /\ left < B /\ n * B = W * U + left /\ (n = 0 \/ U <= B)
  BY DEF LeftOut
<1>1. W >= 0
  <2>1. n * B \in Nat /\ W * U > (-1) * U
    <3>1. n * B \in Nat /\ W * U \in Int
      OBVIOUS
    <3>2. W * U >= -left
      BY <1>0, <3>1
    <3> QED
      BY <1>0, <3>1, <3>2
  <2>2. -1 < W
    BY <2>1, Cancels
  <2> QED
    BY <2>2
<1>2. PICK m \in Nat : m = W * T
  BY <1>1
<1>3. PICK q \in Nat : q = Quot(m, B) /\ q * B <= m /\ m < (q + 1) * B
  <2>1. PICK r \in Int : r = Quot(m, B)
    BY <1>2, Quotient
  <2>2. /\ Abs(r) * B <= Abs(m) /\ Abs(m) < (Abs(r) + 1) * B
        /\ r # 0 => Sign(r) = Sign(m)
    BY <1>2, <2>1, Quotient
  <2>3. r >= 0
    BY <1>2, <2>1, <2>2 DEF Sign
  <2>4. Abs(r) = r /\ Abs(m) = m
    BY <2>1, <2>3, <1>2 DEF Abs
  <2> QED
    BY <2>1, <2>2, <2>3, <2>4
<1>4. PICK e \in 0..(B - 1) : m = q * B + e
  <2>1. q * B \in Int /\ (q + 1) * B = q * B + B
    OBVIOUS
  <2>2. m - q * B \in 0..(B - 1) /\ m = q * B + (m - q * B)
    BY <1>3, <2>1
  <2> QED
    BY <2>2
<1>5. PICK lost \in Int : lost = n * T - q * U
  OBVIOUS
<1>6. lost * B = U * e + left * T
  <2>1. lost * B = (n * B) * T - (q * B) * U
    BY <1>5
  <2>2. (n * B) * T = (W * T) * U + left * T
    <3>1. (W * U + left) * T = (W * T) * U + left * T
      BY <1>0
    <3> QED
      BY <1>0, <3>1
  <2>3. (q * B + e) * U = (q * B) * U + U * e
    OBVIOUS
  <2>4. (W * T) * U = (q * B) * U + U * e
    BY <1>2, <1>4, <2>3
  <2>5. PICK x \in Int, y \in Int, z \in Int : x = (q * B) * U /\ y = U * e /\ z = left * T
    BY <1>0
  <2>6. (x + y + z) - x = y + z
    OBVIOUS
  <2> QED
    BY <2>1, <2>2, <2>4, <2>5, <2>6
<1>7. lost >= 0
  <2>1. U * e >= 0 /\ left * T >= 0 /\ U * e \in Int /\ left * T \in Int
    BY <1>0
  <2>2. 0 * B <= lost * B
    BY <1>6, <2>1
  <2> QED
    BY <2>2, Cancels
<1>8. ASSUME n = 0
      PROVE  lost = 0
  <2>1. W = 0
    <3>1. W * U = -left
      <4>1. W * U \in Int /\ n * B = 0
        BY <1>8
      <4> QED
        BY <1>0, <4>1
    <3>2. W * U < 1 * U
      BY <1>0, <3>1
    <3>3. W < 1
      BY <3>2, Cancels
    <3> QED
      BY <1>1, <3>3
  <2>2. m = 0
    BY <1>2, <2>1
  <2>3. q = 0
    <3>1. q * B <= 0 * B
      BY <1>3, <2>2
    <3>2. q <= 0
      BY <3>1, Cancels
    <3> QED
      BY <3>2
  <2> QED
    BY <1>5, <1>8, <2>3
<1>9. ASSUME T = U, T = B
      PROVE  lost = 0
  <2>1. n * B = W * B + left /\ left \in 0..(B - 1)
    BY <1>0, <1>9
  <2>2. W = n
    <3>1. W * B \in Int /\ n * B \in Int /\ (W + 1) * B = W * B + B
      OBVIOUS
    <3>2. W * B <= n * B /\ n * B < (W + 1) * B
      BY <2>1, <3>1
    <3>3. W <= n /\ n < W + 1
      BY <3>2, Cancels
    <3> QED
      BY <3>3
  <2>3. m = n * B
    BY <1>2, <1>9, <2>2
  <2>4. q = n
    <3>1. q * B <= n * B /\ n * B < (q + 1) * B
      BY <1>3, <2>3
    <3>2. q <= n /\ n < q + 1
      BY <3>1, Cancels
    <3> QED
      BY <3>2
  <2> QED
    BY <1>5, <1>9, <2>4
<1>10. ASSUME U <= B
       PROVE  lost < T + U
  <2>1. U * e <= U * (B - 1)
    <3>1. e * U <= (B - 1) * U
      BY Cancels
    <3> QED
      BY <3>1
  <2>2. left * T <= (U - 1) * T
    BY <1>0, Cancels
  <2>3. U * T <= B * T
    BY <1>10, Cancels
  <2>4. PICK x \in Int, y \in Int, v \in Int, w \in Int, z \in Int :
          x = U * e /\ y = left * T /\ v = U * B /\ w = U * T /\ z = B * T
    BY <1>0
  <2>5. x <= v - U /\ y <= w - T /\ w <= z
    <3>1. U * (B - 1) = U * B - U /\ (U - 1) * T = U * T - T
      OBVIOUS
    <3> QED
      BY <2>1, <2>2, <2>3, <2>4, <3>1
  <2>6. (T + U) * B = z + v
    BY <2>4
  <2>7. lost * B < (T + U) * B
    BY <1>6, <2>4, <2>5, <2>6
  <2> QED
    BY <2>7, Cancels
<1>11. lost \in 0..(T + U - 1) /\ (n = 0 \/ (T = U /\ T = B) => lost = 0)
  BY <1>0, <1>7, <1>8, <1>9, <1>10
<1> QED
  BY <1>2, <1>3, <1>5, <1>11

LEMMA TypedReadsBack == Typed => PrintedReadsBack
<1> SUFFICES ASSUME Typed, NEW base \in Bases
             PROVE  LET p    == Printed(a, base)
                        back == FromString([int |-> p.int, frac |-> p.frac], base)
                        lost == Abs(a.coeff) * pow10(back.scale) - back.coeff * pow10(a.scale)
                    IN  /\ lost \in 0..(pow10(back.scale) + pow10(a.scale) - 1)
                        /\ base = 10 => lost = 0
  BY DEF PrintedReadsBack
<1>1. base \in Nat \ {0} /\ base >= 2 /\ base \in Int /\ a \in Decimals
  BY Whole DEF Typed
<1>2. PICK p, left : p = Printed(a, base) /\ Tells(p, a, base, left)
  BY <1>1, NothingPrinted, DigitsPrinted
<1>3. PICK I, F : I = p.int /\ F = p.frac
  OBVIOUS
<1>4. I \in Seq(0..(base - 1)) /\ F \in Seq(0..(base - 1))
  BY <1>2, <1>3 DEF Tells
<1>5. PICK k \in Nat : k = Len(F)
  BY <1>4
<1>6. PICK B \in Nat \ {0}, U \in Nat \ {0}, T \in Nat \ {0}, n \in Nat :
        B = Powers(base)[k] /\ U = pow10(a.scale) /\ T = pow10(k) /\ n = Abs(a.coeff)
  <2>1. Powers(base)[k] \in Nat \ {0}
    BY <1>1, <1>5, PowerPositive
  <2>2. a.scale \in Nat /\ a.coeff \in Int
    BY <1>1, DecimalTyped
  <2>3. pow10(a.scale) \in Nat \ {0} /\ pow10(k) \in Nat \ {0}
    BY <2>2, Tens
  <2>4. Abs(a.coeff) \in Nat
    BY <2>2 DEF Abs
  <2> QED
    BY <2>1, <2>3, <2>4
<1>7. PICK W \in Int : W = DigitsValue(I, base) * B + DigitsValue(F, base)
  <2>1. I \in Seq(Int) /\ F \in Seq(Int)
    BY <1>1, <1>4, SequenceWidened
  <2>2. DigitsValue(I, base) \in Int /\ DigitsValue(F, base) \in Int
    BY <1>1, <2>1, DigitsTyped
  <2> QED
    BY <2>2
<1>8. /\ left \in 0..(U - 1) /\ left < B /\ n * B = W * U + left
      /\ a.coeff # 0 => U <= B
      /\ a.coeff # 0 /\ base = 10 => k = a.scale
  BY <1>2, <1>3, <1>5, <1>6, <1>7 DEF Tells
<1>9. n = 0 <=> a.coeff = 0
  <2>1. a.coeff \in Int
    BY <1>1, DecimalTyped
  <2> QED
    BY <1>6, <2>1 DEF Abs
<1>10. PICK lost : lost = n * T - Quot(W * T, B) * U
  OBVIOUS
<1>11. lost \in 0..(T + U - 1) /\ (n = 0 \/ (T = U /\ T = B) => lost = 0)
  <2>1. LeftOut(n, U, W, B, left)
    BY <1>8, <1>9 DEF LeftOut
  <2>2. /\ n * T - Quot(W * T, B) * U \in 0..(T + U - 1)
        /\ n = 0 \/ (T = U /\ T = B) => n * T - Quot(W * T, B) * U = 0
    BY <2>1, Lost
  <2> QED
    BY <1>10, <2>2
<1>12. base = 10 => lost = 0
  <2>1. base = 10 /\ n # 0 => T = U /\ T = B
    BY <1>6, <1>8, <1>9 DEF pow10
  <2> QED
    BY <1>11, <2>1
<1>13. PICK back : back = FromString([int |-> I, frac |-> F], base)
  OBVIOUS
<1>14. back = BCNum(Quot(W * T, B), k)
  BY <1>1, <1>4, <1>5, <1>6, <1>7, <1>13, DigitsRead
<1>15. back.coeff = Quot(W * T, B) /\ back.scale = k
  BY <1>14 DEF BCNum
<1> QED
  BY <1>2, <1>3, <1>6, <1>10, <1>11, <1>12, <1>13, <1>15

-----------------------------------------------------------------------------
(* The library of mathematics computes numbers: its products and quotients are the exact    *)
(* ones, its series end in integers and never divide by zero.                               *)

Steps(h, S, n) == \A m \in 1..n, x \in S : h[m][x] \in S

(* A function defined by counting up to n exists. *)
LEMMA Counted ==
  ASSUME NEW S, NEW first \in S, NEW n \in Nat, NEW h, Steps(h, S, n)
  PROVE  \E v : /\ \A i \in 0..n : v[i] \in S
                /\ v = [i \in 0..n |-> IF i = 0 THEN first ELSE h[i][v[i - 1]]]
<1> DEFINE down == [m \in Nat |-> m - 1]
           g == [m \in Nat |-> [x \in S |-> IF m \in 1..n THEN h[m][x] ELSE first]]
<1>1. \A m \in Nat : down[m] = m - 1
  OBVIOUS
<1>2. \A m \in Nat, x \in S : g[m][x] \in S /\ (m \in 1..n => g[m][x] = h[m][x])
  BY DEF Steps
<1> HIDE DEF down, g
<1>3. Downward(down)
  BY <1>1 DEF Downward
<1>4. Keeps(g, S)
  BY <1>2, Zenon DEF Keeps
<1>5. PICK f \in [Nat -> S] : f[0] = first /\ \A m \in Nat : m # 0 => f[m] = g[m][f[down[m]]]
  BY <1>3, <1>4, Descent
<1>6. PICK v : v = [m \in 0..n |-> f[m]]
  OBVIOUS
<1>7. \A i \in 0..n : v[i] \in S
  BY <1>5, <1>6
<1>8. ASSUME NEW m \in 0..n
      PROVE  f[m] = IF m = 0 THEN first ELSE h[m][v[m - 1]]
  <2>1. CASE m # 0
    <3>1. PICK d : d = m - 1
      OBVIOUS
    <3>2. d \in 0..n /\ d \in Nat /\ m \in Nat /\ m \in 1..n /\ down[m] = d
      BY <1>1, <2>1, <3>1
    <3>3. f[d] \in S /\ f[m] = g[m][f[d]] /\ v[d] = f[d]
      BY <1>5, <1>6, <2>1, <3>2
    <3> QED
      BY <1>2, <2>1, <3>1, <3>2, <3>3
  <2> QED
    BY <1>5, <2>1
<1>9. v = [i \in 0..n |-> IF i = 0 THEN first ELSE h[i][v[i - 1]]]
  BY <1>6, <1>8
<1> QED
  BY <1>7, <1>9

LEMMA Nested ==
  ASSUME NEW m \in Nat, NEW y \in Nat \ {0}, NEW z \in Nat \ {0}
  PROVE  (m \div y) \div z = m \div (y * z)
<1>1. PICK q \in Nat : q = m \div y /\ q * y <= m /\ m < (q + 1) * y
  BY Division
<1>2. PICK r \in Nat : r = q \div z /\ r * z <= q /\ q < (r + 1) * z
  BY Division
<1>3. PICK w \in Nat \ {0} : w = y * z
  OBVIOUS
<1>4. r * w <= m
  <2>1. r * z \in Int /\ q \in Int
    OBVIOUS
  <2>2. (r * z) * y <= q * y
    BY <1>2, <2>1, Cancels
  <2>3. (r * z) * y = r * w /\ r * w \in Int /\ q * y \in Int
    BY <1>3
  <2> QED
    BY <1>1, <2>2, <2>3
<1>5. m < (r + 1) * w
  <2>1. q + 1 \in Int /\ (r + 1) * z \in Int /\ q + 1 <= (r + 1) * z
    BY <1>2
  <2>2. (q + 1) * y <= ((r + 1) * z) * y
    BY <2>1, Cancels
  <2>3. ((r + 1) * z) * y = (r + 1) * w /\ (r + 1) * w \in Int /\ (q + 1) * y \in Int
    BY <1>3
  <2> QED
    BY <1>1, <2>2, <2>3
<1>6. m \div w = r
  BY <1>3, <1>4, <1>5, DivisionIs
<1> QED
  BY <1>1, <1>2, <1>3, <1>6

LEMMA DivisionAdds ==
  ASSUME NEW k \in Nat, NEW m \in Nat, NEW y \in Nat \ {0}
  PROVE  (k * y + m) \div y = k + (m \div y)
<1>1. PICK q \in Nat : q = m \div y /\ q * y <= m /\ m < (q + 1) * y
  BY Division
<1>2. PICK n \in Nat : n = k * y + m
  OBVIOUS
<1>3. (k + q) * y <= n /\ n < ((k + q) + 1) * y
  <2>1. (k + q) * y = k * y + q * y /\ ((k + q) + 1) * y = k * y + (q + 1) * y
    OBVIOUS
  <2>2. k * y \in Int /\ q * y \in Int /\ (q + 1) * y \in Int
    OBVIOUS
  <2> QED
    BY <1>1, <1>2, <2>1, <2>2
<1>4. n \div y = k + q
  BY <1>2, <1>3, DivisionIs
<1> QED
  BY <1>1, <1>2, <1>4

LEMMA QuotientOfProduct ==
  ASSUME NEW x \in Int, NEW y \in Int, NEW u \in Nat \ {0}
  PROVE  Quot(x * y, u) = Sign(x) * Sign(y) * ((Abs(x) * Abs(y)) \div u)
<1>1. PICK X \in Nat, Y \in Nat : X = Abs(x) /\ Y = Abs(y)
  BY DEF Abs
<1>2. Abs(x * y) = X * Y
  BY <1>1, AbsProduct
<1>3. Sign(x * y) = Sign(x) * Sign(y)
  <2>1. CASE x > 0 /\ y > 0
    <3>1. x * y > 0
      BY <2>1
    <3> QED
      BY <2>1, <3>1 DEF Sign
  <2>2. CASE x < 0 /\ y < 0
    <3>1. x * y > 0
      BY <2>2
    <3> QED
      BY <2>2, <3>1 DEF Sign
  <2>3. CASE x > 0 /\ y < 0
    <3>1. x * y < 0
      BY <2>3
    <3> QED
      BY <2>3, <3>1 DEF Sign
  <2>4. CASE x < 0 /\ y > 0
    <3>1. x * y < 0
      BY <2>4
    <3> QED
      BY <2>4, <3>1 DEF Sign
  <2>5. CASE x = 0 \/ y = 0
    <3>1. x * y = 0
      BY <2>5
    <3>2. Sign(x) \in {-1, 0, 1} /\ Sign(y) \in {-1, 0, 1} /\ (Sign(x) = 0 \/ Sign(y) = 0)
      BY <2>5 DEF Sign
    <3>3. Sign(x) * Sign(y) = 0
      BY <3>2
    <3> QED
      BY <3>1, <3>3 DEF Sign
  <2> QED
    BY <2>1, <2>2, <2>3, <2>4, <2>5
<1>4. Sign(u) = 1 /\ Abs(u) = u
  BY DEF Sign, Abs
<1>5. Sign(x) * Sign(y) * 1 = Sign(x) * Sign(y)
  <2>1. Sign(x) \in Int /\ Sign(y) \in Int
    BY DEF Sign
  <2> QED
    BY <2>1
<1> QED
  BY <1>1, <1>2, <1>3, <1>4, <1>5 DEF Quot

(* Products are exact before they are cut off, although taken a digit at a time. *)
LEMMA TimesIs ==
  ASSUME NEW x \in Int, NEW y \in Int, NEW p \in Nat
  PROVE  Times(x, y, p) = Quot(x * y, pow10(p))
<1>1. PICK X \in Nat, Y \in Nat : X = Abs(x) /\ Y = Abs(y)
  BY DEF Abs
<1>2. PICK t : t = Powers(10)
  OBVIOUS
<1>3. t[0] = 1 /\ \A i \in Nat : t[i] \in Nat \ {0} /\ t[i + 1] = 10 * t[i]
  BY <1>2, Tens DEF pow10
<1> DEFINE Carry(c, i) == (((X \div t[i - 1]) % 10) * Y + c) \div 10
           h == [m \in Nat |-> [c \in Nat |-> Carry(c, m)]]
           Recursion(f) == f = [i \in 0..p |-> IF i = 0 THEN 0 ELSE Carry(f[i - 1], i)]
<1>4. Times(x, y, p) = Sign(x) * Sign(y) * ((X \div t[p]) * Y + (CHOOSE f : Recursion(f))[p])
  BY <1>1, <1>2 DEF Times, pow10
<1>5. ASSUME NEW i \in Nat, NEW c \in Nat, i # 0
      PROVE  (X \div t[i - 1]) % 10 \in Nat /\ Carry(c, i) \in Nat
  <2>1. PICK u \in Nat \ {0} : u = t[i - 1]
    <3>1. i - 1 \in Nat
      BY <1>5
    <3> QED
      BY <1>3, <3>1
  <2>2. X \div u \in Nat
    BY Remainders
  <2>3. PICK d \in Nat : d = (X \div u) % 10
    BY <2>2, Remainders
  <2>4. d * Y + c \in Nat
    OBVIOUS
  <2>5. (d * Y + c) \div 10 \in Nat
    BY <2>4, Remainders
  <2> QED
    BY <2>1, <2>3, <2>5
<1> HIDE DEF Carry
<1>6. \A m \in Nat, c \in Nat : h[m][c] = Carry(c, m)
  OBVIOUS
<1> HIDE DEF h
<1>7. PICK carry : Recursion(carry) /\ Times(x, y, p) = Sign(x) * Sign(y) * ((X \div t[p]) * Y + carry[p])
  <2>1. PICK S : S = Nat
    OBVIOUS
  <2>2. Steps(h, S, p) /\ 0 \in S
    <3>1. \A m \in 1..p : m \in Nat /\ m # 0
      OBVIOUS
    <3> QED
      BY <1>5, <1>6, <2>1, <3>1, SMTT(30) DEF Steps
  <2>3. PICK v : /\ \A i \in 0..p : v[i] \in S
                 /\ v = [i \in 0..p |-> IF i = 0 THEN 0 ELSE h[i][v[i - 1]]]
    BY <2>2, Counted
  <2>4. ASSUME NEW i \in 0..p
        PROVE  v[i] = IF i = 0 THEN 0 ELSE Carry(v[i - 1], i)
    <3>1. CASE i # 0
      <4>1. i \in Nat /\ i - 1 \in 0..p
        BY <3>1
      <4> QED
        BY <1>6, <2>1, <2>3, <3>1, <4>1
    <3> QED
      BY <2>3, <3>1
  <2>5. v = [i \in 0..p |-> v[i]]
    BY <2>3
  <2>6. Recursion(v)
    BY <2>4, <2>5
  <2> QED
    BY <1>4, <2>6
<1>8. carry[0] = 0 /\ \A i \in 1..p : carry[i] = Carry(carry[i - 1], i)
  <2>1. \A i \in 0..p : carry[i] = IF i = 0 THEN 0 ELSE Carry(carry[i - 1], i)
    BY <1>7, Zenon
  <2>2. 0 \in 0..p /\ \A i \in 1..p : i \in 0..p /\ i # 0
    OBVIOUS
  <2> QED
    BY <2>1, <2>2, Zenon
<1> DEFINE I == {i \in Nat : i <= p => carry[i] = ((X % t[i]) * Y) \div t[i]}
<1>9. Nat \subseteq I
  <2>1. 0 \in I
    <3>1. X % 1 = 0 /\ 0 * Y = 0 /\ 0 \div 1 = 0
      OBVIOUS
    <3> QED
      BY <1>3, <1>8, <3>1
  <2>2. ASSUME NEW i \in Nat, i \in I, i + 1 <= p
        PROVE  carry[i + 1] = ((X % t[i + 1]) * Y) \div t[i + 1]
    <3>1. PICK u \in Nat \ {0} : u = t[i] /\ t[i + 1] = 10 * u
      BY <1>3
    <3>2. i + 1 \in 1..p /\ (i + 1) - 1 = i
      BY <2>2
    <3>3. PICK d \in Nat, l \in Nat : d = (X \div u) % 10 /\ l = X % u
      <4>1. X \div u \in Nat /\ X % u \in Nat
        BY Remainders
      <4>2. (X \div u) % 10 \in Nat
        BY <4>1, Remainders
      <4> QED
        BY <4>1, <4>2
    <3>4. X % (10 * u) = d * u + l
      <4>1. PICK q \in Nat, r \in Nat, s \in Nat : q = X \div u /\ r = X \div (10 * u) /\ s = X % (10 * u)
        <5>1. 10 * u \in Nat \ {0}
          OBVIOUS
        <5>2. X \div u \in Nat /\ X \div (10 * u) \in Nat /\ X % (10 * u) \in Nat
          BY <5>1, Remainders
        <5> QED
          BY <5>2
      <4>2. X = q * u + l
        BY <3>3, <4>1, Remainders
      <4>3. X = r * (10 * u) + s
        <5>1. 10 * u \in Nat \ {0}
          OBVIOUS
        <5> QED
          BY <4>1, <5>1, Remainders
      <4>4. q = r * 10 + d
        <5>1. 10 \in Nat \ {0} /\ X \div u \in Nat
          BY Remainders
        <5>2. X \div u = (X \div (10 * u)) * 10 + ((X \div u) % 10)
          BY <5>1, DivisionSteps
        <5> QED
          BY <3>3, <4>1, <5>2
      <4>5. (r * 10 + d) * u = r * (10 * u) + d * u
        OBVIOUS
      <4>6. PICK z \in Int, w \in Int : z = r * (10 * u) /\ w = d * u
        OBVIOUS
      <4>7. X = z + w + l /\ X = z + s
        BY <4>2, <4>3, <4>4, <4>5, <4>6
      <4> QED
        BY <4>1, <4>6, <4>7
    <3>5. PICK m \in Nat : m = l * Y
      OBVIOUS
    <3>6. carry[i] = m \div u
      BY <2>2, <3>1, <3>3, <3>5
    <3>7. carry[i + 1] = (d * Y + (m \div u)) \div 10
      BY <1>8, <3>1, <3>2, <3>3, <3>6 DEF Carry
    <3>8. d * Y + (m \div u) = ((d * Y) * u + m) \div u
      <4>1. d * Y \in Nat
        OBVIOUS
      <4> QED
        BY <4>1, DivisionAdds
    <3>9. (d * Y) * u + m = (d * u + l) * Y /\ (d * u + l) * Y \in Nat
      BY <3>5
    <3>10. (((d * u + l) * Y) \div u) \div 10 = ((d * u + l) * Y) \div (10 * u)
      <4>1. (((d * u + l) * Y) \div u) \div 10 = ((d * u + l) * Y) \div (u * 10)
        BY <3>9, Nested
      <4>2. u * 10 = 10 * u
        OBVIOUS
      <4> QED
        BY <4>1, <4>2
    <3> QED
      BY <3>1, <3>4, <3>7, <3>8, <3>9, <3>10
  <2>3. \A i \in Nat : i \in I => i + 1 \in I
    BY <2>2
  <2> HIDE DEF I
  <2> QED
    BY <2>1, <2>3, Induction
<1>10. PICK u \in Nat \ {0} : u = t[p]
  BY <1>3
<1>11. carry[p] = ((X % u) * Y) \div u
  BY <1>9, <1>10
<1>12. (X \div u) * Y + carry[p] = (X * Y) \div u
  <2>1. PICK q \in Nat, l \in Nat : q = X \div u /\ l = X % u /\ X = q * u + l
    <3>1. X \div u \in Nat /\ X % u \in Nat /\ X = (X \div u) * u + (X % u)
      BY Remainders
    <3> QED
      BY <3>1
  <2>2. q * Y \in Nat /\ l * Y \in Nat /\ (q * u + l) * Y = (q * Y) * u + l * Y
    OBVIOUS
  <2>3. ((q * Y) * u + l * Y) \div u = q * Y + ((l * Y) \div u)
    <3>1. PICK k \in Nat, m \in Nat : k = q * Y /\ m = l * Y
      BY <2>2
    <3>2. (k * u + m) \div u = k + (m \div u)
      BY DivisionAdds
    <3> QED
      BY <3>1, <3>2
  <2> QED
    BY <1>11, <2>1, <2>2, <2>3
<1>13. Times(x, y, p) = Sign(x) * Sign(y) * ((X * Y) \div u)
  BY <1>7, <1>10, <1>12
<1>14. Quot(x * y, u) = Sign(x) * Sign(y) * ((X * Y) \div u)
  BY <1>1, QuotientOfProduct
<1> QED
  BY <1>2, <1>10, <1>13, <1>14 DEF pow10

LEMMA QuotTyped ==
  ASSUME NEW x \in Int, NEW y \in Int, y # 0
  PROVE  Quot(x, y) \in Int
<1>1. PICK X \in Nat, Y \in Nat \ {0} : X = Abs(x) /\ Y = Abs(y)
  BY DEF Abs
<1>2. X \div Y \in Nat
  BY Remainders
<1>3. Sign(x) \in Int /\ Sign(y) \in Int
  BY DEF Sign
<1>4. Sign(x) * Sign(y) * (X \div Y) \in Int
  BY <1>2, <1>3
<1> QED
  BY <1>1, <1>4 DEF Quot

LEMMA QuotOfNumbers ==
  ASSUME NEW x \in Nat, NEW y \in Nat \ {0}
  PROVE  Quot(x, y) = x \div y
<1>1. PICK q \in Nat : q = x \div y
  BY Remainders
<1>2. Abs(x) = x /\ Abs(y) = y /\ Sign(y) = 1
  BY DEF Abs, Sign
<1>3. CASE x = 0
  <2>1. q = 0
    <3>1. 0 * y <= x /\ x < (0 + 1) * y
      BY <1>3
    <3> QED
      BY <1>1, <3>1, DivisionIs
  <2>2. Sign(x) = 0 /\ 0 * 1 * q = 0
    BY <1>3 DEF Sign
  <2> QED
    BY <1>1, <1>2, <2>1, <2>2 DEF Quot
<1>4. CASE x # 0
  <2>1. Sign(x) = 1 /\ 1 * 1 * q = q
    BY <1>4 DEF Sign
  <2> QED
    BY <1>1, <1>2, <2>1 DEF Quot
<1> QED
  BY <1>3, <1>4

LEMMA TimesTyped ==
  ASSUME NEW x \in Int, NEW y \in Int, NEW p \in Nat
  PROVE  Times(x, y, p) \in Int
<1>1. PICK u \in Nat \ {0} : u = pow10(p)
  BY Tens
<1>2. PICK z \in Int : z = x * y
  OBVIOUS
<1>3. Quot(z, u) \in Int
  BY QuotTyped
<1>4. Times(x, y, p) = Quot(x * y, pow10(p))
  BY TimesIs
<1> QED
  BY <1>1, <1>2, <1>3, <1>4

LEMMA TimesOfNumbers ==
  ASSUME NEW x \in Nat, NEW y \in Nat, NEW p \in Nat
  PROVE  /\ Times(x, y, p) \in Nat
         /\ y <= pow10(p) => Times(x, y, p) <= x
<1>1. PICK u \in Nat \ {0} : u = pow10(p)
  BY Tens
<1>2. PICK z \in Nat : z = x * y
  OBVIOUS
<1>3. Times(x, y, p) = z \div u
  <2>1. Times(x, y, p) = Quot(x * y, pow10(p))
    BY TimesIs
  <2>2. Quot(z, u) = z \div u
    BY QuotOfNumbers
  <2> QED
    BY <1>1, <1>2, <2>1, <2>2
<1>4. PICK q \in Nat : q = z \div u /\ q * u <= z
  BY Division
<1>5. ASSUME y <= u
      PROVE  q <= x
  <2>1. z <= u * x
    <3>1. y * x <= u * x /\ y * x = z
      <4>1. PICK d \in Nat : u = y + d
        <5>1. u - y \in Nat /\ u = y + (u - y)
          BY <1>5
        <5> QED
          BY <5>1
      <4>2. u * x = y * x + d * x /\ d * x \in Nat /\ y * x \in Nat
        BY <4>1
      <4> QED
        BY <1>2, <4>2
    <3> QED
      BY <3>1
  <2>2. q * u <= x * u
    <3>1. u * x = x * u /\ q * u \in Nat /\ u * x \in Nat
      OBVIOUS
    <3> QED
      BY <1>4, <2>1, <3>1
  <2> QED
    BY <2>2, Cancels
<1> QED
  BY <1>1, <1>3, <1>4, <1>5

(* So is a quotient that is taken a digit at a time. *)
LEMMA OverIs ==
  ASSUME NEW x \in Int, NEW y \in Int, y # 0, NEW p \in Nat
  PROVE  Over(x, y, p) = Quot(x * pow10(p), y)
<1>1. PICK X \in Nat, Y \in Nat \ {0} : X = Abs(x) /\ Y = Abs(y)
  BY DEF Abs
<1>2. PICK t : t = Powers(10)
  OBVIOUS
<1>3. t[0] = 1 /\ \A i \in Nat : t[i] \in Nat \ {0} /\ t[i + 1] = 10 * t[i]
  BY <1>2, Tens DEF pow10
<1>4. PICK S : S = Nat \X Nat
  OBVIOUS
<1> DEFINE Next10(w) == <<10 * w[1] + (10 * w[2]) \div Y, (10 * w[2]) % Y>>
           first == <<X \div Y, X % Y>>
           h == [m \in Nat |-> [w \in S |-> Next10(w)]]
           Recursion(f) == f = [i \in 0..p |-> IF i = 0 THEN first ELSE Next10(f[i - 1])]
<1>5. Over(x, y, p) = Sign(x) * Sign(y) * (CHOOSE f : Recursion(f))[p][1]
  BY <1>1 DEF Over
<1>6. \A w \in S : w[1] \in Nat /\ w[2] \in Nat
  BY <1>4
<1>7. ASSUME NEW w \in S
      PROVE  /\ Next10(w) \in S
             /\ Next10(w)[1] * Y + Next10(w)[2] = 10 * (w[1] * Y + w[2])
             /\ Next10(w)[2] < Y
  <2>1. PICK c \in Nat, d \in Nat : c = w[1] /\ d = w[2]
    BY <1>6
  <2>2. PICK e \in Nat : e = 10 * d
    OBVIOUS
  <2>3. PICK q \in Nat, r \in Nat : q = e \div Y /\ r = e % Y /\ e = q * Y + r /\ r < Y
    <3>1. e \div Y \in Nat /\ e % Y \in 0..(Y - 1) /\ e = (e \div Y) * Y + (e % Y)
      BY Remainders
    <3>2. e % Y \in Nat /\ e % Y < Y
      BY <3>1
    <3> QED
      BY <3>1, <3>2
  <2>4. Next10(w) = <<10 * c + q, r>>
    BY <2>1, <2>2, <2>3
  <2>5. (10 * c + q) * Y + r = 10 * (c * Y + d)
    <3>1. PICK z \in Nat, v \in Nat : z = c * Y /\ v = q * Y
      OBVIOUS
    <3>2. (10 * c + q) * Y = 10 * z + v
      BY <3>1
    <3> QED
      BY <2>2, <2>3, <3>1, <3>2
  <2>6. <<10 * c + q, r>> \in S
    BY <1>4
  <2> QED
    BY <2>1, <2>3, <2>4, <2>5, <2>6
<1>8. first \in S /\ first[1] * Y + first[2] = X /\ first[2] < Y
  <2>1. X \div Y \in Nat /\ X % Y \in 0..(Y - 1) /\ X = (X \div Y) * Y + (X % Y)
    BY Remainders
  <2> QED
    BY <1>4, <2>1
<1> HIDE DEF Next10, first
<1>9. \A m \in Nat, w \in S : h[m][w] = Next10(w)
  OBVIOUS
<1> HIDE DEF h
<1>10. PICK long : /\ Recursion(long)
                   /\ \A i \in 0..p : long[i] \in S
                   /\ Over(x, y, p) = Sign(x) * Sign(y) * long[p][1]
  <2>2. Steps(h, S, p)
    <3>1. \A m \in 1..p : m \in Nat
      OBVIOUS
    <3> QED
      BY <1>7, <1>9, <3>1 DEF Steps
  <2>3. PICK v : /\ \A i \in 0..p : v[i] \in S
                 /\ v = [i \in 0..p |-> IF i = 0 THEN first ELSE h[i][v[i - 1]]]
    BY <1>8, <2>2, Counted
  <2>4. ASSUME NEW i \in 0..p
        PROVE  v[i] = IF i = 0 THEN first ELSE Next10(v[i - 1])
    <3>1. CASE i # 0
      <4>1. i \in Nat /\ i - 1 \in 0..p
        BY <3>1
      <4> QED
        BY <1>9, <2>3, <3>1, <4>1
    <3> QED
      BY <2>3, <3>1
  <2>5. v = [i \in 0..p |-> v[i]]
    BY <2>3
  <2>6. Recursion(v)
    BY <2>4, <2>5
  <2>7. Recursion(CHOOSE f : Recursion(f))
    BY <2>6
  <2>8. PICK f : f = CHOOSE g : Recursion(g)
    OBVIOUS
  <2>9. Recursion(f)
    BY <2>7, <2>8
  <2>10. f[0] = first /\ \A i \in 1..p : f[i] = Next10(f[i - 1])
    <3>1. \A i \in 0..p : f[i] = IF i = 0 THEN first ELSE Next10(f[i - 1])
      BY <2>9, Zenon
    <3>2. 0 \in 0..p /\ \A i \in 1..p : i \in 0..p /\ i # 0
      OBVIOUS
    <3> QED
      BY <3>1, <3>2, Zenon
  <2> DEFINE J == {i \in Nat : i <= p => f[i] \in S}
  <2>11. Nat \subseteq J
    <3>1. 0 \in J
      BY <1>8, <2>10
    <3>2. ASSUME NEW i \in Nat, i \in J, i + 1 <= p
          PROVE  f[i + 1] \in S
      <4>1. f[i] \in S /\ i + 1 \in 1..p /\ (i + 1) - 1 = i
        BY <3>2
      <4> QED
        BY <1>7, <2>10, <4>1
    <3>3. \A i \in Nat : i \in J => i + 1 \in J
      BY <3>2
    <3> HIDE DEF J
    <3> QED
      BY <3>1, <3>3, Induction
  <2>12. \A i \in 0..p : f[i] \in S
    BY <2>11
  <2>13. Over(x, y, p) = Sign(x) * Sign(y) * f[p][1]
    BY <1>5, <2>8
  <2> HIDE DEF Recursion
  <2> QED
    BY <2>9, <2>12, <2>13
<1>11. long[0] = first /\ \A i \in 1..p : long[i] = Next10(long[i - 1])
  <2>1. \A i \in 0..p : long[i] = IF i = 0 THEN first ELSE Next10(long[i - 1])
    BY <1>10, Zenon
  <2>2. 0 \in 0..p /\ \A i \in 1..p : i \in 0..p /\ i # 0
    OBVIOUS
  <2> QED
    BY <2>1, <2>2, Zenon
<1> DEFINE I == {i \in Nat : i <= p => long[i][1] * Y + long[i][2] = X * t[i] /\ long[i][2] < Y}
<1>12. Nat \subseteq I
  <2>1. 0 \in I
    <3>1. X * 1 = X
      OBVIOUS
    <3> QED
      BY <1>3, <1>8, <1>11, <3>1
  <2>2. ASSUME NEW i \in Nat, i \in I, i + 1 <= p
        PROVE  long[i + 1][1] * Y + long[i + 1][2] = X * t[i + 1] /\ long[i + 1][2] < Y
    <3>1. i \in 0..p /\ i + 1 \in 1..p /\ (i + 1) - 1 = i
      BY <2>2
    <3>2. PICK w \in S : w = long[i]
      BY <1>10, <3>1
    <3>3. long[i + 1] = Next10(w)
      BY <1>11, <3>1, <3>2
    <3>4. w[1] * Y + w[2] = X * t[i]
      BY <2>2, <3>2
    <3>5. PICK u \in Nat \ {0} : u = t[i] /\ t[i + 1] = 10 * u
      BY <1>3
    <3>6. 10 * (X * u) = X * (10 * u)
      OBVIOUS
    <3>7. Next10(w)[1] * Y + Next10(w)[2] = 10 * (w[1] * Y + w[2]) /\ Next10(w)[2] < Y
      BY <1>7
    <3> QED
      BY <3>3, <3>4, <3>5, <3>6, <3>7
  <2>3. \A i \in Nat : i \in I => i + 1 \in I
    BY <2>2
  <2> HIDE DEF I
  <2> QED
    BY <2>1, <2>3, Induction
<1>13. PICK u \in Nat \ {0} : u = t[p]
  BY <1>3
<1>14. PICK q \in Nat, r \in Nat : q = long[p][1] /\ r = long[p][2] /\ q * Y + r = X * u /\ r < Y
  <2>1. p \in 0..p /\ p \in Nat /\ p <= p
    OBVIOUS
  <2>2. long[p][1] * Y + long[p][2] = X * u /\ long[p][2] < Y
    BY <1>12, <1>13, <2>1
  <2>3. long[p][1] \in Nat /\ long[p][2] \in Nat
    BY <1>6, <1>10, <2>1
  <2> QED
    BY <2>2, <2>3
<1>15. (X * u) \div Y = q
  <2>1. PICK m \in Nat, z \in Nat : m = X * u /\ z = q * Y
    OBVIOUS
  <2>2. (q + 1) * Y = z + Y /\ m = z + r
    BY <1>14, <2>1
  <2>3. q * Y <= m /\ m < (q + 1) * Y
    BY <1>14, <2>1, <2>2
  <2>4. m \div Y = q
    BY <2>3, DivisionIs
  <2> QED
    BY <2>1, <2>4
<1>16. Abs(x * u) = X * u /\ Sign(x * u) = Sign(x)
  <2>1. Abs(u) = u
    BY DEF Abs
  <2>2. Abs(x * u) = X * u
    BY <1>1, <2>1, AbsProduct
  <2>3. CASE x > 0
    <3>1. x * u > 0
      BY <2>3
    <3> QED
      BY <2>2, <2>3, <3>1 DEF Sign
  <2>4. CASE x < 0
    <3>1. x * u < 0
      BY <2>4
    <3> QED
      BY <2>2, <2>4, <3>1 DEF Sign
  <2>5. CASE x = 0
    <3>1. x * u = 0
      BY <2>5
    <3> QED
      BY <2>2, <2>5, <3>1 DEF Sign
  <2> QED
    BY <2>3, <2>4, <2>5
<1>17. Over(x, y, p) = Sign(x) * Sign(y) * q
  BY <1>10, <1>14
<1>18. Quot(x * u, y) = Sign(x) * Sign(y) * q
  BY <1>1, <1>15, <1>16 DEF Quot
<1> QED
  BY <1>2, <1>13, <1>17, <1>18 DEF pow10

LEMMA OverTyped ==
  ASSUME NEW x \in Int, NEW y \in Int, y # 0, NEW p \in Nat
  PROVE  /\ Over(x, y, p) \in Int
         /\ x \in Nat /\ y > 0 => Over(x, y, p) \in Nat
<1>1. PICK u \in Nat \ {0} : u = pow10(p)
  BY Tens
<1>2. PICK z \in Int : z = x * u
  OBVIOUS
<1>3. Over(x, y, p) = Quot(z, y)
  BY <1>1, <1>2, OverIs
<1>4. Quot(z, y) \in Int
  BY QuotTyped
<1>5. ASSUME x \in Nat, y > 0
      PROVE  Quot(z, y) \in Nat
  <2>1. z \in Nat /\ y \in Nat \ {0}
    BY <1>2, <1>5
  <2> QED
    BY <2>1, QuotOfNumbers, Remainders
<1> QED
  BY <1>3, <1>4, <1>5

(* What a loop keeps at every turn it has at all of them. *)
LEMMA StaysIn ==
  ASSUME NEW S, NEW n \in Nat, NEW f, f[0] \in S, \A i \in 1..n : f[i - 1] \in S => f[i] \in S
  PROVE  \A i \in 0..n : f[i] \in S
<1> DEFINE J == {i \in Nat : i <= n => f[i] \in S}
<1>1. 0 \in J
  OBVIOUS
<1>2. ASSUME NEW i \in Nat, i \in J, i + 1 <= n
      PROVE  f[i + 1] \in S
  <2>1. f[i] \in S /\ i + 1 \in 1..n /\ (i + 1) - 1 = i
    BY <1>2
  <2> QED
    BY <2>1
<1>3. \A i \in Nat : i \in J => i + 1 \in J
  BY <1>2
<1>4. Nat \subseteq J
  <2> HIDE DEF J
  <2> QED
    BY <1>1, <1>3, Induction
<1> QED
  BY <1>4

Kind(S) == S = Int \/ S = Nat

LEMMA QuotKind ==
  ASSUME NEW S, Kind(S), NEW x \in S, NEW y \in Nat \ {0}
  PROVE  Quot(x, y) \in S
<1>1. CASE S = Int
  BY <1>1, QuotTyped
<1>2. CASE S = Nat
  BY <1>2, QuotOfNumbers, Remainders
<1> QED
  BY <1>1, <1>2 DEF Kind

LEMMA TimesKind ==
  ASSUME NEW S, Kind(S), NEW x \in S, NEW y \in S, NEW p \in Nat
  PROVE  Times(x, y, p) \in S
<1>1. CASE S = Int
  BY <1>1, TimesTyped
<1>2. CASE S = Nat
  BY <1>2, TimesOfNumbers
<1> QED
  BY <1>1, <1>2 DEF Kind

LEMMA OverAllTyped ==
  ASSUME NEW S, Kind(S), NEW x \in S, NEW factors \in Seq(Nat \ {0})
  PROVE  /\ OverAll(x, factors) \in S
         /\ Len(factors) = 0 => OverAll(x, factors) = x
         /\ Len(factors) = 1 => OverAll(x, factors) = Quot(x, factors[1])
<1>1. PICK n \in Nat : n = Len(factors)
  OBVIOUS
<1>2. \A i \in 1..n : factors[i] \in Nat \ {0}
  BY <1>1
<1> DEFINE Recursion(f) == f = [i \in 0..n |-> IF i = 0 THEN x ELSE Quot(f[i - 1], factors[i])]
           h == [m \in 1..n |-> [c \in S |-> Quot(c, factors[m])]]
<1>3. OverAll(x, factors) = (CHOOSE f : Recursion(f))[n]
  BY <1>1 DEF OverAll
<1>4. \A m \in 1..n, c \in S : h[m][c] = Quot(c, factors[m]) /\ Quot(c, factors[m]) \in S
  BY <1>2, QuotKind
<1> HIDE DEF h
<1>5. Steps(h, S, n)
  BY <1>4 DEF Steps
<1>6. PICK v : /\ \A i \in 0..n : v[i] \in S
               /\ v = [i \in 0..n |-> IF i = 0 THEN x ELSE h[i][v[i - 1]]]
  BY <1>5, Counted
<1>7. ASSUME NEW i \in 0..n
      PROVE  v[i] = IF i = 0 THEN x ELSE Quot(v[i - 1], factors[i])
  <2>1. CASE i # 0
    <3>1. i \in 1..n /\ i - 1 \in 0..n
      BY <2>1
    <3> QED
      BY <1>4, <1>6, <2>1, <3>1
  <2> QED
    BY <1>6, <2>1
<1>8. v = [i \in 0..n |-> v[i]]
  BY <1>6
<1>9. Recursion(v)
  BY <1>7, <1>8
<1>10. PICK f : Recursion(f) /\ OverAll(x, factors) = f[n]
  <2>1. Recursion(CHOOSE g : Recursion(g))
    BY <1>9
  <2>2. PICK f : f = CHOOSE g : Recursion(g)
    OBVIOUS
  <2> QED
    BY <1>3, <2>1, <2>2
<1>11. f[0] = x /\ \A i \in 1..n : f[i] = Quot(f[i - 1], factors[i])
  <2>1. \A i \in 0..n : f[i] = IF i = 0 THEN x ELSE Quot(f[i - 1], factors[i])
    BY <1>10, Zenon
  <2>2. 0 \in 0..n /\ \A i \in 1..n : i \in 0..n /\ i # 0
    OBVIOUS
  <2> QED
    BY <2>1, <2>2, Zenon
<1>12. \A i \in 0..n : f[i] \in S
  <2>1. \A i \in 1..n : f[i - 1] \in S => f[i] \in S
    BY <1>2, <1>11, QuotKind
  <2> QED
    BY <1>11, <2>1, StaysIn
<1>13. f[n] \in S
  BY <1>12
<1>14. n = 1 => f[n] = Quot(x, factors[1])
  BY <1>11
<1> QED
  BY <1>1, <1>10, <1>11, <1>13, <1>14

(* The denominators of a series. *)
Factors(products) == \A i \in 0..MaxTerms : products[i] \in Seq(Nat \ {0})

(* One turn of the loop of a series. *)
SeriesTurn(t, i, ratio, p, alternating, products) ==
  LET num == Times(t.num, ratio, p)
  IN  IF t.term = 0 THEN t
      ELSE [num |-> num, term |-> OverAll(num, products[i]),
            total |-> IF alternating /\ i % 2 = 0 THEN t.total - t.term ELSE t.total + t.term]

Sums(S) == [num : S, term : S, total : Int]

LEMMA TurnTyped ==
  ASSUME NEW S, Kind(S), NEW t \in Sums(S), NEW i \in 1..MaxTerms, NEW ratio \in S, NEW p \in Nat,
         NEW alternating, NEW products, Factors(products)
  PROVE  SeriesTurn(t, i, ratio, p, alternating, products) \in Sums(S)
<1>1. t.num \in S /\ t.term \in S /\ t.total \in Int
  BY DEF Sums
<1>2. PICK num \in S : num = Times(t.num, ratio, p)
  BY <1>1, TimesKind
<1>3. products[i] \in Seq(Nat \ {0})
  BY DEF Factors
<1>4. PICK term \in S : term = OverAll(num, products[i])
  BY <1>3, OverAllTyped
<1>5. t.total - t.term \in Int /\ t.total + t.term \in Int
  BY <1>1 DEF Kind
<1>6. PICK total \in Int : total = IF alternating /\ i % 2 = 0 THEN t.total - t.term ELSE t.total + t.term
  BY <1>5
<1>7. SeriesTurn(t, i, ratio, p, alternating, products) =
        IF t.term = 0 THEN t ELSE [num |-> num, term |-> term, total |-> total]
  BY <1>2, <1>4, <1>6 DEF SeriesTurn
<1> QED
  BY <1>7 DEF Sums

(* The states of the loop of a series, up to the last. *)
LEMMA SeriesRuns ==
  ASSUME NEW S, Kind(S), NEW first \in S, NEW ratio \in S, NEW p \in Nat, NEW alternating,
         NEW products, Factors(products)
  PROVE  \E turn : /\ \A i \in 0..MaxTerms : turn[i] \in Sums(S)
                   /\ turn[0] = [num |-> first, term |-> OverAll(first, products[0]), total |-> 0]
                   /\ \A i \in 1..MaxTerms : turn[i] = SeriesTurn(turn[i - 1], i, ratio, p, alternating, products)
                   /\ Series(first, ratio, p, alternating, products) = turn[MaxTerms].total
<1> DEFINE start == [num |-> first, term |-> OverAll(first, products[0]), total |-> 0]
           Step(t, i) == SeriesTurn(t, i, ratio, p, alternating, products)
           Recursion(f) == f = [i \in 0..MaxTerms |-> IF i = 0 THEN start ELSE Step(f[i - 1], i)]
           h == [m \in 1..MaxTerms |-> [t \in Sums(S) |-> Step(t, m)]]
<1>1. MaxTerms \in Nat
  BY MathConstantsOK
<1>2. Series(first, ratio, p, alternating, products) = (CHOOSE f : Recursion(f))[MaxTerms].total
  BY DEF Series, SeriesTurn
<1>3. start \in Sums(S)
  <2>1. products[0] \in Seq(Nat \ {0})
    BY <1>1 DEF Factors
  <2>2. OverAll(first, products[0]) \in S
    BY <2>1, OverAllTyped
  <2> QED
    BY <2>2 DEF Sums
<1>4. \A m \in 1..MaxTerms, t \in Sums(S) : Step(t, m) \in Sums(S)
  BY TurnTyped
<1> HIDE DEF start, Step
<1>5. \A m \in 1..MaxTerms, t \in Sums(S) : h[m][t] = Step(t, m)
  OBVIOUS
<1> HIDE DEF h
<1>6. Steps(h, Sums(S), MaxTerms)
  BY <1>4, <1>5 DEF Steps
<1>7. PICK v : /\ \A i \in 0..MaxTerms : v[i] \in Sums(S)
               /\ v = [i \in 0..MaxTerms |-> IF i = 0 THEN start ELSE h[i][v[i - 1]]]
  BY <1>1, <1>3, <1>6, Counted
<1>8. ASSUME NEW i \in 0..MaxTerms
      PROVE  v[i] = IF i = 0 THEN start ELSE Step(v[i - 1], i)
  <2>1. CASE i # 0
    <3>1. i \in 1..MaxTerms /\ i - 1 \in 0..MaxTerms
      BY <1>1, <2>1
    <3> QED
      BY <1>5, <1>7, <2>1, <3>1
  <2> QED
    BY <1>7, <2>1
<1>9. v = [i \in 0..MaxTerms |-> v[i]]
  BY <1>7
<1>10. Recursion(v)
  BY <1>8, <1>9
<1>11. PICK f : Recursion(f) /\ Series(first, ratio, p, alternating, products) = f[MaxTerms].total
  <2>1. Recursion(CHOOSE g : Recursion(g))
    BY <1>10
  <2>2. PICK f : f = CHOOSE g : Recursion(g)
    OBVIOUS
  <2> QED
    BY <1>2, <2>1, <2>2
<1>12. f[0] = start /\ \A i \in 1..MaxTerms : f[i] = Step(f[i - 1], i)
  <2>1. \A i \in 0..MaxTerms : f[i] = IF i = 0 THEN start ELSE Step(f[i - 1], i)
    BY <1>11, Zenon
  <2>2. 0 \in 0..MaxTerms /\ \A i \in 1..MaxTerms : i \in 0..MaxTerms /\ i # 0
    BY <1>1
  <2> QED
    BY <2>1, <2>2, Zenon
<1>13. \A i \in 0..MaxTerms : f[i] \in Sums(S)
  <2>1. \A i \in 1..MaxTerms : f[i - 1] \in Sums(S) => f[i] \in Sums(S)
    BY <1>4, <1>12
  <2> QED
    BY <1>1, <1>3, <1>12, <2>1, StaysIn
<1> QED
  BY <1>11, <1>12, <1>13 DEF start, Step

LEMMA UpToFactors ==
  ASSUME NEW k \in Nat
  PROVE  UpTo(k) \in Seq(Nat \ {0}) /\ Len(UpTo(k)) = k
<1>1. PICK D : D = Nat \ {0}
  OBVIOUS
<1>2. UpTo(k) \in [1..k -> D]
  BY <1>1 DEF UpTo
<1> QED
  BY <1>1, <1>2, SequenceOf

LEMMA SeriesFactors ==
  Factors(OddNumbers) /\ Factors(OddFactorials) /\ Factors(EvenFactorials) /\ Factors(Factorials)
<1>1. \A i \in 0..MaxTerms : 2 * i + 1 \in Nat \ {0} /\ 2 * i + 1 \in Nat /\ 2 * i \in Nat /\ i \in Nat
  OBVIOUS
<1>2. Factors(OddNumbers)
  <2>1. \A i \in 0..MaxTerms : <<2 * i + 1>> \in Seq(Nat \ {0})
    BY <1>1
  <2> QED
    BY <2>1 DEF Factors, OddNumbers
<1>3. Factors(OddFactorials) /\ Factors(EvenFactorials) /\ Factors(Factorials)
  <2>1. \A i \in 0..MaxTerms : /\ UpTo(2 * i + 1) \in Seq(Nat \ {0}) /\ UpTo(2 * i) \in Seq(Nat \ {0})
                               /\ UpTo(i) \in Seq(Nat \ {0})
    BY <1>1, UpToFactors
  <2> QED
    BY <2>1 DEF Factors, OddFactorials, EvenFactorials, Factorials
<1> QED
  BY <1>2, <1>3

LEMMA SeriesTyped ==
  ASSUME NEW first \in Int, NEW ratio \in Int, NEW p \in Nat, NEW alternating, NEW products, Factors(products)
  PROVE  Series(first, ratio, p, alternating, products) \in Int
<1>1. PICK S : S = Int
  OBVIOUS
<1>2. Kind(S) /\ first \in S /\ ratio \in S
  BY <1>1 DEF Kind
<1>3. PICK turn : /\ \A i \in 0..MaxTerms : turn[i] \in Sums(S)
                  /\ turn[0] = [num |-> first, term |-> OverAll(first, products[0]), total |-> 0]
                  /\ \A i \in 1..MaxTerms : turn[i] = SeriesTurn(turn[i - 1], i, ratio, p, alternating, products)
                  /\ Series(first, ratio, p, alternating, products) = turn[MaxTerms].total
  BY <1>2, SeriesRuns
<1>4. MaxTerms \in 0..MaxTerms
  BY MathConstantsOK
<1> QED
  BY <1>3, <1>4 DEF Sums

(* Terms that are added make a sum that is no less than the first of them. *)
LEMMA SumsGrow ==
  ASSUME NEW first \in Nat, NEW ratio \in Nat, NEW p \in Nat, NEW products, Factors(products)
  PROVE  /\ Series(first, ratio, p, FALSE, products) \in Nat
         /\ Series(first, ratio, p, FALSE, products) >= OverAll(first, products[0])
<1>1. PICK S : S = Nat
  OBVIOUS
<1>2. Kind(S) /\ first \in S /\ ratio \in S
  BY <1>1 DEF Kind
<1>0. PICK alternating : alternating = FALSE
  OBVIOUS
<1>3. PICK turn : /\ \A i \in 0..MaxTerms : turn[i] \in Sums(S)
                  /\ turn[0] = [num |-> first, term |-> OverAll(first, products[0]), total |-> 0]
                  /\ \A i \in 1..MaxTerms : turn[i] = SeriesTurn(turn[i - 1], i, ratio, p, alternating, products)
                  /\ Series(first, ratio, p, alternating, products) = turn[MaxTerms].total
  BY <1>2, SeriesRuns
<1>4. MaxTerms \in Nat /\ MaxTerms \in 1..MaxTerms /\ MaxTerms \in 0..MaxTerms /\ MaxTerms - 1 \in 0..MaxTerms
  BY MathConstantsOK
<1>5. PICK least \in Nat : least = OverAll(first, products[0])
  <2>1. 0 \in 0..MaxTerms
    BY <1>4
  <2>2. turn[0].term \in Nat
    BY <1>1, <1>3, <2>1 DEF Sums
  <2> QED
    BY <1>3, <2>2
<1>6. ASSUME NEW i \in 1..MaxTerms
      PROVE  IF turn[i - 1].term = 0 THEN turn[i] = turn[i - 1]
             ELSE turn[i].total = turn[i - 1].total + turn[i - 1].term
  <2>1. turn[i] = SeriesTurn(turn[i - 1], i, ratio, p, alternating, products)
    BY <1>3
  <2>2. (IF alternating /\ i % 2 = 0 THEN turn[i - 1].total - turn[i - 1].term
         ELSE turn[i - 1].total + turn[i - 1].term) = turn[i - 1].total + turn[i - 1].term
    BY <1>0, Zenon
  <2>3. CASE turn[i - 1].term = 0
    BY <2>1, <2>3, Zenon DEF SeriesTurn
  <2>4. CASE turn[i - 1].term # 0
    <3>1. PICK num, term, total :
            /\ total = turn[i - 1].total + turn[i - 1].term
            /\ turn[i] = [num |-> num, term |-> term, total |-> total]
      BY <2>1, <2>2, <2>4, Zenon DEF SeriesTurn
    <3> QED
      BY <2>4, <3>1
  <2> QED
    BY <2>3, <2>4
<1>7. \A i \in 0..MaxTerms : turn[i].num \in Nat /\ turn[i].term \in Nat /\ turn[i].total \in Int
  BY <1>1, <1>3 DEF Sums
<1> DEFINE G == {t \in Sums(S) : t.total >= 0 /\ t.total + t.term >= least}
<1>8. \A i \in 0..MaxTerms : turn[i] \in G
  <2>1. turn[0] \in G
    <3>1. turn[0].total = 0 /\ turn[0].term = least /\ turn[0] \in Sums(S)
      BY <1>3, <1>4, <1>5
    <3> QED
      BY <3>1
  <2>2. ASSUME NEW i \in 1..MaxTerms, turn[i - 1] \in G
        PROVE  turn[i] \in G
    <3>1. i \in 0..MaxTerms /\ i - 1 \in 0..MaxTerms
      BY <1>4
    <3>2. turn[i] \in Sums(S)
      BY <1>3, <3>1
    <3>3. CASE turn[i - 1].term = 0
      BY <1>6, <2>2, <3>3
    <3>4. CASE turn[i - 1].term # 0
      <4>1. turn[i].total = turn[i - 1].total + turn[i - 1].term
        BY <1>6, <3>4
      <4>2. turn[i - 1].total >= 0 /\ turn[i - 1].total + turn[i - 1].term >= least
        BY <2>2
      <4>3. turn[i].total >= 0 /\ turn[i].total + turn[i].term >= least
        BY <1>7, <3>1, <4>1, <4>2
      <4> QED
        BY <3>2, <4>3
    <3> QED
      BY <3>3, <3>4
  <2> HIDE DEF G
  <2> QED
    BY <1>4, <2>1, <2>2, StaysIn
<1>9. turn[MaxTerms - 1].total >= 0 /\ turn[MaxTerms - 1].total + turn[MaxTerms - 1].term >= least
  BY <1>4, <1>8
<1>10. turn[MaxTerms].total >= least /\ turn[MaxTerms].total \in Nat
  <2>1. turn[MaxTerms - 1].term \in Nat /\ turn[MaxTerms - 1].total \in Int
    BY <1>4, <1>7
  <2>2. CASE turn[MaxTerms - 1].term = 0
    <3>1. turn[MaxTerms] = turn[MaxTerms - 1]
      BY <1>4, <1>6, <2>2
    <3> QED
      BY <1>9, <2>1, <2>2, <3>1
  <2>3. CASE turn[MaxTerms - 1].term # 0
    <3>1. turn[MaxTerms].total = turn[MaxTerms - 1].total + turn[MaxTerms - 1].term
      BY <1>4, <1>6, <2>3
    <3> QED
      BY <1>9, <2>1, <3>1
  <2> QED
    BY <2>2, <2>3
<1> QED
  BY <1>0, <1>3, <1>5, <1>10, Zenon

LEMMA DivisionOrders ==
  ASSUME NEW m \in Nat, NEW n \in Nat, m <= n, NEW y \in Nat \ {0}, NEW z \in Nat \ {0}, z <= y
  PROVE  m \div y <= n \div z
<1>1. PICK q \in Nat : q = m \div y /\ q * y <= m
  BY Division
<1>2. PICK r \in Nat : r = n \div z /\ n < (r + 1) * z
  BY Division
<1>3. q * z <= q * y
  <2>1. PICK d \in Nat : y = z + d
    <3>1. y - z \in Nat /\ y = z + (y - z)
      OBVIOUS
    <3> QED
      BY <3>1
  <2>2. q * y = q * z + q * d /\ q * d \in Nat /\ q * z \in Nat
    BY <2>1
  <2> QED
    BY <2>2
<1>4. q * z < (r + 1) * z
  <2>1. q * z \in Nat /\ q * y \in Nat /\ (r + 1) * z \in Nat
    OBVIOUS
  <2> QED
    BY <1>1, <1>2, <1>3, <2>1
<1>5. q < r + 1
  BY <1>4, Cancels
<1> QED
  BY <1>1, <1>2, <1>5

(* Terms that are added and subtracted in turn, each no larger than the one before, make a  *)
(* sum between the first and the first less a third of it, here for arctangents.            *)
LEMMA SumsAlternate ==
  ASSUME NEW y \in Nat, NEW ratio \in Nat, NEW p \in Nat, ratio <= pow10(p)
  PROVE  Series(y, ratio, p, TRUE, OddNumbers) \in y - (y \div 3)..y
<1>1. PICK S : S = Nat
  OBVIOUS
<1>2. Kind(S) /\ y \in S /\ ratio \in S
  BY <1>1 DEF Kind
<1>0. PICK alternating : alternating = TRUE
  OBVIOUS
<1>3. PICK turn : /\ \A i \in 0..MaxTerms : turn[i] \in Sums(S)
                  /\ turn[0] = [num |-> y, term |-> OverAll(y, OddNumbers[0]), total |-> 0]
                  /\ \A i \in 1..MaxTerms : turn[i] = SeriesTurn(turn[i - 1], i, ratio, p, alternating, OddNumbers)
                  /\ Series(y, ratio, p, alternating, OddNumbers) = turn[MaxTerms].total
  BY <1>2, SeriesFactors, SeriesRuns
<1>4. MaxTerms \in Nat /\ MaxTerms >= 1
  BY MathConstantsOK
<1>5. ASSUME NEW i \in 0..MaxTerms, NEW n \in Nat
      PROVE  OverAll(n, OddNumbers[i]) = n \div (2 * i + 1)
  <2>1. PICK d \in Nat \ {0} : d = 2 * i + 1
    OBVIOUS
  <2>2. PICK f \in Seq(Nat \ {0}) : f = <<d>> /\ Len(f) = 1 /\ f[1] = d
    <3>1. <<d>> \in Seq(Nat \ {0})
      OBVIOUS
    <3> QED
      BY <3>1
  <2>3. OddNumbers[i] = f
    BY <2>1, <2>2 DEF OddNumbers
  <2>4. OverAll(n, f) = Quot(n, d)
    <3>1. n \in S
      BY <1>1
    <3>2. Len(f) = 1 => OverAll(n, f) = Quot(n, f[1])
      BY <1>2, <3>1, OverAllTyped
    <3> QED
      BY <2>2, <3>2
  <2> QED
    BY <2>1, <2>3, <2>4, QuotOfNumbers
<1>6. \A i \in 0..MaxTerms : turn[i].num \in Nat /\ turn[i].term \in Nat /\ turn[i].total \in Int
  BY <1>1, <1>3 DEF Sums
<1>7. PICK c \in Nat : c = y \div 3
  BY Remainders
<1>8. turn[0].num = y /\ turn[0].term = y /\ turn[0].total = 0
  <2>1. y \div (2 * 0 + 1) = y
    OBVIOUS
  <2>2. OverAll(y, OddNumbers[0]) = y
    BY <1>4, <1>5, <2>1
  <2> QED
    BY <1>3, <2>2
<1>9. ASSUME NEW i \in 1..MaxTerms, turn[i - 1].term # 0
      PROVE  /\ turn[i].num <= turn[i - 1].num
             /\ turn[i].term = turn[i].num \div (2 * i + 1)
             /\ turn[i].total = IF i % 2 = 0 THEN turn[i - 1].total - turn[i - 1].term
                                ELSE turn[i - 1].total + turn[i - 1].term
  <2>1. i \in 0..MaxTerms /\ i - 1 \in 0..MaxTerms
    BY <1>4
  <2>2. PICK n \in Nat : n = Times(turn[i - 1].num, ratio, p) /\ n <= turn[i - 1].num
    BY <1>6, <2>1, TimesOfNumbers
  <2>3. OverAll(n, OddNumbers[i]) = n \div (2 * i + 1)
    BY <1>5, <2>1
  <2>4. turn[i] = SeriesTurn(turn[i - 1], i, ratio, p, alternating, OddNumbers)
    BY <1>3
  <2>5. alternating /\ i % 2 = 0 <=> i % 2 = 0
    BY <1>0, Zenon
  <2>6. turn[i] = [num |-> n, term |-> OverAll(n, OddNumbers[i]),
                   total |-> IF i % 2 = 0 THEN turn[i - 1].total - turn[i - 1].term
                             ELSE turn[i - 1].total + turn[i - 1].term]
    BY <1>9, <2>2, <2>4, <2>5, Zenon DEF SeriesTurn
  <2> QED
    BY <2>2, <2>3, <2>6
<1>10. ASSUME NEW i \in 1..MaxTerms, turn[i - 1].term = 0
       PROVE  turn[i] = turn[i - 1]
  BY <1>3, <1>10, Zenon DEF SeriesTurn
<1> DEFINE A(t, i) == /\ t.term # 0 => t.term = t.num \div (2 * i + 1)
                      /\ t.total <= y
                      /\ i % 2 = 0 => t.total + t.term <= y
                      /\ i % 2 = 1 => t.total - t.term >= y - c
                      /\ i # 0 => t.total >= y - c
           J == {i \in Nat : i <= MaxTerms => A(turn[i], i)}
<1>11. Nat \subseteq J
  <2>1. 0 \in J
    <3>1. y \div (2 * 0 + 1) = y
      OBVIOUS
    <3> QED
      BY <1>8, <3>1
  <2>2. ASSUME NEW i \in Nat, i \in J, i + 1 <= MaxTerms
        PROVE  A(turn[i + 1], i + 1)
    <3>1. i \in 0..MaxTerms /\ i + 1 \in 1..MaxTerms /\ i + 1 \in 0..MaxTerms /\ (i + 1) - 1 = i
      BY <1>4, <2>2
    <3>2. A(turn[i], i)
      BY <2>2, <3>1
    <3>3. PICK n, e \in Nat, s \in Int : n = turn[i].num /\ e = turn[i].term /\ s = turn[i].total
      BY <1>6, <3>1
    <3>4. CASE e = 0
      <4>1. turn[i + 1] = turn[i]
        BY <1>10, <3>1, <3>3, <3>4
      <4>2. s <= y
        BY <3>2, <3>3
      <4>3. s >= y - c
        <5>1. CASE i = 0
          <6>1. y = 0 /\ s = 0
            BY <1>8, <3>3, <3>4, <5>1
          <6> QED
            BY <6>1
        <5>2. CASE i # 0
          BY <3>2, <3>3, <5>2
        <5> QED
          BY <5>1, <5>2
      <4>4. turn[i + 1].term = 0 /\ turn[i + 1].total = s
        BY <3>3, <3>4, <4>1
      <4>5. s + 0 = s /\ s - 0 = s
        OBVIOUS
      <4> QED
        BY <4>2, <4>3, <4>4, <4>5
    <3>5. CASE e # 0
      <4>1. PICK n2, e2 \in Nat, s2 \in Int : n2 = turn[i + 1].num /\ e2 = turn[i + 1].term /\ s2 = turn[i + 1].total
        BY <1>6, <3>1
      <4>2. n2 <= n /\ e2 = n2 \div (2 * (i + 1) + 1) /\ s2 = IF (i + 1) % 2 = 0 THEN s - e ELSE s + e
        BY <1>9, <3>1, <3>3, <3>5, <4>1
      <4>3. e = n \div (2 * i + 1)
        BY <3>2, <3>3, <3>5
      <4>4. e2 <= e
        <5>1. 2 * (i + 1) + 1 \in Nat \ {0} /\ 2 * i + 1 \in Nat \ {0} /\ 2 * i + 1 <= 2 * (i + 1) + 1
          OBVIOUS
        <5> QED
          BY <4>2, <4>3, <5>1, DivisionOrders
      <4>5. CASE i % 2 = 0
        <5>1. (i + 1) % 2 = 1 /\ i + 1 # 0
          BY <4>5
        <5>2. s2 = s + e
          BY <4>2, <5>1
        <5>3. s + e <= y
          BY <3>2, <3>3, <4>5
        <5>4. s2 - e2 >= y - c
          <6>1. CASE i = 0
            <7>1. s = 0 /\ e = y /\ n = y
              BY <1>8, <3>3, <6>1
            <7>2. e2 <= c
              <8>1. 2 * (i + 1) + 1 = 3 /\ n2 <= y
                BY <4>2, <6>1, <7>1
              <8>2. n2 \div 3 <= y \div 3
                BY <8>1, DivisionOrders
              <8> QED
                BY <1>7, <4>2, <8>1, <8>2
            <7> QED
              BY <5>2, <7>1, <7>2
          <6>2. CASE i # 0
            <7>1. s >= y - c
              BY <3>2, <3>3, <6>2
            <7> QED
              BY <4>4, <5>2, <7>1
          <6> QED
            BY <6>1, <6>2
        <5>5. s2 >= y - c
          BY <5>4
        <5> QED
          BY <4>1, <4>2, <5>1, <5>2, <5>3, <5>4, <5>5
      <4>6. CASE i % 2 = 1
        <5>1. (i + 1) % 2 = 0 /\ i # 0
          BY <4>6
        <5>2. s2 = s - e
          BY <4>2, <5>1
        <5>3. s - e >= y - c /\ s <= y
          BY <3>2, <3>3, <4>6
        <5>4. s2 + e2 <= y /\ s2 <= y
          BY <4>4, <5>2, <5>3
        <5> QED
          BY <4>1, <4>2, <5>1, <5>2, <5>3, <5>4
      <4> QED
        BY <4>5, <4>6
    <3> QED
      BY <3>4, <3>5
  <2>3. \A i \in Nat : i \in J => i + 1 \in J
    BY <2>2
  <2> HIDE DEF J
  <2> QED
    BY <2>1, <2>3, Induction
<1>12. A(turn[MaxTerms], MaxTerms)
  BY <1>4, <1>11
<1>13. PICK run \in Int : run = turn[MaxTerms].total /\ run <= y /\ run >= y - c
  <2>1. MaxTerms \in 0..MaxTerms /\ MaxTerms # 0
    BY <1>4
  <2> QED
    BY <1>3, <1>6, <1>12, <2>1
<1>14. run \in y - (y \div 3)..y
  BY <1>7, <1>13
<1> QED
  BY <1>0, <1>3, <1>13, <1>14, Zenon

(* The digits of pi are never zero, however few they are. *)
LEMMA PiPositive ==
  ASSUME NEW p \in 1..WordMax
  PROVE  get_pi[p] \in Nat \ {0}
<1>1. p \in Nat /\ p - 1 \in Nat /\ p \in 0..WordMax
  BY NumbersConstantsOK
<1>2. PICK u \in Nat \ {0} : pow10(p) = 10 * u
  <2>1. PICK k \in Nat : k = p - 1
    BY <1>1
  <2>2. pow10(k) \in Nat \ {0} /\ pow10(k + 1) = 10 * pow10(k)
    BY Tens
  <2>3. k + 1 = p
    BY <1>1, <2>1
  <2> QED
    BY <2>2, <2>3
<1>3. Quot(2 * pow10(p), 10) = 2 * u
  <2>1. PICK m \in Nat : m = 2 * pow10(p) /\ m = 20 * u
    BY <1>2
  <2>2. m \div 10 = 2 * u
    BY <2>1
  <2>3. Quot(m, 10) = m \div 10
    BY QuotOfNumbers
  <2> QED
    BY <2>1, <2>2, <2>3
<1>4. PICK y \in Nat : y = Quot(pow10(p), 239) /\ 239 * y <= 10 * u
  <2>1. PICK m \in Nat : m = pow10(p) /\ m = 10 * u
    BY <1>2
  <2>2. Quot(m, 239) = m \div 239
    BY QuotOfNumbers
  <2>3. PICK q \in Nat : q = m \div 239 /\ q * 239 <= m
    BY Division
  <2> QED
    BY <2>1, <2>2, <2>3
<1>5. ASSUME NEW n \in Nat, n <= 10 * u
      PROVE  atan_tiny(n, p) \in n - (n \div 3)..n
  <2>1. PICK r \in Nat : r = Square(n, p) /\ r <= pow10(p)
    <3>1. Times(n, n, p) \in Nat /\ (n <= pow10(p) => Times(n, n, p) <= n)
      BY <1>1, TimesOfNumbers
    <3>2. Times(n, n, p) <= 10 * u
      BY <1>2, <1>5, <3>1
    <3> QED
      BY <1>2, <3>1, <3>2 DEF Square
  <2>2. Series(n, r, p, TRUE, OddNumbers) \in n - (n \div 3)..n
    BY <1>1, <2>1, SumsAlternate
  <2> QED
    BY <2>1, <2>2, Zenon DEF atan_tiny
<1>6. PICK s \in Int, t \in Int : /\ s = atan_tiny(2 * u, p) /\ t = atan_tiny(y, p)
                                  /\ 3 * s >= 4 * u /\ t <= y
  <2>1. PICK m \in Nat : m = 2 * u /\ m <= 10 * u
    OBVIOUS
  <2>2. PICK c \in Nat : c = m \div 3 /\ c * 3 <= m
    BY Division
  <2>3. atan_tiny(m, p) \in m - c..m
    BY <1>5, <2>1, <2>2
  <2>4. y <= 10 * u
    BY <1>4
  <2>5. PICK d \in Nat : d = y \div 3
    BY Remainders
  <2>6. atan_tiny(y, p) \in y - d..y
    BY <1>5, <2>4, <2>5
  <2> QED
    BY <2>1, <2>2, <2>3, <2>6
<1>7. 4 * (4 * s - t) \in Nat \ {0}
  BY <1>4, <1>6
<1>8. get_pi[p] = 4 * (4 * atan_tiny(Quot(2 * pow10(p), 10), p) - atan_tiny(Quot(pow10(p), 239), p))
  BY <1>1, Zenon DEF get_pi
<1> QED
  BY <1>3, <1>4, <1>6, <1>7, <1>8

LEMMA SquareTyped ==
  ASSUME NEW x \in Int, NEW p \in Nat
  PROVE  Square(x, p) \in Int
BY TimesTyped DEF Square

LEMMA DigitCountTyped ==
  ASSUME NEW n \in Nat
  PROVE  DigitCount(n) \in Nat
<1>1. Width(n, 10) \in Nat
  BY WidthIs
<1> QED
  BY <1>1 DEF DigitCount, Larger

LEMMA IntDigitsTyped ==
  ASSUME NEW x \in Int, NEW p \in Nat
  PROVE  IntDigits(x, p) \in Nat
<1>1. PICK X \in Nat, u \in Nat \ {0} : X = Abs(x) /\ u = pow10(p)
  <2>1. Abs(x) \in Nat
    BY DEF Abs
  <2>2. pow10(p) \in Nat \ {0}
    BY Tens
  <2> QED
    BY <2>1, <2>2
<1>2. X \div u \in Nat
  BY Remainders
<1> QED
  BY <1>1, <1>2, DigitCountTyped DEF IntDigits

LEMMA AngleTyped ==
  ASSUME NEW x \in Int, NEW p \in Nat, guarded(p) + IntDigits(x, p) <= WordMax
  PROVE  reduce_angle(x, p) \in Int
<1>1. PICK d \in Nat : d = IntDigits(x, p)
  BY IntDigitsTyped
<1>2. PICK work \in Nat : work = guarded(p) + IntDigits(x, p) /\ work \in 1..WordMax /\ work - p \in Nat
  BY <1>1, MathConstantsOK, NumbersConstantsOK, SMTT(30) DEF guarded
<1>3. PICK pi \in Nat \ {0} : pi = get_pi[work]
  BY <1>2, PiPositive
<1>4. PICK u \in Nat \ {0}, v \in Nat \ {0} : u = pow10(work - p) /\ v = pow10(d)
  BY <1>2, Tens
<1>5. PICK y \in Int, w \in Nat \ {0} : y = x * u /\ w = 2 * pi
  OBVIOUS
<1>6. PICK q \in Int : q = Quot(y, w)
  BY QuotTyped
<1>7. PICK r \in Int : r = Remainder(y, w)
  BY <1>6 DEF Remainder
<1>8. PICK n \in Int : n = IntoPeriod(r, pi)
  <2>1. r \in Int /\ r - 2 * pi \in Int /\ r + 2 * pi \in Int
    OBVIOUS
  <2> QED
    BY <2>1 DEF IntoPeriod
<1>9. Quot(n, v) \in Int
  BY QuotTyped
<1> QED
  BY <1>1, <1>2, <1>3, <1>4, <1>5, <1>7, <1>8, <1>9 DEF reduce_angle

LEMMA SineTyped ==
  ASSUME NEW x \in Int, NEW p \in Nat, guarded(p) + IntDigits(x, p) <= WordMax
  PROVE  decimal_sin(x, p) \in Int /\ decimal_cos(x, p) \in Int
<1>1. PICK n \in Int : n = reduce_angle(x, p)
  BY AngleTyped
<1>2. PICK q \in Nat, g \in Nat : q = guarded(p) /\ g = SeriesGuard
  BY MathConstantsOK DEF guarded
<1>3. PICK r \in Int : r = Square(n, q)
  BY SquareTyped
<1>4. PICK u \in Nat \ {0}, v \in Nat \ {0} : u = pow10(q) /\ v = pow10(g)
  BY Tens
<1>5. PICK s \in Int, c \in Int : s = Series(n, r, q, TRUE, OddFactorials) /\ c = Series(u, r, q, TRUE, EvenFactorials)
  <2>1. Series(n, r, q, TRUE, OddFactorials) \in Int
    BY SeriesFactors, SeriesTyped
  <2>2. u \in Int
    OBVIOUS
  <2>3. Series(u, r, q, TRUE, EvenFactorials) \in Int
    BY <2>2, SeriesFactors, SeriesTyped
  <2> QED
    BY <2>1, <2>3, Zenon
<1>6. Quot(s, v) \in Int /\ Quot(c, v) \in Int
  BY QuotTyped
<1>7. decimal_sin(x, p) = Quot(s, v) /\ decimal_cos(x, p) = Quot(c, v)
  BY <1>1, <1>2, <1>3, <1>4, <1>5, Zenon DEF decimal_sin, decimal_cos
<1> QED
  BY <1>6, <1>7

LEMMA SmallArctangentTyped ==
  ASSUME NEW x \in Int, NEW p \in Nat
  PROVE  atan_tiny(x, p) \in Int
<1>1. PICK r \in Int : r = Square(x, p)
  BY SquareTyped
<1>2. Series(x, r, p, TRUE, OddNumbers) \in Int
  BY SeriesFactors, SeriesTyped
<1> QED
  BY <1>1, <1>2, Zenon DEF atan_tiny

LEMMA ArctangentTyped ==
  ASSUME NEW x \in Int, NEW p \in Nat, guarded(p) <= WordMax
  PROVE  decimal_atan(x, p) \in Int
<1>1. PICK q \in Nat, g \in Nat : q = guarded(p) /\ g = SeriesGuard /\ q \in 1..WordMax
  BY MathConstantsOK, NumbersConstantsOK DEF guarded
<1>2. PICK u \in Nat \ {0}, v \in Nat \ {0} : u = pow10(q) /\ v = pow10(g)
  BY Tens
<1>3. PICK y \in Nat : y = Abs(x) * v
  BY DEF Abs
<1>4. PICK S : S = Nat
  OBVIOUS
<1> DEFINE invert == y > u
           first == IF invert THEN Over(u, y, q) ELSE y
           Half(c) == Over(c, u + Root((u + Square(c, q)) * u), q)
           Recursion(f) == f = [i \in 0..4 |-> IF i = 0 THEN first ELSE Half(f[i - 1])]
           h == [m \in 1..4 |-> [c \in S |-> Half(c)]]
           half == CHOOSE f : Recursion(f)
<1>5. first \in S
  <2>1. CASE invert
    <3>1. y \in Int /\ y # 0 /\ y > 0
      BY <2>1
    <3>2. Over(u, y, q) \in Nat
      BY <3>1, OverTyped
    <3> QED
      BY <1>4, <2>1, <3>2
  <2>2. CASE ~invert
    BY <1>4, <2>2
  <2> QED
    BY <2>1, <2>2
<1>6. \A c \in S : Half(c) \in S
  <2>1. SUFFICES ASSUME NEW c \in Nat
                 PROVE  Half(c) \in Nat
    BY <1>4
  <2>2. PICK w \in Nat : w = Square(c, q)
    BY TimesOfNumbers DEF Square
  <2>3. PICK n \in Nat : n = (u + w) * u
    OBVIOUS
  <2>4. PICK r \in Nat : r = Root(n)
    BY RootIs
  <2>5. PICK z \in Int : z = u + r /\ z # 0 /\ z > 0
    OBVIOUS
  <2>6. Over(c, z, q) \in Nat
    BY <2>5, OverTyped
  <2> QED
    BY <2>2, <2>3, <2>4, <2>5, <2>6
<1>7. decimal_atan(x, p) =
        IF x = 0 THEN 0
        ELSE Quot(Sign(x) * (IF invert THEN Quot(get_pi[q], 2) - 16 * atan_tiny(half[4], q)
                             ELSE 16 * atan_tiny(half[4], q)), v)
  BY <1>1, <1>2, <1>3 DEF decimal_atan
<1> HIDE DEF first, Half
<1>8. \A m \in 1..4, c \in S : h[m][c] = Half(c) /\ Half(c) \in S
  BY <1>6
<1> HIDE DEF h, half
<1>9. PICK k \in Nat : k = 4
  OBVIOUS
<1>10. PICK w : /\ \A i \in 0..k : w[i] \in S
                /\ w = [i \in 0..k |-> IF i = 0 THEN first ELSE h[i][w[i - 1]]]
  <2>1. Steps(h, S, k)
    BY <1>8, <1>9 DEF Steps
  <2> QED
    BY <1>5, <2>1, Counted
<1>11. Recursion(w)
  <2>1. ASSUME NEW i \in 0..4
        PROVE  w[i] = IF i = 0 THEN first ELSE Half(w[i - 1])
    <3>1. CASE i # 0
      <4>1. i \in 1..4 /\ i - 1 \in 0..4
        BY <3>1
      <4> QED
        BY <1>8, <1>9, <1>10, <3>1, <4>1
    <3> QED
      BY <1>9, <1>10, <3>1
  <2>2. w = [i \in 0..4 |-> w[i]]
    BY <1>9, <1>10
  <2> QED
    BY <2>1, <2>2
<1>12. half[0] = first /\ \A i \in 1..k : half[i] = Half(half[i - 1])
  <2>1. Recursion(half)
    BY <1>11 DEF half
  <2>2. \A i \in 0..4 : half[i] = IF i = 0 THEN first ELSE Half(half[i - 1])
    BY <2>1, Zenon
  <2>3. 0 \in 0..4 /\ \A i \in 1..4 : i \in 0..4 /\ i # 0
    OBVIOUS
  <2> QED
    BY <1>9, <2>2, <2>3, Zenon
<1>13. PICK c \in Int : c = half[4]
  <2>1. \A i \in 1..k : half[i - 1] \in S => half[i] \in S
    BY <1>6, <1>12
  <2>2. \A i \in 0..k : half[i] \in S
    BY <1>5, <1>12, <2>1, StaysIn
  <2>3. half[4] \in Nat
    BY <1>4, <1>9, <2>2
  <2> QED
    BY <2>3
<1>14. PICK value \in Int : value = 16 * atan_tiny(c, q)
  BY SmallArctangentTyped
<1>15. PICK right \in Int : right = Quot(get_pi[q], 2)
  <2>1. get_pi[q] \in Int
    BY <1>1, PiPositive
  <2> QED
    BY <2>1, QuotTyped
<1>16. PICK z \in Int : z = Sign(x) * (IF invert THEN right - value ELSE value)
  BY DEF Sign
<1>17. Quot(z, v) \in Int
  BY QuotTyped
<1>18. decimal_atan(x, p) = IF x = 0 THEN 0 ELSE Quot(z, v)
  BY <1>7, <1>13, <1>14, <1>15, <1>16, Zenon
<1> QED
  BY <1>17, <1>18

(* The digits of ln 2 are never zero either. *)
LEMMA Ln2Positive ==
  ASSUME NEW p \in 1..WordMax
  PROVE  compute_ln2[p] \in Nat \ {0}
<1>1. p \in Nat /\ p - 1 \in Nat /\ p \in 0..WordMax
  BY NumbersConstantsOK
<1>2. PICK u \in Nat \ {0} : pow10(p) = 10 * u
  <2>1. PICK k \in Nat : k = p - 1
    BY <1>1
  <2>2. pow10(k) \in Nat \ {0} /\ pow10(k + 1) = 10 * pow10(k)
    BY Tens
  <2>3. k + 1 = p
    BY <1>1, <2>1
  <2> QED
    BY <2>2, <2>3
<1>3. PICK y \in Nat \ {0} : y = Quot(pow10(p), 3)
  <2>1. PICK m \in Nat : m = pow10(p) /\ m = 10 * u
    BY <1>2
  <2>2. PICK q \in Nat : q = m \div 3 /\ m < (q + 1) * 3
    BY Division
  <2>3. Quot(m, 3) = m \div 3
    BY QuotOfNumbers
  <2>4. q # 0
    BY <2>1, <2>2
  <2> QED
    BY <2>1, <2>2, <2>3, <2>4
<1>4. PICK r \in Nat : r = Square(y, p)
  BY <1>1, TimesOfNumbers DEF Square
<1>5. OverAll(y, OddNumbers[0]) = y
  <2>1. PICK S : S = Nat
    OBVIOUS
  <2>2. PICK f \in Seq(Nat \ {0}) : f = OddNumbers[0] /\ Len(f) = 1 /\ f[1] = 1
    <3>1. 0 \in 0..MaxTerms
      BY MathConstantsOK
    <3>2. OddNumbers[0] = <<1>>
      BY <3>1 DEF OddNumbers
    <3>3. <<1>> \in Seq(Nat \ {0}) /\ Len(<<1>>) = 1 /\ <<1>>[1] = 1
      OBVIOUS
    <3> QED
      BY <3>2, <3>3
  <2>3. OverAll(y, f) = Quot(y, f[1])
    <3>1. Kind(S) /\ y \in S
      BY <2>1 DEF Kind
    <3>2. Len(f) = 1 => OverAll(y, f) = Quot(y, f[1])
      BY <3>1, OverAllTyped
    <3> QED
      BY <2>2, <3>2
  <2>4. Quot(y, 1) = y \div 1 /\ y \div 1 = y
    BY QuotOfNumbers
  <2> QED
    BY <2>2, <2>3, <2>4
<1>6. PICK s \in Nat : s = Series(y, r, p, FALSE, OddNumbers) /\ s >= y
  <2>1. /\ Series(y, r, p, FALSE, OddNumbers) \in Nat
        /\ Series(y, r, p, FALSE, OddNumbers) >= OverAll(y, OddNumbers[0])
    BY <1>1, SeriesFactors, SumsGrow
  <2> QED
    BY <1>5, <2>1
<1>7. 2 * s \in Nat \ {0}
  <2>1. s >= y
    BY <1>6
  <2>2. s # 0
    BY <2>1
  <2> QED
    BY <2>2
<1>8. compute_ln2[p] = 2 * s
  BY <1>1, <1>3, <1>4, <1>6, Zenon DEF compute_ln2
<1> QED
  BY <1>7, <1>8

LEMMA Twos ==
  ASSUME NEW n \in Nat
  PROVE  Powers(2)[n] \in Nat \ {0} /\ Powers(2)[n] > n
<1>1. Powers(2)[0] = 1 /\ \A i \in Nat : Powers(2)[i] \in Nat \ {0} /\ Powers(2)[i + 1] = 2 * Powers(2)[i]
  BY PowerSteps, PowerPositive
<1> DEFINE I == {i \in Nat : Powers(2)[i] > i}
<1>2. 0 \in I
  BY <1>1
<1>3. ASSUME NEW i \in Nat, i \in I
      PROVE  i + 1 \in I
  <2>1. PICK t \in Nat : t = Powers(2)[i] /\ t > i /\ Powers(2)[i + 1] = 2 * t
    BY <1>1, <1>3
  <2>2. 2 * t > i + 1
    BY <2>1
  <2> QED
    BY <2>1, <2>2
<1>4. Nat \subseteq I
  <2> HIDE DEF I
  <2> QED
    BY <1>2, <1>3, Induction
<1> QED
  BY <1>1, <1>4

LEMMA TwosGrow ==
  ASSUME NEW m \in Nat, NEW n \in Nat, m <= n
  PROVE  Powers(2)[m] <= Powers(2)[n]
<1>1. PICK d \in Nat : n = m + d
  <2>1. n - m \in Nat /\ n = m + (n - m)
    OBVIOUS
  <2> QED
    BY <2>1
<1>2. PICK s \in Nat, t \in Nat \ {0} : s = Powers(2)[m] /\ t = Powers(2)[d]
  BY Twos
<1>3. Powers(2)[n] = s * t
  BY <1>1, <1>2, PowerAdds
<1>4. s * t >= s
  <2>1. PICK c \in Nat : t = c + 1
    <3>1. t - 1 \in Nat /\ t = (t - 1) + 1
      OBVIOUS
    <3> QED
      BY <3>1
  <2>2. s * t = s * c + s /\ s * c \in Nat
    BY <2>1
  <2> QED
    BY <2>2
<1> QED
  BY <1>2, <1>3, <1>4

(* A positive number has its m and k: the loops that shift and double it end. *)
LEMMA NearOneTyped ==
  ASSUME NEW value \in Nat \ {0}, NEW p \in Nat \ {0}
  PROVE  NearOne(value, p).m \in Nat /\ NearOne(value, p).k \in Int
<1>1. PICK w \in Nat : w = Width(value, 2) /\ (w > 0 => Powers(2)[w - 1] <= value)
  BY WidthIs
<1>2. PICK d \in Nat \ {0} : d = Quot(p * 3321928, 1000000)
  <2>1. PICK m \in Nat : m = p * 3321928 /\ m >= 3321928
    OBVIOUS
  <2>2. PICK q \in Nat : q = m \div 1000000 /\ m < (q + 1) * 1000000
    BY Division
  <2>3. Quot(m, 1000000) = m \div 1000000
    BY QuotOfNumbers
  <2>4. q # 0
    BY <2>1, <2>2
  <2> QED
    BY <2>1, <2>2, <2>3, <2>4
<1>3. PICK shift \in Int : shift = w - d
  OBVIOUS
<1>4. PICK near \in Nat \ {0} : near = IF shift >= 0 THEN value \div Powers(2)[shift] ELSE value * Powers(2)[-shift]
  <2>1. CASE shift >= 0
    <3>1. PICK s \in Nat, n \in Nat : s = shift /\ n = w - 1 /\ s <= n /\ w > 0
      BY <1>2, <1>3, <2>1
    <3>2. PICK t \in Nat \ {0}, v \in Nat : t = Powers(2)[s] /\ v = Powers(2)[n] /\ t <= v
      BY <3>1, Twos, TwosGrow
    <3>3. t <= value
      BY <1>1, <3>1, <3>2
    <3>4. PICK q \in Nat : q = value \div t /\ value < (q + 1) * t
      BY Division
    <3>5. q # 0
      BY <3>3, <3>4
    <3> QED
      BY <2>1, <3>1, <3>2, <3>4, <3>5
  <2>2. CASE shift < 0
    <3>1. PICK s \in Nat : s = -shift
      BY <2>2
    <3>2. PICK t \in Nat \ {0} : t = Powers(2)[s]
      BY Twos
    <3>3. value * t \in Nat \ {0}
      OBVIOUS
    <3> QED
      BY <2>2, <3>1, <3>2, <3>3
  <2> QED
    BY <2>1, <2>2
<1>5. PICK threshold \in Nat : threshold = Quot(707 * pow10(p), 1000)
  <2>1. PICK m \in Nat : m = 707 * pow10(p)
    BY Tens
  <2>2. Quot(m, 1000) = m \div 1000
    BY QuotOfNumbers
  <2>3. m \div 1000 \in Nat
    BY Remainders
  <2> QED
    BY <2>1, <2>2, <2>3
<1> DEFINE Enough(n) == near * Powers(2)[n] >= threshold
           Doublings(n) == Enough(n) /\ (n > 0 => near * Powers(2)[n - 1] < threshold)
           doublings == CHOOSE n \in 0..threshold : Doublings(n)
<1>6. \A n \in Nat : near * Powers(2)[n] \in Nat
  BY Twos
<1>7. \E n \in 0..threshold : Doublings(n)
  <2>1. Enough(threshold)
    <3>1. PICK t \in Nat : t = Powers(2)[threshold] /\ t > threshold
      BY Twos
    <3>2. near * t >= t
      <4>1. PICK c \in Nat : near = c + 1
        <5>1. near - 1 \in Nat /\ near = (near - 1) + 1
          OBVIOUS
        <5> QED
          BY <5>1
      <4>2. near * t = c * t + t /\ c * t \in Nat
        BY <4>1
      <4> QED
        BY <4>2
    <3>3. near * t \in Nat
      OBVIOUS
    <3> QED
      BY <3>1, <3>2, <3>3
  <2> DEFINE E == {n \in Nat : Enough(n)}
  <2>2. PICK n \in E : \A m \in E : n <= m
    <3>1. E \in SUBSET Nat /\ E # {}
      BY <2>1
    <3> HIDE DEF E
    <3> QED
      BY <3>1, Least
  <2>3. n \in 0..threshold /\ Enough(n)
    BY <2>1, <2>2
  <2>4. ASSUME n > 0
        PROVE  near * Powers(2)[n - 1] < threshold
    <3>1. n - 1 \in Nat /\ ~(n <= n - 1)
      BY <2>2, <2>4
    <3>2. ~Enough(n - 1)
      BY <2>2, <3>1
    <3>3. near * Powers(2)[n - 1] \in Nat
      BY <1>6, <3>1
    <3> QED
      BY <3>2, <3>3
  <2> QED
    BY <2>3, <2>4
<1>8. PICK n \in Nat : n = doublings
  <2>1. doublings \in 0..threshold
    <3> HIDE DEF Doublings
    <3> QED
      BY <1>7
  <2> QED
    BY <2>1
<1>9. NearOne(value, p) = [m |-> near * Powers(2)[doublings], k |-> shift - doublings]
  BY <1>1, <1>2, <1>3, <1>4, <1>5 DEF NearOne
<1> HIDE DEF doublings
<1>10. near * Powers(2)[n] \in Nat /\ shift - n \in Int
  BY <1>6
<1> QED
  BY <1>8, <1>9, <1>10

LEMMA LogarithmTyped ==
  ASSUME NEW x \in Nat \ {0}, NEW precision \in Nat, precision + GuardDigits <= WordMax
  PROVE  decimal_ln(x, precision) \in Int
<1>1. PICK g \in Nat \ {0}, p \in Nat \ {0} : g = GuardDigits /\ p = precision + GuardDigits /\ p \in 1..WordMax
  BY MathConstantsOK, NumbersConstantsOK
<1>2. PICK u \in Nat \ {0}, v \in Nat \ {0} : u = pow10(p) /\ v = pow10(g)
  BY Tens
<1>3. PICK value \in Nat \ {0} : value = x * v
  OBVIOUS
<1>4. PICK m \in Nat, k \in Int : m = NearOne(value, p).m /\ k = NearOne(value, p).k
  BY NearOneTyped
<1>5. PICK y \in Int : y = Over(m - u, m + u, p)
  <2>1. m - u \in Int /\ m + u \in Int /\ m + u # 0
    OBVIOUS
  <2> QED
    BY <2>1, OverTyped
<1>6. PICK r \in Int : r = Square(y, p)
  BY SquareTyped
<1>7. PICK s \in Int : s = Series(y, r, p, FALSE, OddNumbers)
  BY SeriesFactors, SeriesTyped
<1>8. PICK ln2 \in Int : ln2 = compute_ln2[p]
  BY <1>1, Ln2Positive
<1>9. PICK z \in Int : z = 2 * s + ln2 * k
  OBVIOUS
<1>10. Quot(z, v) \in Int
  BY QuotTyped
<1>11. decimal_ln(x, precision) = Quot(z, v)
  BY <1>1, <1>2, <1>3, <1>4, <1>5, <1>6, <1>7, <1>8, <1>9, Zenon DEF decimal_ln
<1> QED
  BY <1>10, <1>11

(* An exponential is never zero, so that it can be inverted, if its power of two fits. *)
LEMMA ExponentialTyped ==
  ASSUME NEW x \in Int, NEW precision \in Nat, precision + GuardDigits <= WordMax,
         x < 0 => TwoPower(x, precision) # WordMax
  PROVE  decimal_exp(x, precision) \in Int
<1>1. PICK g \in Nat \ {0}, p \in Nat \ {0} : g = GuardDigits /\ p = precision + GuardDigits /\ p \in 1..WordMax
  BY MathConstantsOK, NumbersConstantsOK
<1>2. PICK u \in Nat \ {0}, v \in Nat \ {0} : u = pow10(p) /\ v = pow10(g)
  BY Tens
<1>3. PICK value \in Nat : value = Abs(x) * v
  BY DEF Abs
<1>4. PICK ln2 \in Nat \ {0} : ln2 = compute_ln2[p]
  BY <1>1, Ln2Positive
<1>5. PICK n \in Nat : n = value \div ln2 /\ n * ln2 <= value
  BY Division
<1>6. PICK r \in Nat : r = value - ln2 * n
  <2>1. ln2 * n = n * ln2 /\ n * ln2 \in Nat
    OBVIOUS
  <2> QED
    BY <1>5, <2>1
<1>7. PICK total \in Nat \ {0} : total = Series(u, r, p, FALSE, Factorials)
  <2>1. OverAll(u, Factorials[0]) = u
    <3>1. PICK S : S = Nat
      OBVIOUS
    <3>2. Kind(S) /\ u \in S
      BY <3>1 DEF Kind
    <3>3. 0 \in 0..MaxTerms
      BY MathConstantsOK
    <3>4. PICK f \in Seq(Nat \ {0}) : f = Factorials[0] /\ Len(f) = 0
      BY <3>3, UpToFactors DEF Factorials
    <3>5. Len(f) = 0 => OverAll(u, f) = u
      BY <3>2, OverAllTyped
    <3> QED
      BY <3>4, <3>5
  <2>2. /\ Series(u, r, p, FALSE, Factorials) \in Nat
        /\ Series(u, r, p, FALSE, Factorials) >= OverAll(u, Factorials[0])
    BY SeriesFactors, SumsGrow
  <2>3. PICK s \in Nat : s = Series(u, r, p, FALSE, Factorials) /\ s >= u
    BY <2>1, <2>2
  <2>4. s >= u
    BY <2>3
  <2>5. s \in Nat \ {0}
    BY <2>4
  <2> QED
    BY <2>3, <2>5
<1>8. PICK t \in Nat \ {0} : t = Powers(2)[n]
  BY Twos
<1>9. PICK power \in Nat : /\ power = IF TwoPower(x, precision) # WordMax THEN total * t ELSE 0
                           /\ x < 0 => power # 0
  <2>1. total * t \in Nat \ {0} /\ total * t \in Nat
    OBVIOUS
  <2> QED
    BY <2>1
<1>10. PICK z \in Int : z = IF x < 0 THEN Over(u, power, p) ELSE power
  <2>1. CASE x < 0
    <3>1. power \in Int /\ power # 0 /\ u \in Int
      BY <1>9, <2>1
    <3>2. Over(u, power, p) \in Int
      BY <3>1, OverTyped
    <3> QED
      BY <2>1, <3>2
  <2>2. CASE ~(x < 0)
    BY <2>2
  <2> QED
    BY <2>1, <2>2
<1>11. Quot(z, v) \in Int
  BY QuotTyped
<1>12. decimal_exp(x, precision) = Quot(z, v)
  BY <1>1, <1>2, <1>3, <1>4, <1>5, <1>6, <1>7, <1>8, <1>9, <1>10, Zenon DEF decimal_exp
<1> QED
  BY <1>11, <1>12

LEMMA BesselTyped ==
  ASSUME NEW n \in Int, NEW x \in Int, NEW p \in Nat
  PROVE  bessel(n, x, p) \in Int
<1>1. PICK k : k = NegativeOrderParity(n)
  OBVIOUS
<1>2. PICK order \in Nat, sign \in Int : order = k.order /\ sign = k.sign
  <2>1. Abs(n) \in Nat
    BY DEF Abs
  <2> QED
    BY <1>1, <2>1 DEF NegativeOrderParity
<1>3. PICK u \in Nat \ {0} : u = pow10(p)
  BY Tens
<1>4. PICK x_half \in Int : x_half = Quot(x, 2)
  BY QuotTyped
<1>5. PICK S : S = Int
  OBVIOUS
<1> DEFINE products == [m \in 0..MaxTerms |-> UpTo(m) \o UpTo(order + m)]
           Recursion(f) == f = [i \in 0..order |-> IF i = 0 THEN u ELSE Times(f[i - 1], x_half, p)]
           h == [m \in 1..order |-> [c \in S |-> Times(c, x_half, p)]]
           term_factor == CHOOSE f : Recursion(f)
<1>6. bessel(n, x, p) = IF x = 0 THEN IF n = 0 THEN u ELSE 0
                        ELSE sign * Series(term_factor[order], Square(x_half, p), p, TRUE, products)
  BY <1>1, <1>2, <1>3, <1>4 DEF bessel
<1>7. Factors(products)
  <2>1. ASSUME NEW m \in 0..MaxTerms
        PROVE  products[m] \in Seq(Nat \ {0})
    <3>1. m \in Nat /\ order + m \in Nat
      BY MathConstantsOK
    <3>2. PICK s \in Seq(Nat \ {0}), t \in Seq(Nat \ {0}) : s = UpTo(m) /\ t = UpTo(order + m)
      BY <3>1, UpToFactors
    <3>3. s \o t \in Seq(Nat \ {0})
      OBVIOUS
    <3> QED
      BY <3>2, <3>3
  <2> HIDE DEF products
  <2> QED
    BY <2>1 DEF Factors
<1>8. \A m \in 1..order, c \in S : h[m][c] = Times(c, x_half, p) /\ Times(c, x_half, p) \in S
  BY <1>5, TimesTyped
<1> HIDE DEF products, h, term_factor
<1>9. PICK w : /\ \A i \in 0..order : w[i] \in S
               /\ w = [i \in 0..order |-> IF i = 0 THEN u ELSE h[i][w[i - 1]]]
  <2>1. Steps(h, S, order) /\ u \in S
    BY <1>5, <1>8 DEF Steps
  <2> QED
    BY <2>1, Counted
<1>10. Recursion(w)
  <2>1. ASSUME NEW i \in 0..order
        PROVE  w[i] = IF i = 0 THEN u ELSE Times(w[i - 1], x_half, p)
    <3>1. CASE i # 0
      <4>1. i \in 1..order /\ i - 1 \in 0..order
        BY <3>1
      <4> QED
        BY <1>8, <1>9, <3>1, <4>1
    <3> QED
      BY <1>9, <3>1
  <2>2. w = [i \in 0..order |-> w[i]]
    BY <1>9
  <2> QED
    BY <2>1, <2>2
<1>11. term_factor[0] = u /\ \A i \in 1..order : term_factor[i] = Times(term_factor[i - 1], x_half, p)
  <2>1. Recursion(term_factor)
    BY <1>10 DEF term_factor
  <2>2. \A i \in 0..order : term_factor[i] = IF i = 0 THEN u ELSE Times(term_factor[i - 1], x_half, p)
    BY <2>1, Zenon
  <2>3. 0 \in 0..order /\ \A i \in 1..order : i \in 0..order /\ i # 0
    OBVIOUS
  <2> QED
    BY <2>2, <2>3, Zenon
<1>12. PICK c \in Int : c = term_factor[order]
  <2>1. \A i \in 1..order : term_factor[i - 1] \in S => term_factor[i] \in S
    <3>1. \A v \in Int : Times(v, x_half, p) \in Int
      BY TimesTyped
    <3> QED
      BY <1>5, <1>11, <3>1, Zenon
  <2>2. term_factor[0] \in S
    BY <1>5, <1>11
  <2>3. \A i \in 0..order : term_factor[i] \in S
    BY <2>1, <2>2, StaysIn
  <2> QED
    BY <1>5, <2>3
<1>13. PICK r \in Int : r = Square(x_half, p)
  BY SquareTyped
<1>14. PICK s \in Int : s = Series(c, r, p, TRUE, products)
  BY <1>7, SeriesTyped
<1>15. sign * s \in Int
  OBVIOUS
<1>16. bessel(n, x, p) = IF x = 0 THEN IF n = 0 THEN u ELSE 0 ELSE sign * s
  BY <1>6, <1>12, <1>13, <1>14, Zenon
<1> QED
  BY <1>15, <1>16

LEMMA RescaleTyped ==
  ASSUME NEW value \in Int, NEW from \in Nat, NEW to \in Nat
  PROVE  /\ Rescale(value, from, to) \in Int
         /\ to >= from => /\ Rescale(value, from, to) < 0 <=> value < 0
                          /\ Rescale(value, from, to) <= 0 <=> value <= 0
<1>1. CASE to >= from
  <2>1. PICK d \in Nat : d = to - from
    BY <1>1
  <2>2. PICK u \in Nat \ {0} : u = pow10(d)
    BY Tens
  <2>3. value * u \in Int /\ (value * u < 0 <=> value < 0) /\ (value * u <= 0 <=> value <= 0)
    <3>1. 0 * u = 0 /\ value * u \in Int /\ 0 \in Int
      OBVIOUS
    <3>2. (value * u <= 0 * u <=> value <= 0) /\ (value * u < 0 * u <=> value < 0)
      BY <3>1, Cancels
    <3> QED
      BY <3>1, <3>2
  <2>4. Rescale(value, from, to) = value * u
    BY <1>1, <2>1, <2>2 DEF Rescale
  <2> QED
    BY <2>3, <2>4
<1>2. CASE ~(to >= from)
  <2>1. PICK d \in Nat : d = from - to
    BY <1>2
  <2>2. PICK u \in Nat \ {0} : u = pow10(d)
    BY Tens
  <2>3. Quot(value, u) \in Int
    BY QuotTyped
  <2>4. Rescale(value, from, to) = Quot(value, u)
    BY <1>2, <2>1, <2>2 DEF Rescale
  <2> QED
    BY <1>2, <2>3, <2>4
<1> QED
  BY <1>1, <1>2

LEMMA PrecisionTyped ==
  ASSUME NEW f, NEW x \in Decimals, NEW g \in Scales
  PROVE  /\ GuardPrec(x, g, ExtraPrec(f, x)) \in Nat
         /\ GuardPrec(x, g, ExtraPrec(f, x)) >= x.scale
<1>1. x.coeff \in Int /\ x.scale \in Nat /\ g \in Nat
  BY DecimalTyped, NumbersConstantsOK DEF Scales
<1>2. PICK u \in Nat \ {0} : u = pow10(x.scale)
  BY <1>1, Tens
<1>3. PICK q \in Int : q = Quot(x.coeff, u)
  BY <1>1, QuotTyped
<1>4. PICK i \in Nat : i = IntApprox(x)
  <2>1. PICK i \in Nat : i = Abs(q)
    BY DEF Abs
  <2> QED
    BY <1>2, <1>3, <2>1 DEF IntApprox
<1>5. i \div 2 \in Nat
  BY Remainders
<1>6. PICK e \in Nat : e = ExtraPrec(f, x)
  BY <1>4, <1>5 DEF ExtraPrec
<1>7. PICK s \in Nat : s = x.scale
  BY <1>1
<1>8. Larger(s, g) \in Nat /\ Larger(s, g) >= s
  BY <1>1 DEF Larger
<1>9. GuardPrec(x, g, e) = Larger(s, g) + e + GuardDigits
  BY <1>7 DEF GuardPrec
<1> QED
  BY <1>6, <1>7, <1>8, <1>9, MathConstantsOK

LEMMA OrderTyped ==
  ASSUME NEW n \in Decimals
  PROVE  Order(n) \in Int
<1>1. n.coeff \in Int /\ n.scale \in Nat
  BY DecimalTyped
<1>2. PICK u \in Nat \ {0} : u = pow10(n.scale)
  BY <1>1, Tens
<1>3. PICK e \in Int : e = Quot(n.coeff, u)
  BY <1>1, QuotTyped
<1> QED
  BY <1>2, <1>3 DEF Order, Exponent

(* A call that does not panic gives a number. *)
LEMMA MathResultTyped ==
  ASSUME NEW f \in MathFunctions, NEW n \in Decimals, NEW x \in Decimals, NEW g \in Scales, ~Panics(f, n, x, g)
  PROVE  MathResult(f, n, x, g) \in Decimals
<1>1. PICK p \in Nat : p = GuardPrec(x, g, ExtraPrec(f, x)) /\ p >= x.scale
  BY PrecisionTyped
<1>2. PICK c \in Int, s \in Nat : c = x.coeff /\ s = x.scale /\ s <= p
  BY <1>1, DecimalTyped
<1>3. PICK y \in Int : y = Rescale(x.coeff, x.scale, p) /\ (y < 0 <=> c < 0)
  BY <1>2, RescaleTyped
<1>4. ~(Digits(f, x, g) > WordMax)
  BY DEF Panics
<1>5. PICK digits : digits = GuardDigits
  OBVIOUS
<1>6. GuardDigits \in Nat /\ WordMax \in Nat /\ SeriesGuard \in Nat
  BY MathConstantsOK, NumbersConstantsOK
<1>7. f \in {"s", "c"} => decimal_sin(y, p) \in Int /\ decimal_cos(y, p) \in Int
  <2>1. SUFFICES ASSUME f \in {"s", "c"}
                 PROVE  decimal_sin(y, p) \in Int /\ decimal_cos(y, p) \in Int
    OBVIOUS
  <2>2. Digits(f, x, g) = guarded(p) + IntDigits(y, p)
    BY <1>1, <1>3, <2>1 DEF Digits
  <2>3. IntDigits(y, p) \in Nat /\ guarded(p) \in Nat
    BY <1>6, IntDigitsTyped DEF guarded
  <2>4. guarded(p) + IntDigits(y, p) <= WordMax
    BY <1>4, <1>6, <2>2, <2>3
  <2> QED
    BY <2>4, SineTyped
<1>8. f = "a" => decimal_atan(y, p) \in Int
  <2>1. SUFFICES ASSUME f = "a"
                 PROVE  decimal_atan(y, p) \in Int
    OBVIOUS
  <2>2. Digits(f, x, g) = guarded(p)
    BY <1>1, <2>1 DEF Digits
  <2>3. guarded(p) \in Nat
    BY <1>6 DEF guarded
  <2>4. guarded(p) <= WordMax
    BY <1>4, <1>6, <2>2, <2>3
  <2> QED
    BY <2>4, ArctangentTyped
<1>9. f \in {"l", "e"} => p + GuardDigits <= WordMax
  <2>1. SUFFICES ASSUME f \in {"l", "e"}
                 PROVE  p + GuardDigits <= WordMax
    OBVIOUS
  <2>2. Digits(f, x, g) = p + GuardDigits
    BY <1>1, <2>1 DEF Digits
  <2> QED
    BY <1>4, <1>6, <2>2
<1>10. f = "l" /\ ~(y <= 0) => decimal_ln(y, p) \in Int
  <2>1. SUFFICES ASSUME f = "l", ~(y <= 0)
                 PROVE  decimal_ln(y, p) \in Int
    OBVIOUS
  <2>2. y \in Nat \ {0} /\ p + GuardDigits <= WordMax
    BY <1>9, <2>1
  <2> QED
    BY <2>2, LogarithmTyped
<1>11. f = "e" => decimal_exp(y, p) \in Int
  <2>1. SUFFICES ASSUME f = "e"
                 PROVE  decimal_exp(y, p) \in Int
    OBVIOUS
  <2>2. y < 0 => TwoPower(y, p) # WordMax
    BY <1>1, <1>2, <1>3, <2>1 DEF Panics
  <2> QED
    BY <1>9, <2>1, <2>2, ExponentialTyped
<1>12. PICK m \in Int : m = Order(n)
  BY OrderTyped
<1>13. bessel(m, y, p) \in Int
  BY BesselTyped
<1> DEFINE value == CASE f = "s" -> decimal_sin(y, p)
                      [] f = "c" -> decimal_cos(y, p)
                      [] f = "a" -> decimal_atan(y, p)
                      [] f = "l" -> decimal_ln(y, p)
                      [] f = "e" -> decimal_exp(y, p)
                      [] f = "j" -> bessel(m, y, p)
<1>14. MathResult(f, n, x, g) =
         BCNum(IF f = "l" /\ y <= 0 THEN (1 - pow10(g)) * pow10(g) ELSE Rescale(value, p, g), g)
  BY <1>1, <1>3, <1>12 DEF MathResult
<1>15. (f = "l" /\ y <= 0) \/ value \in Int
  BY <1>7, <1>8, <1>10, <1>11, <1>13 DEF MathFunctions
<1> HIDE DEF value
<1>16. g \in Nat
  BY NumbersConstantsOK DEF Scales
<1>17. (1 - pow10(g)) * pow10(g) \in Int
  <2>1. PICK u \in Nat \ {0} : u = pow10(g)
    BY <1>16, Tens
  <2>2. (1 - u) * u \in Int
    OBVIOUS
  <2> QED
    BY <2>1, <2>2
<1>18. PICK z \in Int : MathResult(f, n, x, g) = BCNum(z, g)
  <2>1. CASE f = "l" /\ y <= 0
    BY <1>14, <1>17, <2>1
  <2>2. CASE ~(f = "l" /\ y <= 0)
    <3>1. Rescale(value, p, g) \in Int
      BY <1>15, <1>16, <2>2, RescaleTyped
    <3> QED
      BY <1>14, <2>2, <3>1
  <2> QED
    BY <2>1, <2>2
<1> QED
  BY <1>18 DEF BCNum, Decimals

LEMMA MathNextKeepsTypes == Typed /\ [MathNext]_vars => Typed'
<1> SUFFICES ASSUME Typed, [MathNext]_vars
             PROVE  Typed'
  OBVIOUS
<1>1. a \in Decimals /\ b \in Decimals /\ scale \in Scales
  BY DEF Typed
<1>2. ASSUME NEW f \in MathFunctions, CallMath(f)
      PROVE  Typed'
  <2>1. ~Panics(f, b, a, scale) /\ a' = MathResult(f, b, a, scale) /\ b' = b /\ scale' = scale
    BY <1>2 DEF CallMath
  <2>2. a' \in Decimals
    BY <1>1, <2>1, MathResultTyped
  <2> QED
    BY <1>1, <2>1, <2>2 DEF Typed
<1>3. CASE [Next]_vars
  BY <1>3, NextKeepsTypes
<1> QED
  BY <1>2, <1>3 DEF MathNext

(* Whatever the library computes is a number of the scale of the register: no call divides  *)
(* by zero or looks for what is not there, unless it panics as Panics says.                 *)
THEOREM LibraryGivesNumbers == MathSpec => []Typed
BY InitiallyTyped, MathNextKeepsTypes, PTL DEF MathSpec

-----------------------------------------------------------------------------
(* So what was shown of numbers holds of all that are computed, with the library or without:*)
(* Spec has the steps of MathSpec but its calls.                                            *)
LEMMA LibraryOnlyAdds == Spec => MathSpec
<1>1. [Next]_vars => [MathNext]_vars
  BY DEF MathNext
<1> QED
  BY <1>1, PTL DEF Spec, MathSpec

(* ResultsTruncated holds in every reachable state (COMPATIBILITY.md section 1.4): every    *)
(* operation on the decimals bc computes gives the exact value, cut off at the digits POSIX *)
(* keeps, for coefficients of any size: MaxCoeff only bounds what is explored.              *)
THEOREM ResultsStayTruncated == MathSpec => []ResultsTruncated
BY LibraryGivesNumbers, TypedTruncated, PTL

(* RemaindersExact holds in every reachable state: a % b is what the quotient at the        *)
(* current scale leaves, exactly.                                                           *)
THEOREM RemaindersStayExact == MathSpec => []RemaindersExact
BY LibraryGivesNumbers, TypedRemainders, PTL

(* PrintedTellsValue holds in every reachable state, for every base and numbers of any size. *)
THEOREM PrintedNumbersTellValue == MathSpec => []PrintedTellsValue
BY LibraryGivesNumbers, TypedPrinted, PTL

(* PrintedReadsBack holds in every reachable state, for every base and numbers of any size. *)
THEOREM PrintedNumbersReadBack == MathSpec => []PrintedReadsBack
BY LibraryGivesNumbers, TypedReadsBack, PTL
=============================================================================
