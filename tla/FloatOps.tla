------------------------------ MODULE FloatOps ------------------------------
(***************************************************************************)
(* The operations of floating point mode (calc_float.c), with the angle    *)
(* unit and the option to round sine and cosine to zero as arguments, and  *)
(* the series of decNumberMath.c they are made of.  Every step is rounded  *)
(* to DECPMAX digits, as in the code, whose decNumbers have the same       *)
(* digits and range as a decQuad; their arithmetic is that of DecArith.    *)
(* The functions decNumber.c offers ready made are parameters.             *)
(***************************************************************************)
EXTENDS DecArith

CONSTANTS
  PI,               \* as many digits of pi as a number has
  ZeroThreshold,    \* a sine or cosine below this may be called zero (1E-30)
  SmallArg,         \* an argument below this is its own arc tangent (1E-10)
  MAX_FACTORIAL,    \* 2123
  SquareRoot(_), Exp(_), Log10(_), Ln(_), Power(_, _)

Add(x, y)      == decFloatAdd(x, y, "half_even")
Subtract(x, y) == decFloatSubtract(x, y, "half_even")
Multiply(x, y) == decFloatMultiply(x, y, "half_even")
Divide(x, y)   == decDivide(x, y, "half_even", "divide")
Minus(x)       == decFloatMinus(x)

One == Finite(FALSE, 1, 0)
Two == Finite(FALSE, 2, 0)

\* decNumberCompare and decNumberIsNegative: the sign of x - y, not negative
\* when there is a NaN.
Below(x, y) == decFloatCompare(x, y).neg

\* "floor" rounds down, that is towards zero.
decNumberFloor(x) == decToIntegral(x, "down")

\* x - k * y, where k is x / y rounded to DECPMAX digits and cut to an integer.
decNumberMod(x, y) == Subtract(x, Multiply(decNumberFloor(Divide(x, y)), y))

-----------------------------------------------------------------------------
(* Hyperbolic functions                                                     *)

decNumberSinh(x) == Divide(Subtract(Exp(x), Exp(Minus(x))), Two)
decNumberCosh(x) == Divide(Add(Exp(x), Exp(Minus(x))), Two)
TanhOf(ex, emx) == Divide(Subtract(ex, emx), Add(ex, emx))
decNumberTanh(x) ==
  TanhOf(Exp(x), Exp(Minus(x)))

-----------------------------------------------------------------------------
(* Sine and cosine                                                          *)

\* The sum of n terms after the first: each is the one before it times
\* -x * x / (cnt * (cnt + 1)).
NextTerm(s, x, next) == Divide(Divide(Multiply(Multiply(Minus(s.term), x), x), s.cnt), next)
AddTerm(s, next, term) == [term |-> term, cnt |-> Add(next, One), sum |-> Add(s.sum, term)]
SeriesTo(s, x, next) == AddTerm(s, next, NextTerm(s, x, next))
SeriesStep(s, x) == SeriesTo(s, x, Add(s.cnt, One))
Series(x, first, cnt, n) ==
  LET step[i \in 0..n] ==
        IF i = 0 THEN [term |-> first, cnt |-> cnt, sum |-> first]
        ELSE SeriesStep(step[i - 1], x)
  IN step[n].sum

FullTurn    == Multiply(PI, Two)
QuarterTurn == Divide(PI, Two)
Turn(y)     == decNumberMod(IF y.neg THEN Minus(y) ELSE y, FullTurn)

\* The argument in the first half and the first quadrant, and whether the result
\* is negated.
SinHalf(turn) ==
  IF Below(turn, PI) THEN [x |-> turn, lower |-> FALSE] ELSE [x |-> Subtract(turn, PI), lower |-> TRUE]
SinQuarter(half, neg) ==
  [x |-> IF Below(half.x, QuarterTurn) THEN half.x ELSE Subtract(PI, half.x), negate |-> neg # half.lower]
SinReduced(y) == SinQuarter(SinHalf(Turn(y)), y.neg)

\* Mutant of CosHalf: the lower half is not mirrored.
CosHalfShifted(turn) == IF Below(turn, PI) THEN turn ELSE Subtract(turn, PI)
CosHalf(turn) == IF Below(turn, PI) THEN turn ELSE Subtract(FullTurn, turn)
CosQuarter(half) ==
  IF Below(half, QuarterTurn) THEN [x |-> half, negate |-> FALSE] ELSE [x |-> Subtract(PI, half), negate |-> TRUE]
CosReduced(y) == CosQuarter(CosHalf(Turn(y)))

Negated(x, negate) == IF negate THEN Minus(x) ELSE x

SinOfReduced(r) == Negated(Series(r.x, r.x, Two, DECPMAX + 3), r.negate)
CosOfReduced(r) == Negated(Series(r.x, One, One, DECPMAX + 3), r.negate)
decNumberSin(y) == SinOfReduced(SinReduced(y))
decNumberCos(y) == CosOfReduced(CosReduced(y))

-----------------------------------------------------------------------------
(* Arc tangent                                                              *)

\* The tangent of half the angle.
Halved(x) == Divide(Subtract(SquareRoot(Add(Multiply(x, x), One)), One), x)

\* x - x^3/3 + x^5/5 - ..., with n terms after the first.
AddQuotient(s, f, g) == [f |-> f, g |-> g, sum |-> Add(s.sum, Divide(f, g))]
AtanStep(s, mx2) == AddQuotient(s, Multiply(s.f, mx2), Add(s.g, Two))
AtanSum(x, mx2, n) ==
  LET step[i \in 0..n] ==
        IF i = 0 THEN [f |-> x, g |-> One, sum |-> x]
        ELSE AtanStep(step[i - 1], mx2)
  IN step[n].sum
AtanSeries(x, n) == AtanSum(x, Minus(Multiply(x, x)), n)

Doubled(x) == Add(x, x)

decNumberAtan(x) ==
  IF IsZero(x) THEN x ELSE Doubled(Doubled(AtanSeries(Halved(Halved(x)), 2 * DECPMAX)))

-----------------------------------------------------------------------------
(* calc_float.c                                                             *)

Angles == {"deg", "rad", "grad"}

\* The constants are read from texts like "180.0", with a digit behind the point.
WithPoint(n) == decFinalize(FALSE, n * 10, -1, "half_even")
OneString == WithPoint(1)

bin_fop_add(a, b) == Add(a, b)
bin_fop_sub(a, b) == Subtract(a, b)
bin_fop_mul(a, b) == Multiply(a, b)
bin_fop_div(a, b) == Divide(a, b)
bin_fop_mod(a, b) == decDivide(a, b, "half_even", "remainder")
bin_fop_pow(a, b) == Power(a, b)

deg_to_rad(x)  == Divide(Multiply(x, PI), WithPoint(180))
rad_to_deg(x)  == Divide(Multiply(x, WithPoint(180)), PI)
grad_to_rad(x) == Divide(Multiply(x, PI), WithPoint(200))
rad_to_grad(x) == Divide(Multiply(x, WithPoint(200)), PI)
mod_360(x)     == bin_fop_mod(x, WithPoint(360))
mod_400(x)     == bin_fop_mod(x, WithPoint(400))

\* A comparison with a NaN counts as greater, and not as less.
gt_(a, b) == LET cmp == decFloatCompare(a, b) IN ~(decFloatIsNegative(cmp) \/ IsZero(cmp))
lt_(a, b) == decFloatIsNegative(decFloatCompare(a, b))

abs_round_to_zero(x, threshold) == IF lt_(decFloatAbs(x), threshold) THEN Zero ELSE x

clamp_to_one(x) ==
  IF gt_(x, OneString) THEN OneString
  ELSE IF lt_(x, Minus(OneString)) THEN Minus(OneString) ELSE x

small_arg(a) == lt_(IF decFloatIsNegative(a) THEN Minus(a) ELSE a, SmallArg)

-----------------------------------------------------------------------------
(* Unary operations                                                         *)

fop_plusminus(x)   == Minus(x)
fop_square(x)      == Multiply(x, x)
fop_square_root(x) == SquareRoot(x)
fop_one_over_x(x)  == Divide(OneString, x)
fop_log(x)         == Log10(x)
fop_inv_log(x)     == bin_fop_pow(WithPoint(10), x)
fop_ln(x)          == Ln(x)
fop_inv_ln(x)      == Exp(x)

\* Whole turns are taken off exactly, before the conversion.
Radians(x, angle) ==
  CASE angle = "deg"  -> deg_to_rad(mod_360(x))
    [] angle = "grad" -> grad_to_rad(mod_400(x))
    [] angle = "rad"  -> x

SinRounded(arg, res, sct) ==
  IF ~small_arg(arg) /\ sct THEN abs_round_to_zero(res, ZeroThreshold) ELSE res
CosRounded(res, sct) == IF sct THEN abs_round_to_zero(res, ZeroThreshold) ELSE res

SinOfRadians(arg, sct) ==
  IF IsNaN(arg) THEN NaN ELSE SinRounded(arg, clamp_to_one(decNumberSin(arg)), sct)
CosOfRadians(arg, sct) ==
  IF IsNaN(arg) THEN NaN ELSE CosRounded(clamp_to_one(decNumberCos(arg)), sct)

fop_sin(x, angle, sct) == IF Special(x) THEN NaN ELSE SinOfRadians(Radians(x, angle), sct)
fop_cos(x, angle, sct) == IF Special(x) THEN NaN ELSE CosOfRadians(Radians(x, angle), sct)

fop_tan(x, angle, sct) ==
  IF Special(x) THEN NaN ELSE bin_fop_div(fop_sin(x, angle, sct), fop_cos(x, angle, sct))

FromRadians(x, angle) ==
  CASE angle = "deg" -> rad_to_deg(x) [] angle = "grad" -> rad_to_grad(x) [] angle = "rad" -> x

Principal(x) ==
  IF IsInf(x) THEN Negated(Divide(PI, WithPoint(2)), x.neg)
  ELSE IF small_arg(x) THEN x ELSE decNumberAtan(x)
PiAdded(principal, add_pi) == IF add_pi THEN bin_fop_add(principal, PI) ELSE principal
inv_tan_helper(x, add_pi, angle) == FromRadians(PiAdded(Principal(x), add_pi), angle)

\* The cosine of an arc sine, or the other way round.
Complement(x) == fop_square_root(bin_fop_sub(OneString, fop_square(x)))

fop_inv_tan(x, angle) == inv_tan_helper(x, FALSE, angle)
fop_inv_sin(x, angle) == inv_tan_helper(bin_fop_div(x, Complement(x)), FALSE, angle)

fop_inv_cos(x, angle) ==
  inv_tan_helper(bin_fop_div(Complement(x), x), decFloatIsNegative(x), angle)

fop_sinh(x) == decNumberSinh(x)
fop_cosh(x) == decNumberCosh(x)
fop_tanh(x) == decNumberTanh(x)

\* What the logarithm is taken of.
InvSinhArg(x) == bin_fop_add(fop_square_root(bin_fop_add(fop_square(x), OneString)), x)
InvCoshArg(x) == bin_fop_add(fop_square_root(bin_fop_sub(fop_square(x), OneString)), x)

InvTanhArg(x) == bin_fop_div(bin_fop_add(OneString, x), bin_fop_sub(OneString, x))
fop_inv_sinh(x) == fop_ln(InvSinhArg(x))
fop_inv_cosh(x) == fop_ln(InvCoshArg(x))
fop_inv_tanh(x) == bin_fop_mul(Finite(FALSE, 5, -1), fop_ln(InvTanhArg(x)))

\* The number is rounded to an integer n, and multiplied from n down to 2; one
\* that is out of range is left as it is, with a warning.
fop_fact(x) ==
  LET n == decToInt32(x, "half_up", FALSE)
      factor(k) == IF k = 1 THEN decFloatFromInt32(n) ELSE WithPoint(n - k + 1)
      product[k \in 0..MAX_FACTORIAL] ==
        IF k = 0 THEN OneString ELSE bin_fop_mul(product[k - 1], factor(k))
  IN IF IsNaN(x) \/ decFloatIsNegative(x) THEN [warn |-> "fact_pos", res |-> x]
     ELSE IF gt_(x, decFloatFromInt32(MAX_FACTORIAL)) THEN [warn |-> "fact_range", res |-> x]
     ELSE [warn |-> "none", res |-> product[larger(n - 1, 0)]]

Odd(b) == IsInt(b) /\ ~IsZero(bin_fop_mod(b, WithPoint(2)))

\* A negative number has a root if its index is an odd integer, written without
\* an exponent.
RootPower(a, exponent, odd) ==
  IF decFloatIsNegative(a) /\ odd THEN Minus(Power(Minus(a), exponent)) ELSE Power(a, exponent)
bin_fop_root(a, b) == RootPower(a, Divide(OneString, b), Odd(b))
=============================================================================
