---------------------------- MODULE MCOperations ----------------------------
(***************************************************************************)
(* What the calculator computes in one call, each called once on each of   *)
(* many operands: the operations on integers and on floating point         *)
(* numbers, the change of mode and decNumber.c's arrays of            *)
(* units, in instances small enough that all roundings, carries and limits *)
(* occur.  The product of two coefficients, which takes several steps,     *)
(* runs beside them.  part tells which of them a behaviour is about; the   *)
(* others do nothing then.                                                 *)
(*                                                                         *)
(* The operations of FloatOps have three digits here.  Their results are   *)
(* coarse then, so that they are compared with a reference in integers of  *)
(* 1/10000 within a tolerance that no wrong quadrant, sign or branch is    *)
(* in.  What decNumber.c offers is rounded to three digits from a value    *)
(* with two more (square root, exponential) or named by its argument only  *)
(* (logarithms and powers).                                                *)
(***************************************************************************)
EXTENDS DecMultiply, FloatOps

VARIABLES part, call, result

None == [kind |-> "none"]

-----------------------------------------------------------------------------
(* The instances                                                            *)

Integer == INSTANCE CalcIntegerCheck WITH WordBits <- 6, Widths <- {2, 3, 6}

Best == INSTANCE BestInteger WITH WordBits <- 14, SIGNED_EXP <- 3, UNSIGNED_EXP <- 4,
  Digits <- {0, 1, 2, 3, 6, 8, 9}, MaxLength <- 4, MaxExp <- 5

\* Multipliers of a shift, of a unit, and of a trial quotient.
Array == INSTANCE DecUnits WITH
  UnitValues <- {0, 1, 10, 499, 500, 999}, MostUnits <- 3,
  Multipliers <- {-999, -100, -7, -1, 1, 10, 999}

-----------------------------------------------------------------------------
(* Floating point: numbers in units of 1/10000                              *)

Ten4(x) ==
  LET size == IF x.coeff = 0 THEN 0 ELSE IF x.exp >= -4 THEN x.coeff * 10^(x.exp + 4) ELSE x.coeff \div 10^(-4 - x.exp)
  IN IF x.neg THEN -size ELSE size
Abs(n) == IF n < 0 THEN -n ELSE n
Small(x) == ~Special(x) /\ x.exp + Length(x.coeff) <= 3

-----------------------------------------------------------------------------
(* The parameters of FloatOps                                              *)

MCPI == Finite(FALSE, 314, -2)
MCZeroThreshold == Finite(FALSE, 1, -2)
MCSmallArg == Finite(FALSE, 3, -1)

\* The integer square root, bit by bit.
Root2(n) ==
  LET bits[k \in 0..16] ==
        IF k = 16 THEN 0
        ELSE LET up == bits[k + 1] + 2^k IN IF up < 46340 /\ up * up <= n THEN up ELSE bits[k + 1]
  IN bits[0]

\* Three or four digits of the root, made odd when there is a rest.
MCSquareRoot(x) ==
  LET shift == IF (x.exp - 4) % 2 = 0 THEN 4 ELSE 5
      n == x.coeff * 10^shift
      r == Root2(n)
  IN IF Special(x) THEN (IF IsNaN(x) \/ x.neg THEN NaN ELSE x)
     ELSE IF x.coeff = 0 THEN Finite(x.neg, 0, x.exp \div 2)
     ELSE IF x.neg THEN NaN
     ELSE decFinalize(FALSE, IF r * r = n THEN r ELSE r * 10 + 1,
                      (x.exp - shift) \div 2 - (IF r * r = n THEN 0 ELSE 1), "half_even")

\* e^(2^k), with four digits.
PowersOfE == <<<<2718, -3>>, <<7389, -3>>, <<5460, -2>>, <<2981, 0>>, <<8886, 3>>>>
Bit(n, k) == (n \div 2^k) % 2
Shortened(c, e) == IF c >= 10000000 THEN <<c \div 10000, e + 4>>
                   ELSE IF c >= 1000000 THEN <<c \div 1000, e + 3>> ELSE <<c, e>>

\* e^(r/10000), in units of 1/10000, for r below 10000.
Fraction(r) ==
  LET t2 == (r * r) \div 20000
      t3 == (t2 * r) \div 30000
      t4 == (t3 * r) \div 40000
      t5 == (t4 * r) \div 50000
  IN 10000 + r + t2 + t3 + t4 + t5

Product(c, e, d, f) == Shortened(c * d, e + f)
ExpOf(n) ==
  LET i == n \div 10000
      p[k \in 0..5] ==
        IF k = 0 THEN <<Fraction(n % 10000) \div 10, -3>>
        ELSE IF Bit(i, k - 1) = 0 THEN p[k - 1]
        ELSE Product(p[k - 1][1], p[k - 1][2], PowersOfE[k][1], PowersOfE[k][2])
  IN decFinalize(FALSE, p[5][1], p[5][2], "half_even")

MCExp(x) ==
  IF IsNaN(x) THEN NaN
  ELSE IF IsInf(x) THEN (IF x.neg THEN Zero ELSE x)
  ELSE IF IsZero(x) THEN One
  ELSE IF x.exp + Length(x.coeff) > 2 \/ Ten4(x) > 310000
  THEN (IF x.neg THEN Finite(FALSE, 0, DECQTINY) ELSE Infinity(FALSE))
  ELSE IF Ten4(x) < -310000 THEN Finite(FALSE, 0, DECQTINY)
  ELSE IF x.neg THEN Divide(One, ExpOf(-Ten4(x))) ELSE ExpOf(Ten4(x))

MCLog10(x) == [kind |-> "log10", of |-> x]

\* The logarithm of the first digit and the power of ten, in units of 1/1000.
DigitLn == <<0, 693, 1099, 1386, 1609, 1792, 1946, 2079, 2197>>
MCLn(x) ==
  IF IsNaN(x) \/ (decFloatIsNegative(x) /\ ~IsZero(x)) THEN NaN
  ELSE IF IsInf(x) THEN x
  ELSE IF x.coeff = 0 THEN Infinity(TRUE)
  ELSE LET power == Length(x.coeff) - 1
           ln == 2303 * (x.exp + power) + DigitLn[x.coeff \div 10^power]
       IN decFinalize(ln < 0, Abs(ln), -3, "half_even")

\* A negative number has a power only when the exponent is an integer.
MCPower(x, y) ==
  IF IsNaN(x) \/ IsNaN(y) THEN NaN
  ELSE IF decFloatIsNegative(x) /\ (IsInf(y) \/ decToIntegral(y, "down").coeff # y.coeff) THEN NaN
  ELSE [kind |-> "power", neg |-> FALSE, coeff |-> 1, exp |-> 0, of |-> x, to |-> y]

-----------------------------------------------------------------------------
(* The numbers the operations are called on                               *)

Finites(coefficients, exponents) ==
  [kind : {"finite"}, neg : BOOLEAN, coeff : coefficients, exp : exponents]
Specials == {Infinity(FALSE), Infinity(TRUE), NaN}

\* Angles around the quadrants, in several turns, and numbers too large for one.
TrigArguments ==
  Finites({0, 1, 5, 30, 45, 89, 90, 91, 135, 179, 180, 181, 225, 269, 271, 300, 359, 360, 400, 450, 720, 999}, {0})
  \cup Finites({1, 17, 100, 156, 157, 158, 313, 314, 315, 471, 472, 500, 627, 628, 629}, {-2})
  \cup Finites({1, 75, 999}, {-8, -4, -1, 2, 5, DECQMAX})
  \cup Specials
ArcArguments ==
  Finites({0, 1, 10, 25, 50, 71, 87, 99, 100, 101, 200, 999}, {-8, -4, -2, -1, 0, 4}) \cup Specials
OtherArguments ==
  Finites({0, 1, 2, 4, 5, 9, 10, 11, 12, 15, 25, 100, 114, 115, 116, 999}, {-4, -2, -1, 0, 2, DECQMAX}) \cup Specials
Indices ==
  Finites({0, 1, 2, 3, 4, 30, 35, 999}, {-1, 0, 1}) \cup Specials

-----------------------------------------------------------------------------
(* One call of one operation                                                *)

Trig    == {"sin", "cos", "tan"}
Inverse == {"inv_sin", "inv_cos", "inv_tan"}
Hyper   == {"sinh", "cosh", "tanh"}
InvHyper == {"inv_sinh", "inv_cosh", "inv_tanh"}

FloatCalls ==
  [op : Trig, x : TrigArguments, angle : Angles, sct : BOOLEAN]
  \cup [op : Inverse, x : ArcArguments, angle : Angles]
  \cup [op : Hyper \cup InvHyper \cup {"fact"}, x : OtherArguments]
  \cup [op : {"root"}, x : OtherArguments, b : Indices]

Sine    == call.op = "sin" /\ result' = fop_sin(call.x, call.angle, call.sct)
Cosine  == call.op = "cos" /\ result' = fop_cos(call.x, call.angle, call.sct)
Tangent == call.op = "tan" /\ result' = fop_tan(call.x, call.angle, call.sct)
InvSine    == call.op = "inv_sin" /\ result' = fop_inv_sin(call.x, call.angle)
InvCosine  == call.op = "inv_cos" /\ result' = fop_inv_cos(call.x, call.angle)
InvTangent == call.op = "inv_tan" /\ result' = fop_inv_tan(call.x, call.angle)
Sinh == call.op = "sinh" /\ result' = fop_sinh(call.x)
Cosh == call.op = "cosh" /\ result' = fop_cosh(call.x)
Tanh == call.op = "tanh" /\ result' = fop_tanh(call.x)
InvSinh == call.op = "inv_sinh" /\ result' = fop_inv_sinh(call.x)
InvCosh == call.op = "inv_cosh" /\ result' = fop_inv_cosh(call.x)
InvTanh == call.op = "inv_tanh" /\ result' = fop_inv_tanh(call.x)
Fact == call.op = "fact" /\ result' = fop_fact(call.x)
Root == call.op = "root" /\ result' = bin_fop_root(call.x, call.b)

Float ==
  /\ result = None
  /\ \/ Sine \/ Cosine \/ Tangent
     \/ InvSine \/ InvCosine \/ InvTangent
     \/ Sinh \/ Cosh \/ Tanh
     \/ InvSinh \/ InvCosh \/ InvTanh
     \/ Fact \/ Root
  /\ UNCHANGED call

NoProduct ==
  /\ bufl = [k \in 0..MULOPLEN - 1 |-> 0] /\ bufr = bufl
  /\ ui = 0 /\ pl = 0 /\ accl = [k \in Columns |-> 0] /\ acc = accl

OperationsInit ==
  /\ part \in {"integer", "best", "array", "float", "product"}
  /\ IF part = "float" THEN call \in FloatCalls ELSE call = None
  /\ result = None
  /\ IF part = "product" THEN Init ELSE NoProduct

OneCall ==
  /\ \/ part = "integer" /\ Integer!Next
     \/ part = "best"    /\ Best!Next
     \/ part = "array"   /\ Array!Next
     \/ part = "float"   /\ Float
  /\ UNCHANGED <<part, vars>>

ProductStep == part = "product" /\ Next /\ UNCHANGED <<part, call, result>>

OperationsNext == OneCall \/ ProductStep

OperationsSpec == OperationsInit /\ [][OperationsNext]_<<part, call, result, vars>>

\* The calls of floating point operations only.
FloatSpec == OperationsInit /\ part = "float" /\ [][OperationsNext]_<<part, call, result, vars>>

-----------------------------------------------------------------------------
(* Integer operations                                                       *)

\* Results are right modulo the width, with a warning exactly on overflow; quotients
\* truncate, remainders follow the dividend, zero divisors warn; Euclid's loop gives a
\* greatest common divisor, up to its sign; shifts multiply and divide by powers of two,
\* rotations move every bit; early returns, too, leave a result masked to the width.  A
\* change of mode cuts the number shown to an integer, or to the nearest end of the word
\* (calc_integer.c, display_get_best_integer).
IntegersExact ==
  /\ part = "integer" => /\ Integer!ArithmeticExact /\ Integer!DivisionLaw
                         /\ Integer!GcdIsGreatest /\ Integer!ShiftsExact /\ Integer!ResultMasked
  /\ part = "best" => Best!BestIsTruncation

\* Arrays of units stand for integers, and what is done to them is exact: sums with their
\* borrow paid back, a carry estimated by multiplying, quotients by powers of ten,
\* comparisons, products by units, shifts that lose or double no digit across units, a
\* coefficient cut at any digit with its residue, lengths without zero units, chunks of
\* nine digits (decNumber.c); and the product of two coefficients (decFiniteMultiply).
UnitsExact ==
  /\ ProductIsExact
  /\ part = "array" =>
       /\ Array!SumExact /\ Array!CarryExact /\ Array!QuotientExact /\ Array!CompareExact
       /\ Array!ProductExact /\ Array!ShiftExact /\ Array!FitExact /\ Array!DigitsExact
       /\ Array!ChunksExact

-----------------------------------------------------------------------------
(* Floating point: references and properties                                *)


Called(ops) == part = "float" /\ result # None /\ call.op \in ops

\* The sine of a first quadrant's angle.
QuarterSine(r) ==
  LET r2 == (r * r) \div 10000
      t3 == (r * r2) \div 60000
      t5 == (t3 * r2) \div 200000
      t7 == (t5 * r2) \div 420000
      t9 == (t7 * r2) \div 720000
  IN r - t3 + t5 - t7 + t9

\* The sine of any angle that is not negative, of which a full turn is 62832.
SineOf(r) ==
  LET turn == r % 62832
      half == turn % 31416
      size == QuarterSine(IF half > 15708 THEN 31416 - half ELSE half)
  IN IF turn >= 31416 THEN -size ELSE size

Quarter(angle) == CASE angle = "deg" -> 900000 [] angle = "grad" -> 1000000 [] angle = "rad" -> 15708

\* An angle in radians; whole turns of degrees are taken off first.
AngleOf(n, angle) ==
  IF angle = "rad" THEN n
  ELSE (((n % (4 * Quarter(angle))) \div 10) * 1571) \div (Quarter(angle) \div 100)

ReferenceSine(x, angle) ==
  LET sine == SineOf(AngleOf(Abs(Ten4(x)), angle)) IN IF x.neg THEN -sine ELSE sine
ReferenceCosine(x, angle) == SineOf(AngleOf(Abs(Ten4(x)), angle) + 15708)
Near(x, n, tolerance) == ~Special(x) /\ Abs(Ten4(x) - n) <= tolerance

-----------------------------------------------------------------------------
\* Sine and cosine are in the right quadrant with the right sign for every angle
\* of degrees and grads, in any turn and direction; in radians the error grows
\* with the argument, as whole turns are then taken off with a rounded pi
\* (fop_sin, fop_cos, decNumberSin, decNumberCos).
SineNear ==
  Called({"sin", "cos"}) /\ Small(call.x) =>
    Near(result,
         IF call.op = "sin" THEN ReferenceSine(call.x, call.angle) ELSE ReferenceCosine(call.x, call.angle),
         300 + (IF call.angle = "rad" THEN Abs(Ten4(call.x)) \div 1000 ELSE 0))

\* However large the argument, and whatever the series does with it, a sine or
\* cosine is at most one; of degrees and grads whose turns cannot be taken off
\* any more it is a NaN (fop_sin: "in case result is fractionally >1").
SineBounded ==
  Called({"sin", "cos"}) =>
    \/ IsNaN(result) /\ (Special(call.x) \/ call.angle # "rad")
    \/ ~Special(result) /\ ~gt_(result, One) /\ ~lt_(result, Minus(One))

\* A sine of nearly a half turn may be called zero, but that of a number that is
\* merely small may not: it is as large as its argument (fop_sin, small_arg).
SmallSineKept ==
  Called({"sin"}) /\ ~Special(call.x) /\ call.x.coeff # 0 =>
    LET arg == Radians(call.x, call.angle)
    IN ~IsNaN(arg) /\ ~IsZero(arg) /\ small_arg(arg) /\ ~decFloatIsSubnormal(arg) =>
         ~IsZero(result) /\ result.neg = call.x.neg

\* An arc sine is at most a quarter turn either way, an arc cosine is between
\* none and a half turn, and they make a quarter turn together; at the ends the
\* quotient they are formed from is infinite.  Beyond one there is no result.
\* (Not for minus zero, whose arc cosine is a quarter turn the other way, or if the
\* square of the quotient overflows.)
ArcInRange ==
  Called({"inv_sin", "inv_cos"}) /\ ~Special(call.x) =>
    LET q     == Quarter(call.angle)
        slack == q \div 50
        other == IF call.op = "inv_sin" THEN fop_inv_cos(call.x, call.angle)
                                        ELSE fop_inv_sin(call.x, call.angle)
        low   == IF call.op = "inv_sin" THEN -q ELSE 0
        high  == IF call.op = "inv_sin" THEN q ELSE 2 * q
    IN IF gt_(decFloatAbs(call.x), One) THEN IsNaN(result)
       ELSE (IF IsZero(call.x) THEN ~call.x.neg ELSE ~IsInf(fop_square(fop_one_over_x(call.x)))) =>
              /\ ~Special(result)
              /\ Ten4(result) \in low - slack..high + slack
              /\ Near(other, q - Ten4(result), q \div 8)

\* The tangent of an arc tangent is the number it was taken of, also behind the
\* two halvings and for infinity (inv_tan_helper, decNumberAtan).
ArcTangentInverse ==
  Called({"inv_tan"}) /\ ~IsNaN(call.x) /\ (IsInf(call.x) \/ ~IsInf(fop_square(call.x))) =>
    /\ Near(result, ((IF call.x.neg THEN -1 ELSE 1) * Quarter(call.angle)) \div 2, Quarter(call.angle) \div 2 + Quarter(call.angle) \div 50)
    /\ ~Special(call.x) /\ Small(call.x) /\ ~IsZero(call.x) =>
         LET s == fop_sin(result, call.angle, FALSE)
             c == fop_cos(result, call.angle, FALSE)
         IN Abs(Ten4(s) * 100 - (Ten4(c) \div 10) * (Ten4(call.x) \div 10))
              <= 60000 + 600 * (Abs(Ten4(call.x)) \div 100)

\* A factorial that is accepted never overflows, is the product, and the first
\* one that is refused would overflow; a number that is not an integer is rounded
\* (fop_fact; README: "beware if x is not an integer value it is rounded").
FactorialFits ==
  Called({"fact"}) =>
    LET n == decToInt32(call.x, "half_up", FALSE)
        fact[k \in 0..12] == IF k = 0 THEN 1 ELSE k * fact[k - 1]
        exact == fact[smaller(n, 12)]
    IN /\ result.warn # "none" => result.res = call.x
       /\ result.warn = "none" =>
            /\ ~Special(result.res) /\ n <= MAX_FACTORIAL
            /\ n <= 12 => LET c == IF result.res.exp >= 0 THEN result.res.coeff * 10^result.res.exp
                                   ELSE result.res.coeff \div 10^(-result.res.exp)
                          IN Abs(c - exact) <= exact \div 50
            /\ n = MAX_FACTORIAL => IsInf(Multiply(result.res, decFloatFromInt32(n + 1)))
       /\ result.warn = "fact_range" /\ Small(call.x) => Abs(Ten4(call.x)) > MAX_FACTORIAL * 10000

\* The root of a negative number is the negative root of its magnitude when the
\* index is an odd integer, and there is none when it is even or a fraction; that
\* of a positive number is not affected (bin_fop_root).
RootOfNegative ==
  Called({"root"}) /\ decFloatIsNegative(call.x) /\ ~Special(call.b) =>
    /\ IsInt(call.b) /\ call.b.coeff % 2 = 1 => result = Minus(bin_fop_root(Minus(call.x), call.b))
    /\ ~IsInt(Divide(OneString, call.b)) /\ call.b.coeff % 2 = 0 => IsNaN(result)

\* Sinh is odd and cosh is even, up to the largest numbers, and tanh is odd and
\* between minus one and one while the exponential is a number (decNumberSinh,
\* decNumberCosh, decNumberTanh).
HyperbolicSymmetric ==
  Called(Hyper) /\ ~IsNaN(call.x) =>
    /\ call.op = "sinh" => fop_sinh(Minus(call.x)) = Minus(result)
    /\ call.op = "cosh" => fop_cosh(Minus(call.x)) = result /\ ~lt_(result, One)
    /\ call.op = "tanh" /\ ~IsInf(Exp(decFloatAbs(call.x))) =>
         /\ fop_tanh(Minus(call.x)) = Minus(result)
         /\ ~gt_(result, One) /\ ~lt_(result, Minus(One))

\* The inverse functions are numbers where they are defined and have the right
\* sign there: the arc cosh from one on (the rounded sum may leave the logarithm
\* of zero below), the arc tanh between minus one and one,
\* where it is infinite at the ends (fop_inv_sinh, fop_inv_cosh, fop_inv_tanh).
InverseDomain ==
  Called(InvHyper) /\ ~IsNaN(call.x) =>
    LET size == decFloatAbs(call.x)
    IN /\ call.op = "inv_sinh" /\ ~call.x.neg => ~IsNaN(result) /\ ~lt_(result, Zero)
       /\ call.op = "inv_cosh" => IF lt_(call.x, One) THEN IsNaN(result) \/ (call.x.neg /\ IsInf(result))
                                  ELSE ~IsNaN(result) /\ ~lt_(result, Zero)
       /\ call.op = "inv_tanh" =>
            /\ lt_(size, One) => ~Special(result) /\ (IsZero(result) \/ result.neg = call.x.neg)
            /\ IsZero(Subtract(size, One)) => IsInf(result) /\ result.neg = call.x.neg
            /\ gt_(size, One) => IsNaN(result)

\* All of them: the functions of a calculator in floating mode.
FloatsRight ==
  /\ SineNear /\ SineBounded /\ SmallSineKept
  /\ ArcInRange /\ ArcTangentInverse
  /\ FactorialFits /\ RootOfNegative
  /\ HyperbolicSymmetric /\ InverseDomain

-----------------------------------------------------------------------------
\* decNumberTanh: "tanh x = sinh x / cosh x", which is between -1 and 1.
TanhIsNumber == Called({"tanh"}) /\ ~Special(call.x) => ~Special(result)
=============================================================================
