------------------------------ MODULE DecNumber ------------------------------
(***************************************************************************)
(* The arithmetic of decNumber.c, which the functions of decNumberMath.c   *)
(* and the square root are made of: numbers of any length, a context that  *)
(* says how many digits and which exponents a result may have, and a       *)
(* residue that carries what was cut off into one rounding at the end.     *)
(*                                                                         *)
(* Numbers are the records of DecFloat; a context is a record [digits,     *)
(* emax, emin, round, clamp].  Status flags are left out, except where a   *)
(* result depends on one.  Units have a module of their own (DecUnits).    *)
(***************************************************************************)
EXTENDS DecArith

CONSTANTS
  PlaceDigits,      \* digits of a unit of the long division (DECDPUN, 3)
  IntHalf,          \* 2^31
  IntDigits,        \* digits of IntHalf (10)
  IntLeast,         \* greatest magnitude of a negative integer (1999999997)
  IntMost           \* greatest positive integer (999999999)

Digits(x) == Length(x.coeff)
Number(neg, coeff, exp) == Finite(neg, coeff, exp)

Etiny(set) == set.emin - (set.digits - 1)
Etop(set)  == set.emax - set.digits + 1       \* greatest exponent of a full coefficient

-----------------------------------------------------------------------------
(* Residues: 0 is exact, 5 a half, 1 to 4 less, 6 to 9 more, -1 a little    *)
(* less than nothing.                                                       *)

AddedResidue(coeff, drop, residue) ==
  LET first == (coeff \div 10^(drop - 1)) % 10
      below == IF coeff % 10^(drop - 1) # 0 THEN 1 ELSE residue
  IN below + (IF first = 0 THEN 0 ELSE IF first < 5 THEN 3 ELSE IF first = 5 THEN 5 ELSE 7)

\* What an older residue adds: whether there is one.
Older(residue) == IF residue > 1 THEN 1 ELSE residue

\* The last drop digits of x cut off, and what they leave.
WithoutLast(x, drop, older) ==
  IF drop > Digits(x)
  THEN [x |-> Number(x.neg, 0, x.exp + drop),
        residue |-> IF older <= 0 /\ x.coeff # 0 THEN 1 ELSE older]
  ELSE [x |-> Number(x.neg, x.coeff \div 10^drop, x.exp + drop),
        residue |-> AddedResidue(x.coeff, drop, older)]

\* x fitted to digits digits, of which there may be none, or less than none.
decSetCoeff(x, digits, residue) ==
  IF Digits(x) <= digits THEN [x |-> x, residue |-> residue]
  ELSE WithoutLast(x, Digits(x) - digits, Older(residue))

\* Whether the coefficient goes up or down by one.
Bumped(x, round, residue) ==
  LET lsd5 == x.coeff % 5
      away == IF residue > 0 THEN 1 ELSE 0
      back == IF residue < 0 THEN -1 ELSE 0
  IN CASE round = "05up"      -> IF residue < 0 /\ lsd5 # 1 THEN -1
                                 ELSE IF residue > 0 /\ lsd5 = 0 THEN 1 ELSE 0
       [] round = "down"      -> back
       [] round = "half_down" -> IF residue > 5 THEN 1 ELSE 0
       [] round = "half_even" -> IF residue > 5 \/ (residue = 5 /\ x.coeff % 2 = 1) THEN 1 ELSE 0
       [] round = "half_up"   -> IF residue >= 5 THEN 1 ELSE 0
       [] round = "up"        -> away
       [] round = "ceiling"   -> IF x.neg THEN back ELSE away
       [] round = "floor"     -> IF x.neg THEN away ELSE back

decSetMaxValue(neg, set) == Number(neg, 10^set.digits - 1, Etop(set))

decSetOverflow(x, set) ==
  LET limit == IF set.clamp THEN Etop(set) ELSE set.emax
  IN IF x.coeff = 0 THEN Number(x.neg, 0, smaller(x.exp, limit))
     ELSE IF \/ set.round \in {"down", "05up"}
             \/ set.round = "ceiling" /\ x.neg
             \/ set.round = "floor" /\ ~x.neg
     THEN decSetMaxValue(x.neg, set)
     ELSE Infinity(x.neg)

\* All nines, one place lower; at the lower limit the last nine has no place.
BumpedDown(x, n, set) ==
  IF x.coeff # 10^(n - 1) THEN Number(x.neg, x.coeff - 1, x.exp)
  ELSE IF x.exp = Etiny(set) THEN Number(x.neg, 10^(n - 1) - 1, x.exp)
  ELSE Number(x.neg, 10^n - 1, x.exp - 1)

\* All nines become 1000... of the same length, one place higher.
BumpedUp(x, n, set) ==
  IF x.coeff # 10^n - 1 THEN Number(x.neg, x.coeff + 1, x.exp)
  ELSE IF x.exp + 1 + n > set.emax + 1 THEN decSetOverflow(Number(x.neg, 10^(n - 1), x.exp + 1), set)
  ELSE Number(x.neg, 10^(n - 1), x.exp + 1)

BumpedBy(bump, x, n, set) ==
  IF bump > 0 THEN BumpedUp(x, n, set) ELSE IF bump < 0 THEN BumpedDown(x, n, set) ELSE x

decApplyRound(x, set, residue) ==
  BumpedBy(IF residue = 0 THEN 0 ELSE Bumped(x, set.round, residue), x, Digits(x), set)

\* A number and its residue, rounded to the digits of the context.
RoundedTo(f, set) == decApplyRound(f.x, set, f.residue)

\* Mutant of InPlace: the exponent that rounding up nines gave is kept.
InPlaceHigher(rounded, exp) == rounded

\* All nines that were rounded up are brought back to the exponent exp.
InPlace(rounded, exp) ==
  IF rounded.exp > exp THEN Number(rounded.neg, rounded.coeff * 10, rounded.exp - 1) ELSE rounded

\* x cut to the digits of the context, and rounded.
CutTo(x, set, residue) == RoundedTo(decSetCoeff(x, set.digits, residue), set)

\* The context of a number that keeps digits digits, adjust less than it has.
ShortSet(set, digits, adjust) == [set EXCEPT !.digits = digits, !.emin = @ - adjust]

\* A number below the normal ones keeps as many digits as the least exponent
\* leaves it.
decSetSubnormal(x, set, residue) ==
  IF x.coeff = 0 THEN Number(x.neg, 0, larger(x.exp, Etiny(set)))
  ELSE IF Etiny(set) <= x.exp THEN x
  ELSE InPlace(CutTo(x, ShortSet(set, Digits(x) - (Etiny(set) - x.exp), Etiny(set) - x.exp), residue),
               Etiny(set))

\* What is too large overflows, and with clamp a high exponent goes into the
\* coefficient.
Clamped(x, set) ==
  IF Special(x) \/ x.exp <= Etop(set) THEN x
  ELSE IF x.exp > set.emax - Digits(x) + 1 THEN decSetOverflow(x, set)
  ELSE IF ~set.clamp THEN x
  ELSE Number(x.neg, x.coeff * 10^(x.exp - Etop(set)), Etop(set))

\* Whether x, whose least normal exponent is least, is subnormal, or is once it is
\* rounded down.
BelowNormal(x, residue, least) ==
  \/ x.exp < least
  \/ x.exp = least /\ residue < 0 /\ x.coeff = 10^(Digits(x) - 1)

\* x and its residue, and what they are rounded to; a number that is subnormal
\* from the start is rounded at its own place only.
FinishAs(x, residue, rounded, least, set) ==
  IF BelowNormal(x, residue, least)
  THEN decSetSubnormal(IF x.exp < least THEN x ELSE rounded, set, residue)
  ELSE Clamped(rounded, set)

\* decFinalize of decNumber.c, for a number and its residue.
decFinish(f, set) ==
  FinishAs(f.x, f.residue, RoundedTo(f, set), set.emin - Digits(f.x) + 1, set)

Exactly(x) == [x |-> x, residue |-> 0]

\* x fitted to the digits of the context, and finished.
Fitted(x, set, residue) == decFinish(decSetCoeff(x, set.digits, residue), set)

-----------------------------------------------------------------------------
(* Addition                                                                 *)

\* Zeros are appended to bring x down to exponent exp, as far as there is room.
PaddedDown(x, exp, set) ==
  LET n == smaller(x.exp - exp, set.digits - Digits(x))
  IN IF exp >= x.exp THEN x ELSE Number(x.neg, x.coeff * 10^n, x.exp - n)

\* The sum of x and a zero: x as it is, with the lower of the exponents.
AddZero(x, zero, set) ==
  [decSetCoeff(x, set.digits, 0) EXCEPT !.x = PaddedDown(@, zero.exp, set)]

\* Two zeros of different sign are positive, except rounding downwards.
AddZeros(x, y, set) ==
  Exactly(Number(IF x.neg = y.neg THEN x.neg ELSE set.round = "floor", 0, smaller(x.exp, y.exp)))

\* lo lies below all the digits of the result, and is a residue only.
FarApart(hi, lo, set) ==
  LET shift == larger(set.digits - Digits(hi), 0)
  IN [decSetCoeff(hi, set.digits, IF hi.neg = lo.neg THEN 1 ELSE -1)
        EXCEPT !.x = Number(@.neg, @.coeff * 10^shift, @.exp - shift)]

\* The exact sum of two numbers with hi.exp >= lo.exp; zero is positive, except
\* rounding downwards.
ExactSum(hi, lo, set) ==
  LET c == (IF hi.neg THEN -1 ELSE 1) * hi.coeff * 10^(hi.exp - lo.exp)
           + (IF lo.neg THEN -1 ELSE 1) * lo.coeff
  IN Number(IF c = 0 THEN set.round = "floor" ELSE c < 0, IF c < 0 THEN -c ELSE c, lo.exp)

AddNumbers(hi, lo, set) ==
  IF hi.exp # lo.exp /\ Digits(hi) + hi.exp - lo.exp > Digits(lo) + set.digits + 1
  THEN FarApart(hi, lo, set)
  ELSE decSetCoeff(ExactSum(hi, lo, set), set.digits, 0)

\* The sum of two finite numbers and its residue, before it is finished.
SumOf(x, y, set) ==
  IF IsZero(x) /\ IsZero(y) THEN AddZeros(x, y, set)
  ELSE IF IsZero(x) THEN AddZero(y, x, set)
  ELSE IF IsZero(y) THEN AddZero(x, y, set)
  ELSE IF x.exp <= y.exp THEN AddNumbers(y, x, set) ELSE AddNumbers(x, y, set)

AddSigned(x, y, set) ==
  IF Special(x) \/ Special(y) THEN AddSpecial(x, y) ELSE decFinish(SumOf(x, y, set), set)

decAddOp(x, right, set, negate) ==
  AddSigned(x, IF negate /\ ~IsNaN(right) THEN Signed(right, ~right.neg) ELSE right, set)

decNumberMinus(x, set) == decAddOp(Number(FALSE, 0, x.exp), x, set, TRUE)

-----------------------------------------------------------------------------
(* Multiplication and division                                              *)

decMultiplyOp(x, y, set) ==
  IF IsNaN(x) \/ IsNaN(y) THEN decNaNs(x, y)
  ELSE IF InfTimesZero(x, y) THEN decInvalid
  ELSE IF IsInf(x) \/ IsInf(y) THEN Infinity(x.neg # y.neg)
  ELSE Fitted(Number(x.neg # y.neg, x.coeff * y.coeff, x.exp + y.exp), set, 0)

UnitsOf(x) == (Digits(x) + PlaceDigits - 1) \div PlaceDigits

\* The next place of a quotient.
NextPlaces(s, divisor) ==
  LET r == s.rest * 10^PlaceDigits
  IN [q |-> s.q * 10^PlaceDigits + r \div divisor, rest |-> r % divisor]

\* The places of a quotient down to place n.
FormPlaces(dividend, divisor, n) ==
  LET step[k \in 0..n] ==
        IF k = 0 THEN [q |-> dividend \div divisor, rest |-> dividend % divisor]
        ELSE NextPlaces(step[k - 1], divisor)
  IN step[n]

WithExponent(d, exp) == [q |-> d.q, rest |-> d.rest, exp |-> exp]

\* The places of the quotient of two coefficients aligned at their first place,
\* down to place n; place n stands for 10^exp.
QuotientAt(x, y, n) ==
  LET lengthen == UnitsOf(y) - UnitsOf(x)
  IN WithExponent(FormPlaces(x.coeff * 10^(PlaceDigits * larger(lengthen, 0)),
                          y.coeff * 10^(PlaceDigits * larger(-lengthen, 0)), n),
                  x.exp - y.exp - PlaceDigits * (lengthen + n))

\* There are more digits than the result has, or there is no rest and no zero to
\* be put behind.
DividedEnough(d, x, y, set) ==
  \/ Digits([coeff |-> d.q]) > set.digits
  \/ d.rest = 0 /\ d.exp <= x.exp - y.exp

\* Zeros of the last place go, while the exponent is below the one of an exact
\* quotient.
WithoutSpurious(d, x, y) ==
  LET unit  == d.q % 10^PlaceDigits
      drops == {k \in 0..PlaceDigits : unit % 10^k = 0 /\ k <= larger(x.exp - y.exp - d.exp, 0)}
      drop  == IF unit = 0 THEN 0 ELSE CHOOSE k \in drops : \A j \in drops : j <= k
  IN [d EXCEPT !.q = @ \div 10^drop, !.exp = @ + drop]

\* The quotient as far as it is formed, and what its rest leaves.
QuotientOf(x, y, set) ==
  LET Stops(n) == DividedEnough(QuotientAt(x, y, n), x, y, set)
  IN QuotientAt(x, y, CHOOSE n \in 0..2 * set.digits + 4 : Stops(n) /\ \A k \in 0..n - 1 : ~Stops(k))

FitQuotient(d, x, y, set) ==
  decSetCoeff(Number(x.neg # y.neg, d.q, d.exp), set.digits, IF d.rest = 0 THEN 0 ELSE 1)

FromPlaces(d, x, y, set) == FitQuotient(IF d.rest = 0 THEN WithoutSpurious(d, x, y) ELSE d, x, y, set)

\* A quotient that is a number, and its residue, before it is finished.
QuotientOrZero(x, y, neg, set) ==
  IF IsInf(y) THEN Exactly(Number(neg, 0, Etiny(set)))
  ELSE IF IsZero(x) THEN Exactly(Number(neg, 0, x.exp - y.exp))
  ELSE FromPlaces(QuotientOf(x, y, set), x, y, set)

\* decDivideOp for DIVIDE.
decDivideOp(x, y, set) ==
  IF IsNaN(x) \/ IsNaN(y) THEN decNaNs(x, y)
  ELSE IF IsInf(x) THEN (IF IsInf(y) THEN decInvalid ELSE Infinity(x.neg # y.neg))
  ELSE IF ~IsInf(y) /\ IsZero(y) THEN (IF IsZero(x) THEN decInvalid ELSE Infinity(x.neg # y.neg))
  ELSE decFinish(QuotientOrZero(x, y, x.neg # y.neg, set), set)

-----------------------------------------------------------------------------
(* Comparison, and exponents                                                *)

\* The order of two numbers, with their signs.
SignOf(x) == IF IsZero(x) THEN 0 ELSE IF x.neg THEN -1 ELSE 1

\* Coefficients whose lengths differ clearly are not multiplied out.
CoefficientOrder(x, y) ==
  LET shift == y.exp - x.exp
      order(a, b, n) == IF Digits(a) > Digits(b) + n THEN 1
                        ELSE IF Digits(a) < Digits(b) + n THEN -1
                        ELSE Sign(a.coeff - b.coeff * 10^n)
  IN IF shift >= 0 THEN order(x, y, shift) ELSE -order(y, x, -shift)

decCompare(x, y) ==
  IF SignOf(x) # SignOf(y) THEN Sign(SignOf(x) - SignOf(y))
  ELSE IF SignOf(x) = 0 THEN 0
  ELSE IF IsInf(y) THEN (IF IsInf(x) THEN 0 ELSE -SignOf(x))
  ELSE IF IsInf(x) THEN SignOf(x)
  ELSE SignOf(x) * CoefficientOrder(x, y)

\* decCompareOp for COMPARE.
decCompareOp(x, y) ==
  IF IsNaN(x) \/ IsNaN(y) THEN decNaNs(x, y) ELSE Ordering(decCompare(x, y))

\* A coefficient that would be rounded up to one digit too many is refused.
InRoom(rounded, exp, set) ==
  IF rounded.exp > exp /\ Digits(rounded) = set.digits THEN decInvalid ELSE InPlace(rounded, exp)

Rescaled(x, exp, set) ==
  LET adjust == exp - x.exp
  IN IF Digits(x) - adjust > set.digits THEN decInvalid
     ELSE IF adjust <= 0 THEN Number(x.neg, x.coeff * 10^(-adjust), exp)
     ELSE InRoom(CutTo(x, [set EXCEPT !.digits = Digits(x) - adjust], 0), exp, set)

QuantizedAs(r, set) ==
  IF Special(r) \/ r.exp > set.emax - Digits(r) + 1 THEN decInvalid ELSE decFinish(Exactly(r), set)

\* decQuantizeOp for quantize.
decQuantizeOp(x, y, set) ==
  IF IsNaN(x) \/ IsNaN(y) THEN decNaNs(x, y)
  ELSE IF IsInf(x) # IsInf(y) THEN decInvalid
  ELSE IF IsInf(x) THEN x
  ELSE IF y.exp < Etiny(set) \/ y.exp > set.emax THEN decInvalid
  ELSE QuantizedAs(IF IsZero(x) THEN Number(x.neg, 0, y.exp) ELSE Rescaled(x, y.exp, set), set)

decNumberToIntegralValue(x, set) ==
  IF IsNaN(x) THEN decNaNs(x, x)
  ELSE IF IsInf(x) \/ x.exp >= 0 THEN x
  ELSE decQuantizeOp(x, Zero, [set EXCEPT !.digits = Digits(x)])

\* x without its last zeros (decTrim with all and noclamp).
decTrim(x) ==
  IF Special(x) THEN x
  ELSE IF IsZero(x) THEN Number(x.neg, 0, 0)
  ELSE LET short == WithoutTrailingZeros(x.coeff, x.exp) IN Number(x.neg, short.coeff, short.exp)

-----------------------------------------------------------------------------
(* decGetInt: the integer a number is, if it is one and not too large for a *)
(* signed word.  It is put together from units of PlaceDigits digits, and a  *)
(* sum that wraps is found out by dividing it again.                         *)

BADINT    == [kind |-> "bad"]
Big(odd)  == [kind |-> "big", odd |-> odd]
IntOf(n)  == [kind |-> "int", n |-> n]

UnitAt(x, k) == (x.coeff \div 10^(PlaceDigits * k)) % 10^PlaceDigits
Wrapped(n)   == ((n + IntHalf) % (2 * IntHalf)) - IntHalf
Truncated(n, d) == IF n < 0 THEN -((-n) \div d) ELSE n \div d

\* What the first unit gives that has a digit left of the point: an integer, its
\* digits, and the unit to be taken next.
FirstUnit(x) ==
  LET skip == IF x.exp < 0 THEN (-x.exp) \div PlaceDigits ELSE 0
      cut  == IF x.exp < 0 THEN (-x.exp) % PlaceDigits ELSE 0
  IN IF x.exp > 0 THEN [theInt |-> 0, got |-> x.exp, up |-> 0]
     ELSE [theInt |-> UnitAt(x, skip) \div 10^cut, got |-> PlaceDigits - cut, up |-> skip + 1]

\* The units above it, as many as ilength digits need.
AllUnits(x, ilength) ==
  LET first == FirstUnit(x)
      more  == IF first.got < ilength
               THEN (ilength - first.got + PlaceDigits - 1) \div PlaceDigits ELSE 0
      sum[k \in 0..more] ==
        IF k = 0 THEN first.theInt
        ELSE Wrapped(sum[k - 1] +
                     UnitAt(x, first.up + k - 1) * 10^(first.got + PlaceDigits * (k - 1)))
  IN [theInt |-> sum[more], top |-> UnitAt(x, first.up + more - 1),
      below |-> first.got + PlaceDigits * (more - 1)]

\* An integer of as many digits as the word has does not fit.
Wraps(x, all) ==
  \/ Truncated(all.theInt, 10^all.below) # all.top
  \/ x.neg /\ all.theInt > IntLeast
  \/ ~x.neg /\ all.theInt > IntMost

decGetInt(x) ==
  LET ilength == Digits(x) + x.exp
      all     == AllUnits(x, ilength)
      theInt  == IF x.neg THEN -all.theInt ELSE all.theInt
  IN IF x.coeff = 0 THEN IntOf(0)
     ELSE IF x.exp < 0 /\ (ilength <= 0 \/ x.coeff % 10^(-x.exp) # 0) THEN BADINT
     ELSE IF ilength > IntDigits \/ (ilength = IntDigits /\ Wraps(x, all))
     THEN Big(FirstUnit(x).theInt % 2 = 1)
     ELSE IntOf(theInt)
=============================================================================
