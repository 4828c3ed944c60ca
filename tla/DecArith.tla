------------------------------ MODULE DecArith ------------------------------
(***************************************************************************)
(* The operations on decimal floating point numbers of decBasic.c: what    *)
(* the calculator's dfp_ macros call.  A result is formed exactly, or with *)
(* a digit that stands for everything behind it, and is rounded once by    *)
(* decFinalize (DecFloat).                                                 *)
(*                                                                         *)
(* Coefficients are integers: their digits, words and declets are left     *)
(* out, so that decCanonical, the copies and the tests for canonical form  *)
(* are the identity.  Long division and the splitting of products have     *)
(* modules of their own (DecDivide, DecMultiply).                          *)
(***************************************************************************)
EXTENDS DecFloat

CONSTANTS
  UnitDigits,       \* digits of a unit of the long division (9)
  INT32_MAX

IsNaN(x)      == x.kind \in {"qnan", "snan"}
IsInf(x)      == x.kind = "inf"
IsZero(x)     == ~Special(x) /\ x.coeff = 0
IsInt(x)      == ~Special(x) /\ x.exp = 0
Signed(x, neg) == [x EXCEPT !.neg = neg]

Zero      == Finite(FALSE, 0, 0)
Tiny(neg) == Finite(neg, 1, DECQTINY)
Nmax(neg) == Finite(neg, 10^DECPMAX - 1, DECQMAX)

decInvalid       == NaN
decInfinity(x)   == Infinity(x.neg)
decFloatDigits(x) == IF Special(x) THEN 1 ELSE Length(x.coeff)

\* A signalling NaN goes before a quiet one and becomes quiet.
decNaNs(x, y) ==
  LET signalling == IF x.kind = "snan" THEN x ELSE y
  IN IF signalling.kind = "snan" THEN [signalling EXCEPT !.kind = "qnan"]
     ELSE IF IsNaN(x) THEN x ELSE y

decFloatCopyAbs(x)     == Signed(x, FALSE)
decFloatCopyNegate(x)  == Signed(x, ~x.neg)
decFloatCopySign(x, y) == Signed(x, y.neg)

\* Plus and Minus are 0 + x and 0 - x: a zero loses its sign.
decFloatPlus(x) ==
  IF IsNaN(x) THEN decNaNs(x, x) ELSE IF IsZero(x) THEN Signed(x, FALSE) ELSE x
decFloatMinus(x) ==
  IF IsNaN(x) THEN decNaNs(x, x) ELSE Signed(x, ~IsZero(x) /\ ~x.neg)
decFloatAbs(x) == IF IsNaN(x) THEN decNaNs(x, x) ELSE decFloatCopyAbs(x)

-----------------------------------------------------------------------------
(* Addition                                                                 *)

\* Two aligned coefficients: a difference has the sign of the greater one, and
\* an exact zero is positive unless rounding goes towards -Infinity.
AddAligned(neg1, c1, neg2, c2, exp, round) ==
  decFinalize(CASE neg1 = neg2 -> neg1
                [] neg1 # neg2 /\ c1 = c2 -> round = "floor"
                [] neg1 # neg2 /\ c1 # c2 -> IF c1 > c2 THEN neg1 ELSE neg2,
              IF neg1 = neg2 THEN c1 + c2 ELSE larger(c1, c2) - smaller(c1, c2), exp, round)

\* Mutant of SlowAdd: a number far below is forgotten.
SlowAddForgets(hi, lo, round) ==
  LET shift == hi.exp - lo.exp
  IN IF hi.coeff = 0
     THEN IF hi.neg # lo.neg /\ lo.coeff = 0 THEN Signed(lo, round = "floor") ELSE lo
     ELSE IF shift > 2 * DECPMAX
     THEN AddAligned(hi.neg, hi.coeff * 10^(DECPMAX + 1), lo.neg, 0, hi.exp - DECPMAX - 1, round)
     ELSE AddAligned(hi.neg, hi.coeff * 10^shift, lo.neg, lo.coeff, lo.exp, round)

\* hi has the greater exponent.  Where more than DECPMAX places lie between the
\* two, lo is one sticky digit behind a gap of DECPMAX.
SlowAdd(hi, lo, round) ==
  LET far   == hi.exp - lo.exp > 2 * DECPMAX
      shift == IF far THEN DECPMAX + 1 ELSE hi.exp - lo.exp
  IN IF hi.coeff = 0
     THEN IF hi.neg # lo.neg /\ lo.coeff = 0 THEN Signed(lo, round = "floor") ELSE lo
     ELSE AddAligned(hi.neg, hi.coeff * 10^shift, lo.neg,
                     IF far /\ lo.coeff # 0 THEN 1 ELSE lo.coeff, hi.exp - shift, round)

AddSpecial(x, y) ==
  IF IsNaN(x) \/ IsNaN(y) THEN decNaNs(x, y)
  ELSE IF IsInf(x) /\ IsInf(y) /\ x.neg # y.neg THEN decInvalid
  ELSE IF IsInf(x) THEN x ELSE y

MSD(x) == x.coeff \div 10^(DECPMAX - 1)

\* Aligned, of one sign and certain not to carry: added without rounding.
FastPath(x, y) == x.exp = y.exp /\ x.neg = y.neg /\ MSD(x) + MSD(y) <= 8

decFloatAdd(x, y, round) ==
  IF Special(x) \/ Special(y) THEN AddSpecial(x, y)
  ELSE IF FastPath(x, y) THEN Finite(x.neg, x.coeff + y.coeff, x.exp)
  ELSE SlowAdd(IF y.exp <= x.exp THEN x ELSE y, IF y.exp <= x.exp THEN y ELSE x, round)

decFloatSubtract(x, y, round) ==
  decFloatAdd(x, IF IsNaN(y) THEN y ELSE decFloatCopyNegate(y), round)

-----------------------------------------------------------------------------
(* Multiplication, and multiplication with an addition                      *)

FinalizeAs(neg, x, round) == decFinalize(neg, x.coeff, x.exp, round)

\* The exact product, of any length.
decFiniteMultiply(x, y) == [kind |-> "finite", neg |-> x.neg # y.neg,
                            coeff |-> x.coeff * y.coeff, exp |-> x.exp + y.exp]

InfTimesZero(x, y) == (IsInf(x) /\ IsZero(y)) \/ (IsInf(y) /\ IsZero(x))

decFloatMultiply(x, y, round) ==
  IF IsNaN(x) \/ IsNaN(y) THEN decNaNs(x, y)
  ELSE IF InfTimesZero(x, y) THEN decInvalid
  ELSE IF IsInf(x) \/ IsInf(y) THEN Infinity(x.neg # y.neg)
  ELSE FinalizeAs(x.neg # y.neg, decFiniteMultiply(x, y), round)

\* NaNs in the order the code looks for them, then an infinite product or
\* addend.
FMASpecial(x, y, z) ==
  LET product == IF IsInf(x) \/ IsInf(y) THEN Infinity(x.neg # y.neg)
                                         ELSE Signed(Zero, x.neg # y.neg)
  IN IF x.kind = "snan" \/ y.kind = "snan" THEN decNaNs(x, y)
     ELSE IF z.kind = "snan" THEN decNaNs(z, z)
     ELSE IF IsNaN(x) \/ IsNaN(y) THEN decNaNs(x, y)
     ELSE IF IsNaN(z) THEN z
     ELSE IF InfTimesZero(x, y) THEN decInvalid
     ELSE IF ~IsInf(z) THEN product
     ELSE IF ~IsInf(product) THEN z
     ELSE IF z.neg # product.neg THEN decInvalid ELSE product

LeadingDigit(n) == n \div 10^(Length(n) - 1)

\* A lower number whose first digit stands more than DECPMAX + 2 places to the
\* right of the first digit of hi is reduced to that digit, close behind hi.
FMAAlign(hi, lo) ==
  IF Length(hi.coeff) + hi.exp - lo.exp - Length(lo.coeff) > DECPMAX + 2 /\ hi.exp # lo.exp
  THEN [lo EXCEPT !.coeff = LeadingDigit(lo.coeff),
                  !.exp = smaller(hi.exp, hi.exp + Length(hi.coeff) - DECPMAX) - 3]
  ELSE lo

AddBelow(hi, low, round) ==
  AddAligned(hi.neg, hi.coeff * 10^(hi.exp - low.exp), low.neg, low.coeff, low.exp, round)

FMAAdd(hi, lo, round) ==
  IF hi.coeff = 0
  THEN FinalizeAs(IF hi.neg # lo.neg /\ lo.coeff = 0 THEN round = "floor" ELSE lo.neg, lo, round)
  ELSE AddBelow(hi, FMAAlign(hi, lo), round)

\* x * y + z, rounded once.
decFloatFMA(x, y, z, round) ==
  IF Special(x) \/ Special(y) \/ Special(z) THEN FMASpecial(x, y, z)
  ELSE LET product == decFiniteMultiply(x, y)
           above   == product.exp >= z.exp
       IN FMAAdd(IF above THEN product ELSE z, IF above THEN z ELSE product, round)

-----------------------------------------------------------------------------
(* Division: the four operations that share decDivide                       *)

\* The whole operand is used and there is no rest, or there are enough digits.
Enough(c1, c2, n) ==
  \/ (c1 * 10^n) % c2 = 0
  \/ Length((c1 * 10^n) \div c2) > DECPMAX + 1

WithoutTrailingZeros(c, exp) ==
  LET zeros == {k \in 0..Length(c) - 1 : c % 10^k = 0}
      most  == CHOOSE k \in zeros : \A j \in zeros : j <= k
  IN [coeff |-> c \div 10^most, exp |-> exp + most]

\* With n digits beyond the operand.
QuotientWith(c1, c2, exp, n) ==
  LET q == (c1 * 10^n) \div c2
  IN IF (c1 * 10^n) % c2 # 0 THEN [coeff |-> q + (1 - (q % 2)), exp |-> exp - n]
     ELSE IF n > 0 THEN WithoutTrailingZeros(q, exp - n)
     ELSE [coeff |-> q, exp |-> exp]

\* Digits of the quotient are formed a unit at a time, beyond the operand while
\* there is a rest and there are not DECPMAX + 2 of them; a rest makes the last
\* one odd.  An exact quotient that used extra units drops its last zeros.
Quotient(x, y) ==
  QuotientWith(x.coeff, y.coeff, x.exp - y.exp,
               CHOOSE n \in {k * UnitDigits : k \in 0..2 * DECPMAX + 2} :
                 /\ Enough(x.coeff, y.coeff, n)
                 /\ n = 0 \/ ~Enough(x.coeff, y.coeff, n - UnitDigits))

\* The quotient as an integer that has to fit the format (else Division
\* impossible): cut, or for the nearest remainder rounded half to even.
IntegerQuotient(neg, q, round, op) ==
  IF Length(q.coeff) + q.exp > DECPMAX THEN NaN
  ELSE decFinalize(neg, IF q.exp >= 0 THEN q.coeff * 10^q.exp
                        ELSE DropDigits(neg, q.coeff, -q.exp,
                                        IF op = "remnear" THEN "half_even" ELSE "down"), 0, round)

Remainders == {"remainder", "remnear"}

DivideInfinite(x, y, op, neg) ==
  IF IsInf(x)
  THEN IF IsInf(y) \/ op \in Remainders THEN decInvalid ELSE Infinity(neg)
  ELSE IF op \in Remainders THEN x
  ELSE Finite(neg, 0, IF op = "divideint" THEN 0 ELSE DECQTINY)

DivideByZero(x, op, neg) ==
  IF IsZero(x) \/ op \in Remainders THEN decInvalid ELSE Infinity(neg)

DivideZero(x, y, op, neg, round) ==
  IF op = "divideint" THEN Finite(neg, 0, 0)
  ELSE decFinalize(IF op = "divide" THEN neg ELSE x.neg, 0,
                   IF op = "divide" THEN x.exp - y.exp ELSE smaller(x.exp, y.exp), round)

ZeroSigned(r, x) == IF IsZero(r) THEN decFloatCopySign(r, x) ELSE r

\* x - quotient * y with one rounding; a zero has the sign of x.
RemainderOf(x, y, quotient, round) ==
  ZeroSigned(decFloatFMA(decFloatCopyNegate(quotient), y, x, round), x)

AfterQuotient(x, y, int, round, op) ==
  IF op = "divideint" \/ IsNaN(int) THEN int ELSE RemainderOf(x, y, int, round)

FromQuotient(x, y, neg, q, round, op) ==
  IF op = "divide" THEN FinalizeAs(neg, q, round)
  ELSE AfterQuotient(x, y, IntegerQuotient(neg, q, round, op), round, op)

decDivide(x, y, round, op) ==
  LET neg == x.neg # y.neg
  IN IF IsNaN(x) \/ IsNaN(y) THEN decNaNs(x, y)
     ELSE IF IsInf(x) \/ IsInf(y) THEN DivideInfinite(x, y, op, neg)
     ELSE IF IsZero(y) THEN DivideByZero(x, op, neg)
     ELSE IF IsZero(x) THEN DivideZero(x, y, op, neg, round)
     ELSE FromQuotient(x, y, neg, Quotient(x, y), round, op)

-----------------------------------------------------------------------------
(* Comparison                                                               *)

Sign(n) == IF n < 0 THEN -1 ELSE IF n > 0 THEN 1 ELSE 0

\* Of two numbers that are not zero: coefficients that cannot overlap are not
\* looked at.
MagnitudeOrder(x, y) ==
  LET shift == x.exp - y.exp
  IN IF shift >= DECPMAX THEN 1 ELSE IF -shift >= DECPMAX THEN -1
     ELSE IF shift >= 0 THEN Sign(x.coeff * 10^shift - y.coeff)
     ELSE Sign(x.coeff - y.coeff * 10^(-shift))

FirstNonZero(m, n) == IF m # 0 THEN m ELSE n

\* -1, 0 or 1.  The total order goes on by sign, for zeros too, and then by
\* exponent.
decNumCompare(x, y, tot) ==
  LET sigl == IF x.neg THEN -1 ELSE 1
      byExponent == IF tot THEN sigl * Sign(x.exp - y.exp) ELSE 0
  IN IF x.neg # y.neg THEN IF IsZero(x) /\ IsZero(y) /\ ~tot THEN 0 ELSE sigl
     ELSE IF IsInf(x) THEN IF IsInf(y) THEN 0 ELSE sigl
     ELSE IF IsInf(y) THEN -sigl
     ELSE IF IsZero(x) THEN IF IsZero(y) THEN byExponent ELSE -sigl
     ELSE IF IsZero(y) THEN sigl
     ELSE FirstNonZero(sigl * MagnitudeOrder(x, y), byExponent)

Ordering(comp) == IF comp = 0 THEN Zero ELSE Finite(comp < 0, 1, 0)

\* decFloatCompareSignal differs by a status flag only.
decFloatCompare(x, y) ==
  IF IsNaN(x) \/ IsNaN(y) THEN decNaNs(x, y) ELSE Ordering(decNumCompare(x, y, FALSE))

\* NaNs stand outside the numbers, the quiet ones outermost.
NaNRank(x) ==
  LET rank == CASE x.kind = "snan" -> 1 [] x.kind = "qnan" -> 2 [] OTHER -> 0
  IN IF x.neg THEN -rank ELSE rank

decFloatCompareTotal(x, y) ==
  Ordering(IF IsNaN(x) \/ IsNaN(y) THEN Sign(NaNRank(x) - NaNRank(y))
           ELSE decNumCompare(x, y, TRUE))

decFloatCompareTotalMag(x, y) ==
  decFloatCompareTotal(IF x.neg THEN decFloatCopyAbs(x) ELSE x,
                       IF y.neg THEN decFloatCopyAbs(y) ELSE y)

\* A number is preferred to a quiet NaN.
NumberOrNaN(x, y) ==
  IF IsNaN(x) /\ ~IsNaN(y) /\ x.kind # "snan" THEN y
  ELSE IF IsNaN(y) /\ ~IsNaN(x) /\ y.kind # "snan" THEN x
  ELSE decNaNs(x, y)

decFloatMax(x, y) ==
  IF IsNaN(x) \/ IsNaN(y) THEN NumberOrNaN(x, y)
  ELSE IF decNumCompare(x, y, TRUE) >= 0 THEN x ELSE y
decFloatMin(x, y) ==
  IF IsNaN(x) \/ IsNaN(y) THEN NumberOrNaN(x, y)
  ELSE IF decNumCompare(x, y, TRUE) <= 0 THEN x ELSE y

OrderMag(x, y) ==
  IF IsNaN(x) \/ IsNaN(y) THEN 0
  ELSE decNumCompare(decFloatCopyAbs(x), decFloatCopyAbs(y), FALSE)
decFloatMaxMag(x, y) ==
  IF OrderMag(x, y) > 0 THEN x ELSE IF OrderMag(x, y) < 0 THEN y ELSE decFloatMax(x, y)
decFloatMinMag(x, y) ==
  IF OrderMag(x, y) < 0 THEN x ELSE IF OrderMag(x, y) > 0 THEN y ELSE decFloatMin(x, y)

decFloatSameQuantum(x, y) ==
  \/ IsNaN(x) /\ IsNaN(y)
  \/ IsInf(x) /\ IsInf(y)
  \/ ~Special(x) /\ ~Special(y) /\ x.exp = y.exp

decFloatIsNormal(x) ==
  ~Special(x) /\ ~IsZero(x) /\ x.exp + decFloatDigits(x) - 1 >= DECEMIN
decFloatIsSubnormal(x) == ~Special(x) /\ ~IsZero(x) /\ ~decFloatIsNormal(x)
decFloatIsPositive(x)  == ~x.neg /\ ~IsZero(x) /\ ~IsNaN(x)
decFloatIsNegative(x)  == x.neg /\ ~IsZero(x) /\ ~IsNaN(x)

decFloatClass(x) ==
  [neg |-> x.neg /\ ~IsNaN(x),
   class |-> IF Special(x) THEN x.kind ELSE IF IsZero(x) THEN "zero"
             ELSE IF x.exp + decFloatDigits(x) - 1 >= DECEMIN THEN "normal" ELSE "subnormal"]

-----------------------------------------------------------------------------
(* Changing an exponent, and integers                                       *)

\* x with a lower exponent, where its coefficient has room for the zeros.
Padded(x, exp) ==
  IF x.coeff = 0 THEN Finite(x.neg, 0, exp)
  ELSE IF Length(x.coeff) + x.exp - exp > DECPMAX THEN decInvalid
  ELSE Finite(x.neg, x.coeff * 10^(x.exp - exp), exp)

\* x with the exponent of y: rounded, or padded where it has room.
decFloatQuantize(x, y, round) ==
  LET drop == y.exp - x.exp
  IN IF IsNaN(x) \/ IsNaN(y) THEN decNaNs(x, y)
     ELSE IF IsInf(x) # IsInf(y) THEN decInvalid
     ELSE IF IsInf(x) \/ drop = 0 THEN x
     ELSE IF drop > 0 THEN Finite(x.neg, DropDigits(x.neg, x.coeff, drop, round), y.exp)
     ELSE Padded(x, y.exp)

decToIntegral(x, round) ==
  IF IsNaN(x) THEN decNaNs(x, x)
  ELSE IF IsInf(x) \/ x.exp >= 0 THEN x
  ELSE decFloatQuantize(x, Zero, round)

Int32Of(int, unsign) ==
  IF Special(int) THEN 0
  ELSE IF unsign THEN IF int.coeff > 2 * INT32_MAX + 1 \/ (int.neg /\ int.coeff # 0) THEN 0 ELSE int.coeff
  ELSE IF int.coeff > INT32_MAX + (IF int.neg THEN 1 ELSE 0) THEN 0
  ELSE IF int.neg THEN -int.coeff ELSE int.coeff

\* What cannot be an integer of 32 bits gives 0 (and sets Invalid operation).
decToInt32(x, round, unsign) ==
  IF Special(x) THEN 0
  ELSE Int32Of(IF x.exp = 0 THEN x ELSE decFloatQuantize(x, Zero, round), unsign)

decFloatFromInt32(n) == Finite(n < 0, IF n < 0 THEN -n ELSE n, 0)

\* A zero keeps its sign and loses its exponent.
decFloatReduce(x, round) ==
  IF IsNaN(x) THEN decNaNs(x, x)
  ELSE IF IsInf(x) THEN x
  ELSE IF IsZero(x) THEN Signed(Zero, x.neg)
  ELSE IF x.coeff % 10 # 0 THEN x
  ELSE FinalizeAs(x.neg, WithoutTrailingZeros(x.coeff, x.exp), round)

decFloatLogB(x) ==
  IF IsNaN(x) THEN decNaNs(x, x)
  ELSE IF IsInf(x) THEN Infinity(FALSE)
  ELSE IF IsZero(x) THEN Infinity(TRUE)
  ELSE decFloatFromInt32(x.exp + decFloatDigits(x) - 1)

\* [of a finite number]
decFloatSetExponent(x, exp, round) == decFinalize(x.neg, x.coeff, exp, round)

decFloatScaleB(x, y, round) ==
  IF IsNaN(x) \/ IsNaN(y) THEN decNaNs(x, y)
  ELSE IF ~IsInt(y) \/ y.coeff > 2 * (DECEMAX + DECPMAX) THEN decInvalid
  ELSE IF IsInf(x) THEN x
  ELSE decFloatSetExponent(x, x.exp + (IF y.neg THEN -y.coeff ELSE y.coeff), round)

-----------------------------------------------------------------------------
(* Neighbours                                                               *)

\* A zero has the sign of the side it was reached from.
ZeroTurned(sum) == IF IsZero(sum) THEN decFloatCopyNegate(sum) ELSE sum

decFloatNextPlus(x) ==
  IF IsInf(x) /\ x.neg THEN Nmax(TRUE) ELSE ZeroTurned(decFloatAdd(x, Tiny(FALSE), "ceiling"))

decFloatNextMinus(x) ==
  IF IsInf(x) /\ ~x.neg THEN Nmax(FALSE) ELSE ZeroTurned(decFloatAdd(x, Tiny(TRUE), "floor"))

\* A tenth of the least number is added: one too small to have an exponent.
decFloatNextToward(x, y) ==
  IF IsNaN(x) \/ IsNaN(y) THEN decNaNs(x, y)
  ELSE LET comp == decNumCompare(x, y, FALSE)
       IN IF comp = 0 THEN decFloatCopySign(x, y)
          ELSE IF IsInf(x) THEN Nmax(x.neg)
          ELSE decFloatFMA(Tiny(comp > 0), Finite(FALSE, 1, -1), x,
                           IF comp < 0 THEN "ceiling" ELSE "floor")

-----------------------------------------------------------------------------
(* Digits as bits, and moving digits                                        *)

Digit(n, i) == (n \div 10^i) % 10
Places      == 0..DECPMAX - 1
OnesOf(n)   == {i \in Places : Digit(n, i) = 1}
FromOnes(S) ==
  LET upto[i \in 0..DECPMAX] ==
        IF i = 0 THEN 0 ELSE upto[i - 1] + (IF i - 1 \in S THEN 10^(i - 1) ELSE 0)
  IN Finite(FALSE, upto[DECPMAX], 0)

decFloatIsLogical(x) == IsInt(x) /\ ~x.neg /\ \A i \in Places : Digit(x.coeff, i) \in {0, 1}
Logical(x, y, S)     == IF decFloatIsLogical(x) /\ decFloatIsLogical(y) THEN FromOnes(S) ELSE decInvalid

decFloatAnd(x, y) == Logical(x, y, OnesOf(x.coeff) \cap OnesOf(y.coeff))
decFloatOr(x, y)  == Logical(x, y, OnesOf(x.coeff) \cup OnesOf(y.coeff))
decFloatXor(x, y) == Logical(x, y, (OnesOf(x.coeff) \cup OnesOf(y.coeff))
                                   \ (OnesOf(x.coeff) \cap OnesOf(y.coeff)))
decFloatInvert(x) == Logical(x, x, Places \ OnesOf(x.coeff))

\* The second operand of Shift and Rotate: an integer up to DECPMAX.
BadCount(y) == ~IsInt(y) \/ y.coeff > DECPMAX

decFloatShift(x, y, round) ==
  IF IsNaN(x) \/ IsNaN(y) THEN decNaNs(x, y)
  ELSE IF BadCount(y) THEN decInvalid
  ELSE IF IsInf(x) \/ y.coeff = 0 THEN x
  ELSE IF y.coeff = DECPMAX THEN Signed(Zero, x.neg)
  ELSE decFinalize(x.neg, IF y.neg THEN x.coeff \div 10^y.coeff
                          ELSE (x.coeff % 10^(DECPMAX - y.coeff)) * 10^y.coeff, x.exp, round)


\* Half the digits, rounded up to a multiple of four.
PHALF == 4 * ((DECPMAX \div 2 + 3) \div 4)

\* Rotation by more than that is done the other way round.
decFloatRotate(x, y, round) ==
  LET count == IF y.neg THEN -y.coeff ELSE y.coeff
      left  == IF y.coeff <= PHALF THEN count
               ELSE IF y.neg THEN DECPMAX + count ELSE count - DECPMAX
      high  == IF left > 0 THEN left ELSE DECPMAX + left
  IN IF IsNaN(x) \/ IsNaN(y) THEN decNaNs(x, y)
     ELSE IF BadCount(y) THEN decInvalid
     ELSE IF IsInf(x) \/ y.coeff \in {0, DECPMAX} THEN x
     ELSE LET low == DECPMAX - high
          IN decFinalize(x.neg, (x.coeff % 10^low) * 10^high + x.coeff \div 10^low, x.exp, round)
=============================================================================
