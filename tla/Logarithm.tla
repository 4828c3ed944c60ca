------------------------------ MODULE Logarithm ------------------------------
(***************************************************************************)
(* decLnOp of decNumber.c: the natural logarithm of rhs by Newton's        *)
(* method, a' = a + rhs * exp(-a) - 1, from an estimate out of a table and *)
(* with a precision that doubles from turn to turn.                        *)
(*                                                                         *)
(* The exponentials are those of decExpOp (module Exponential), which      *)
(* almost always are rounded correctly.  They are rounded here from a sum  *)
(* with a known error, and both ends of its range are tried.               *)
(***************************************************************************)
EXTENDS DecNumber, FiniteSets

CONSTANTS
  Operands,         \* numbers the logarithm is taken of
  LeastDigits,      \* least number of digits that is worked for (7)
  FirstPrecision,   \* digits of the first turn (9)
  EstimateDigits,   \* digits of the estimate (16)
  WideExponent      \* limit of the exponents of adjustments (2 * DEC_MAX_MATH)

-----------------------------------------------------------------------------
(* The exponential of a decimal number in integers of eight digits behind  *)
(* the point, for what calls decExpOp and for what is checked against it:  *)
(* e^y = 10^k * e^f, where f = y - k * ln 10 lies around zero.             *)

Scale  == 10^8
LnOf10 == 230258509

\* a * f / Scale, digit by digit, for products that are wider than a word.
Scaled(a, f) ==
  LET digit(k) == (f \div 10^k) % 10
      acc[k \in 0..9] == IF k = 0 THEN 0 ELSE acc[k - 1] \div 10 + a * digit(k - 1)
  IN acc[9]

SignedScaled(a, f) ==
  (IF (a < 0) = (f < 0) THEN 1 ELSE -1)
    * Scaled(IF a < 0 THEN -a ELSE a, IF f < 0 THEN -f ELSE f)

\* y in units of 1 / Scale, cut off.
Units(y) ==
  (IF y.neg THEN -1 ELSE 1)
    * (IF y.exp >= -8 THEN y.coeff * 10^(8 + y.exp)
       ELSE IF y.exp < -17 THEN 0 ELSE y.coeff \div 10^(-8 - y.exp))

\* [mantissa, exp, error]: e^y is mantissa * 10^exp, with an error of so many units
\* of the mantissa at most: one for each term that is cut off, and what k * ln 10
\* and y lack.
ExpOf(y) ==
  LET u == Units(y)
      k == (u + LnOf10 \div 2) \div LnOf10
      f == u - k * LnOf10
      term[m \in 0..14] == IF m = 0 THEN Scale
                           ELSE LET s == SignedScaled(term[m - 1], f)
                                IN IF s < 0 THEN -((-s) \div m) ELSE s \div m
      sum[m \in 0..14]  == IF m = 0 THEN term[0] ELSE sum[m - 1] + term[m]
  IN [mantissa |-> sum[14], exp |-> k - 8,
      error |-> Cardinality({m \in 1..14 : term[m] # 0}) + 2 * (IF k < 0 THEN -k ELSE k)
                + (IF y.exp >= -8 THEN 0 ELSE 4)]

\* The least and the greatest number that e^y may be.
ExpLeast(y)    == LET e == ExpOf(y) IN Number(FALSE, e.mantissa - e.error, e.exp)
ExpGreatest(y) == LET e == ExpOf(y) IN Number(FALSE, e.mantissa + e.error, e.exp)

-----------------------------------------------------------------------------
(* decLnOp                                                                  *)

VARIABLES rhs, phase, a, pp, iterations, result
vars == <<rhs, phase, a, pp, iterations, result>>

None == [kind |-> "none"]
One  == Number(FALSE, 1, 0)

set == [digits |-> DECPMAX, emax |-> DECEMAX, emin |-> DECEMIN, round |-> "half_even", clamp |-> TRUE]
\* The contexts of the logarithm, and of its adjustment.
aset(digits) == [set EXCEPT !.digits = digits, !.clamp = FALSE]
bset(digits) == [aset(digits + Digits(rhs)) EXCEPT !.emax = WideExponent, !.emin = -WideExponent]

p == larger(Digits(rhs), larger(set.digits, LeastDigits)) + 2

Init ==
  /\ rhs \in Operands
  /\ phase = "start" /\ a = Number(FALSE, 0, 0) /\ pp = FirstPrecision /\ iterations = 0
  /\ result = None

Answer(r) == phase' = "done" /\ result' = r /\ UNCHANGED <<rhs, a, pp, iterations>>

-----------------------------------------------------------------------------
(* Operands that need no iteration                                          *)

LN10 == Number(FALSE, 230258509, -8)
LN2  == Number(FALSE, 69314718, -8)

Positive  == ~Special(rhs) /\ ~IsZero(rhs) /\ ~rhs.neg
KnownLogs == {Number(FALSE, 10, 0), Number(FALSE, 2, 0)}

LnSpecial ==
  /\ phase = "start"
  /\ \/ IsNaN(rhs) /\ Answer(decNaNs(rhs, rhs))
     \/ IsInf(rhs) /\ Answer(IF rhs.neg THEN decInvalid ELSE rhs)
     \/ ~Special(rhs) /\ IsZero(rhs) /\ Answer(Infinity(TRUE))
     \/ ~Special(rhs) /\ ~IsZero(rhs) /\ rhs.neg /\ Answer(decInvalid)
     \/ rhs \in KnownLogs /\ Answer(Fitted(IF rhs.coeff = 10 THEN LN10 ELSE LN2, set, 1))

-----------------------------------------------------------------------------
(* The estimate                                                             *)

\* The logarithms of 0.10 to 0.99, in the upper bits a coefficient and in the two
\* lowest its exponent.
LNnn == <<
   9016,  8652,  8316,  8008,  7724,  7456,  7208,
   6972,  6748,  6540,  6340,  6148,  5968,  5792,  5628,  5464,  5312,
   5164,  5020,  4884,  4748,  4620,  4496,  4376,  4256,  4144,  4032,
  39233, 38181, 37157, 36157, 35181, 34229, 33297, 32389, 31501, 30629,
  29777, 28945, 28129, 27329, 26545, 25777, 25021, 24281, 23553, 22837,
  22137, 21445, 20769, 20101, 19445, 18801, 18165, 17541, 16925, 16321,
  15721, 15133, 14553, 13985, 13421, 12865, 12317, 11777, 11241, 10717,
  10197,  9685,  9177,  8677,  8185,  7697,  7213,  6737,  6269,  5801,
   5341,  4889,  4437, 39930, 35534, 31186, 26886, 22630, 18418, 14254,
  10130,  6046, 20055 >>

\* rhs = f * 10^tens, and the two highest digits of f.
tens == rhs.exp + Digits(rhs)
TopDigits ==
  IF Digits(rhs) = 1 THEN 10 * rhs.coeff ELSE rhs.coeff \div 10^(Digits(rhs) - 2)

LogOfTop == LET k == LNnn[TopDigits - 9] IN Number(TRUE, k \div 4, (-(k % 4)) - 3)

Estimate ==
  /\ phase = "start" /\ Positive /\ rhs \notin KnownLogs
  /\ \E whole \in {Number(tens < 0, (IF tens < 0 THEN -tens ELSE tens) * 2302585, -6)} :
       a' = decAddOp(whole, LogOfTop, aset(EstimateDigits), FALSE)
  /\ phase' = "iterate"
  /\ UNCHANGED <<rhs, pp, iterations, result>>

-----------------------------------------------------------------------------
(* Newton's iteration                                                       *)

\* The numbers decExpOp may give for e^y with so many digits.
Exp(y, work) ==
  LET tiny == Number(FALSE, 4, -work.digits - (IF y.neg THEN 1 ELSE 0))
  IN IF IsZero(y) THEN {One}
     ELSE IF decCompare(tiny, Signed(y, FALSE)) >= 0
     THEN {Number(FALSE, 10^(work.digits - 1), 1 - work.digits)}
     ELSE {Fitted(e, work, 1) : e \in {ExpLeast(y), ExpGreatest(y)}}

\* The adjustment is below the digits of the result.
Small(b) == IsZero(b) \/ Digits(a) + a.exp >= Digits(b) + b.exp + set.digits + 1

\* An adjustment of zero fills a short logarithm up with zeros.
Lengthened(b) == IF IsZero(b) THEN Number(b.neg, 0, a.exp - p) ELSE b

LnOfOne == IsZero(a)

\* A zero that is the logarithm of 1 has no decimals.
ExactZero == IF Digits(a) # p /\ decCompare(rhs, One) = 0 THEN Number(a.neg, 0, 0) ELSE a

Finished(x) == Fitted(x, set, IF IsZero(x) THEN 0 ELSE 1)

Adjust(b) ==
  /\ a' = decAddOp(a, b, aset(pp), FALSE)
  /\ pp' = smaller(2 * pp, p)
  /\ UNCHANGED <<rhs, phase, result>>

Iterate ==
  /\ phase = "iterate"
  /\ iterations' = iterations + 1
  /\ \E e \in Exp(Signed(a, ~a.neg), bset(pp)) :
     \E product \in {decMultiplyOp(e, rhs, bset(pp))} :
     \E b \in {decAddOp(product, One, bset(pp), TRUE)} :
       IF ~Small(b) THEN Adjust(b)
       ELSE IF Digits(a) = p \/ LnOfOne
       THEN /\ phase' = "done"
            /\ \E x \in {ExactZero} : result' = Finished(x)
            /\ UNCHANGED <<rhs, a, pp>>
       ELSE \E padded \in {Lengthened(b)} : Adjust(padded)

Next == LnSpecial \/ Estimate \/ Iterate
Spec == Init /\ [][Next]_vars

-----------------------------------------------------------------------------

IsOne == Positive /\ decCompare(rhs, One) = 0

\* The result is within a tenth of its last place of the logarithm rounded to the
\* nearest number (decLnOp, "almost always be correctly rounded").
AlmostRounded ==
  result # None /\ Positive /\ ~IsOne =>
    LET c    == IF result.neg THEN -result.coeff ELSE result.coeff
        at(t) == Number(t < 0, IF t < 0 THEN -t ELSE t, result.exp - 1)
    IN ~Special(result) /\ decCompare(ExpGreatest(at(10 * c - 6)), rhs) < 0
       /\ decCompare(ExpLeast(at(10 * c + 6)), rhs) > 0

\* The logarithm of 1, with whatever zeros, is an exact zero (decLnOp, "A=1 exactly
\* -> 0 (Exact)").
OneGivesZero == result # None /\ IsOne => result = Number(FALSE, 0, 0)

\* The loop ends after a few turns (the check on iterations, which is for debugging
\* only, in the loop of decLnOp).
FewIterations == iterations <= 24
=============================================================================
