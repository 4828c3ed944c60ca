----------------------------- MODULE Exponential -----------------------------
(***************************************************************************)
(* decExpOp of decNumber.c: the operand is divided by a power of ten,      *)
(* 10^h, so that the series of the exponential ends soon, and the sum is   *)
(* raised to the power of 10^h again.                                      *)
(*                                                                         *)
(* One step of the model is a term of the series, or a bit of the power.   *)
(* Of the status flags, Overflow is set with an infinity, and Underflow    *)
(* stops the power with a zero only.                                       *)
(***************************************************************************)
EXTENDS DecNumber

CONSTANTS
  Calls,            \* records [x, round]: operands, and the caller's rounding mode
  MostTens,         \* greatest h (8)
  LeverDigits,      \* an operand with more digits is made a tenth once more (8)
  SeriesGuard,      \* digits more than the result in the series (2)
  PowerGuard,       \* digits more in the power (2)
  DivisorDigits,    \* digits of the divisor (16)
  WideExponent,     \* limit of the exponents of terms (999999999)
  NBits             \* bits of the power (32)

VARIABLES rhs, round, phase, a, t, d, n, i, seenbit, result
vars == <<rhs, round, phase, a, t, d, n, i, seenbit, result>>

None == [kind |-> "none"]
One  == Number(FALSE, 1, 0)

set == [digits |-> DECPMAX, emax |-> DECEMAX, emin |-> DECEMIN, round |-> round, clamp |-> TRUE]

\* The contexts of the sum, of the terms, and of the divisor.
aset(digits) == [set EXCEPT !.digits = digits, !.round = "half_even", !.clamp = FALSE]
tset(digits) == [digits |-> digits, emax |-> WideExponent, emin |-> -WideExponent,
                 round |-> "half_even", clamp |-> FALSE]
dset == tset(DivisorDigits)

Init ==
  /\ \E call \in Calls : rhs = call.x /\ round = call.round
  /\ phase = "start" /\ a = One /\ t = One /\ d = One
  /\ n = 0 /\ i = 1 /\ seenbit = FALSE /\ result = None

Answer(r) ==
  phase' = "done" /\ result' = r /\ UNCHANGED <<rhs, round, a, t, d, n, i, seenbit>>

-----------------------------------------------------------------------------
(* Operands that need no series *)

PaddedOne == Number(FALSE, 10^(set.digits - 1), 1 - set.digits)

\* The exponential of a number that is not larger is 1 in all digits.
TinyLimit == Number(FALSE, 4, -set.digits - (IF rhs.neg THEN 1 ELSE 0))

Plain == ~Special(rhs) /\ ~IsZero(rhs)
IsTiny == decCompare(TinyLimit, Signed(rhs, FALSE)) >= 0

ExpSpecial ==
  /\ phase = "start"
  /\ \/ IsNaN(rhs) /\ Answer(decNaNs(rhs, rhs))
     \/ IsInf(rhs) /\ Answer(IF rhs.neg THEN Number(FALSE, 0, 0) ELSE rhs)
     \/ ~Special(rhs) /\ IsZero(rhs) /\ Answer(One)
     \/ Plain /\ IsTiny /\ Answer(PaddedOne)

-----------------------------------------------------------------------------
(* The series *)

AdjustedExponent == rhs.exp + Digits(rhs)

lever == smaller(MostTens - AdjustedExponent, IF Digits(rhs) > LeverDigits THEN 1 ELSE 0)
\* x = rhs / 10^h is below 1, or below 0.1 with the lever.
h == smaller(MostTens, larger(AdjustedExponent + lever, 0))
x == Number(rhs.neg, rhs.coeff, smaller(-Digits(rhs) - lever, rhs.exp))
p == larger(Digits(rhs), set.digits) + h + SeriesGuard

\* The sum has twice the digits of the terms.
SumDigits == 2 * p

\* Far outside the range the power is made to overflow, or underflow.
ForceRange ==
  /\ phase = "start" /\ Plain /\ ~IsTiny /\ AdjustedExponent > MostTens
  /\ a' = IF rhs.neg THEN Number(FALSE, 2, -2) ELSE Number(FALSE, 2, 0)
  /\ t' = One /\ n' = 10^MostTens /\ phase' = "power"
  /\ UNCHANGED <<rhs, round, d, i, seenbit, result>>

BeginSeries ==
  /\ phase = "start" /\ Plain /\ ~IsTiny /\ AdjustedExponent <= MostTens
  /\ a' = One /\ t' = x /\ d' = Number(FALSE, 2, 0) /\ phase' = "series"
  /\ UNCHANGED <<rhs, round, n, i, seenbit, result>>

Divided(product) == decDivideOp(product, d, tset(p))

\* The next term is below all the digits of the sum.
Converged(sum, term) ==
  Digits(sum) + sum.exp >= Digits(term) + term.exp + p + 1 /\ Digits(sum) >= p

NextTerm ==
  /\ phase = "series"
  /\ \E sum \in {decAddOp(a, t, aset(SumDigits), FALSE)} :
     \E product \in {decMultiplyOp(t, x, tset(p))} :
     \E term \in {Divided(product)} :
       /\ a' = sum
       /\ IF Converged(sum, term)
          THEN IF h > 0 THEN t' = One /\ n' = 10^h /\ phase' = "power" /\ d' = d
               ELSE t' = term /\ phase' = "round" /\ UNCHANGED <<n, d>>
          ELSE t' = term /\ d' = decAddOp(d, One, dset, FALSE) /\ UNCHANGED <<n, phase>>
  /\ UNCHANGED <<rhs, round, i, seenbit, result>>

-----------------------------------------------------------------------------
(* The power a^(10^h), which is formed in t *)

Stopped == IsInf(t) \/ IsZero(t)
Shifted == (2 * n) % 2^NBits
TopBit  == Shifted >= 2^(NBits - 1)

powerset == aset((IF AdjustedExponent > MostTens THEN 9 ELSE p) + PowerGuard)

Squared(product) ==
  IF i < NBits - 1 /\ (seenbit \/ TopBit)
  THEN decMultiplyOp(product, product, powerset) ELSE product

NextBit ==
  /\ phase = "power" /\ ~Stopped
  /\ n' = Shifted
  /\ seenbit' = (seenbit \/ TopBit)
  /\ \E product \in {IF TopBit THEN decMultiplyOp(t, a, powerset) ELSE t} :
       t' = Squared(product)
  /\ IF i = NBits - 1 THEN phase' = "powered" /\ i' = i ELSE phase' = phase /\ i' = i + 1
  /\ UNCHANGED <<rhs, round, a, d, result>>

\* The power is carried on with.
EndPower ==
  /\ phase = "powered" \/ (phase = "power" /\ Stopped)
  /\ a' = t /\ phase' = "round"
  /\ UNCHANGED <<rhs, round, t, d, n, i, seenbit, result>>

Round ==
  /\ phase = "round"
  /\ Answer(IF IsInf(a) THEN a ELSE Fitted(a, set, IF IsZero(a) THEN 0 ELSE 1))

Next == ExpSpecial \/ ForceRange \/ BeginSeries \/ NextTerm \/ NextBit \/ EndPower \/ Round

Spec == Init /\ [][Next]_vars

-----------------------------------------------------------------------------

\* The exponential of the operand's magnitude, in millionths: the sum of the
\* series cut off at every term.
Millionths ==
  LET below == 10^larger(-rhs.exp, 0)
      above == 10^larger(rhs.exp, 0)
      term[m \in 0..25] == IF m = 0 THEN 10^6 ELSE (term[m - 1] * rhs.coeff * above) \div (below * m)
      sum[m \in 0..25]  == IF m = 0 THEN term[0] ELSE sum[m - 1] + term[m]
  IN sum[25]

Far == AdjustedExponent > 1

\* The result with the unit of the exponential: below 1, a result of 1.0 is 1.00.
Shown ==
  IF rhs.neg /\ result.coeff = 10^(DECPMAX - 1) /\ result.exp = 1 - DECPMAX
  THEN Number(FALSE, 10 * result.coeff, result.exp - 1) ELSE result

\* The exponential in hundredths of this unit.
Hundredths ==
  IF ~rhs.neg THEN Millionths \div 10^(4 + Shown.exp)
  ELSE IF Shown.exp = -2 THEN 10^9 \div (Millionths \div 10)
  ELSE 10^(8 - Shown.exp) \div Millionths

\* The result is not farther from the exponential than so many hundredths.
Near(hundredths) ==
  IF Special(result)
  THEN ~rhs.neg /\ (Far \/ Millionths \div 10^6 >= 10^(DECEMAX + 1) - 10^(DECEMAX - DECPMAX + 1) \div 2)
  ELSE IF Far THEN rhs.neg /\ result.coeff = 0
  ELSE larger(100 * Shown.coeff - Hundredths, Hundredths - 100 * Shown.coeff) <= hundredths

\* With the guard digits no result is off by more than a tenth of its last place
\* from where rounding to the nearest would take it, with subnormal results and
\* overflow (decExpOp, "almost always be correctly rounded").
AlmostRounded == result # None /\ Plain /\ round = "half_even" => Near(60)

\* A step of the series adds the term exactly.
AddsExactly ==
  phase = "series" =>
    LET places == smaller(a.exp, t.exp)
        value(y) == (IF y.neg THEN -1 ELSE 1) * y.coeff * 10^(y.exp - places)
    IN value(a) + value(t) = value(a')

\* No more terms are added than factorials need to outgrow the working digits: the
\* loop, which has no bound of its own, ends (the for loop of decExpOp, whose check
\* on iterations is for debugging only).
SeriesIsShort ==
  LET factorial[m \in 0..12] == IF m = 0 THEN 1 ELSE m * factorial[m - 1]
  IN phase = "series" => factorial[d.coeff - 1] <= 10^(p + 1)
=============================================================================
