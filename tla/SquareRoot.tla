----------------------------- MODULE SquareRoot -----------------------------
(***************************************************************************)
(* decNumberSquareRoot of decNumber.c: Newton's method on a fraction, with *)
(* a precision that nearly doubles from step to step, and a correction of  *)
(* one unit that makes the result the correctly rounded one (Hull and      *)
(* Abrham).                                                                *)
(*                                                                         *)
(* The operand is rhs = f * 10^exp; a approaches the root of f.            *)
(***************************************************************************)
EXTENDS DecNumber

CONSTANTS
  Operands,         \* numbers the root is taken of
  MinWork,          \* least number of working digits (7)
  WideExponent      \* limit of the working exponents (999999999)

VARIABLES rhs, phase, f, exp, a, p, result
vars == <<rhs, phase, f, exp, a, p, result>>

None == [kind |-> "none"]

\* The context of the caller, and the one of the result being approximated.
set == [digits |-> DECPMAX, emax |-> DECEMAX, emin |-> DECEMIN, round |-> "half_even", clamp |-> TRUE]
workset(digits, round) ==
  [digits |-> digits, emax |-> WideExponent, emin |-> -WideExponent, round |-> round, clamp |-> TRUE]

workp == larger(larger(set.digits + 1, Digits(rhs)), MinWork)
maxp  == workp + 2
ideal == rhs.exp \div 2

Init ==
  /\ rhs \in Operands
  /\ phase = "start" /\ f = Zero /\ exp = 0 /\ a = Zero /\ p = 0 /\ result = None

Answer(x) == phase' = "done" /\ result' = x /\ UNCHANGED <<rhs, f, exp, a, p>>

\* Infinity, NaNs, zeros, and negative numbers.
SquareRootSpecial ==
  /\ phase = "start"
  /\ \/ IsNaN(rhs) /\ Answer(decNaNs(rhs, rhs))
     \/ IsInf(rhs) /\ Answer(IF rhs.neg THEN decInvalid ELSE rhs)
     \/ ~Special(rhs) /\ IsZero(rhs)
        /\ Answer(decFinish([x |-> Number(rhs.neg, 0, ideal), residue |-> 0], set))
     \/ ~Special(rhs) /\ ~IsZero(rhs) /\ rhs.neg /\ Answer(decInvalid)

\* The fraction, an even exponent, and the line that is near to the root.
Reduced(x) ==
  LET e == x.exp + Digits(x)
  IN IF e % 2 = 0
     THEN [f |-> Number(FALSE, x.coeff, -Digits(x)), exp |-> e,
           factor |-> Number(FALSE, 819, -3), term |-> Number(FALSE, 259, -3)]
     ELSE [f |-> Number(FALSE, x.coeff, -Digits(x) - 1), exp |-> e + 1,
           factor |-> Number(FALSE, 259, -2), term |-> Number(FALSE, 819, -4)]

Estimate ==
  /\ phase = "start" /\ ~Special(rhs) /\ ~IsZero(rhs) /\ ~rhs.neg
  /\ \E r \in {Reduced(rhs)}, work \in {workset(workp, "half_even")} :
       /\ f' = r.f /\ exp' = r.exp
       /\ \E product \in {decMultiplyOp(r.factor, r.f, work)} :
            a' = decAddOp(product, r.term, work, FALSE)
  /\ p' = 3 /\ phase' = "refine"
  /\ UNCHANGED <<rhs, result>>

\* Mutant of NextPrecision: one digit less, which never gets away from 3.
NextPrecisionLess == smaller(2 * p - 3, maxp)
NextPrecision == smaller(2 * p - 2, maxp)

\* a = (a + f / a) / 2
Refine ==
  /\ phase = "refine" /\ p < maxp
  /\ p' = NextPrecision
  /\ \E work \in {workset(NextPrecision, "half_even")} :
     \E quotient \in {decDivideOp(f, a, work)} :
     \E b \in {decAddOp(quotient, a, work, FALSE)} :
       a' = decMultiplyOp(b, Number(FALSE, 5, -1), work)
  /\ UNCHANGED <<rhs, phase, f, exp, result>>

Raised(x, n) == Number(x.neg, x.coeff, x.exp + n)

\* The approximation is rounded to the digits of the result, where the result
\* will stand; it may overflow there.
Reduce ==
  /\ phase = "refine" /\ p >= maxp
  /\ \E r \in {Fitted(Raised(a, exp \div 2), set, 0)} :
       \/ IsInf(r) /\ Answer(r)
       \/ /\ ~IsInf(r) /\ a' = Raised(r, -(exp \div 2)) /\ phase' = "correct"
          /\ UNCHANGED <<rhs, f, exp, p, result>>

\* Half a unit of the last place of a, and a unit.
HalfUlp == Number(FALSE, 5, -Digits(a) - 1)
Ulp     == Number(FALSE, 1, -Digits(a))

\* The squares of a - HalfUlp, rounded up, and of a + HalfUlp, rounded down.
LowSquare ==
  LET b == decAddOp(a, HalfUlp, workset(maxp - 1, "half_even"), TRUE)
  IN decMultiplyOp(b, b, workset(maxp - 1, "up"))
HighSquare ==
  LET b == decAddOp(a, HalfUlp, workset(maxp - 1, "up"), FALSE)
  IN decMultiplyOp(b, b, workset(maxp - 1, "down"))

\* A changed approximation is rounded once more.
Again(x) ==
  decAddOp(Number(FALSE, 0, 0), x,
           [set EXCEPT !.emin = @ - exp \div 2, !.emax = @ - exp \div 2], FALSE)

\* Mutant of Corrected: the approximation is not checked from below.
CorrectedHigh ==
  IF decCompare(HighSquare, f) < 0
  THEN Again(decAddOp(a, Ulp, workset(maxp - 1, "down"), FALSE))
  ELSE a

Corrected ==
  IF decCompare(f, LowSquare) < 0
  THEN Again(decAddOp(a, Ulp, workset(maxp - 1, "up"), TRUE))
  ELSE IF decCompare(HighSquare, f) < 0
  THEN Again(decAddOp(a, Ulp, workset(maxp - 1, "down"), FALSE))
  ELSE a

Correct ==
  /\ phase = "correct"
  /\ \E c \in {Corrected} : a' = Raised(c, exp \div 2)
  /\ phase' = "trim"
  /\ UNCHANGED <<rhs, f, exp, p, result>>

\* The square of a short root fits the working digits, so that the rounding mode
\* left over from the correction does not matter.
IsExact(short) ==
  /\ 2 * Digits(short) - 1 <= workp
  /\ decCompare(decMultiplyOp(short, short, workset(maxp - 1, "down")), rhs) = 0

\* Zeros an exact root loses, to come near its ideal exponent.
ToDrop(short) ==
  LET wanted == ideal - a.exp
      most   == IF set.clamp THEN Etop(set) - a.exp ELSE wanted
  IN larger(0, smaller(smaller(wanted, most), short.exp - a.exp))

Trim ==
  /\ phase = "trim"
  /\ \E short \in {decTrim(a)} :
     \E n \in {IF IsExact(short) THEN ToDrop(short) ELSE 0} :
       Answer(Number(FALSE, a.coeff \div 10^n, a.exp + n))

Next == SquareRootSpecial \/ Estimate \/ Refine \/ Reduce \/ Correct \/ Trim

\* The function runs on to its end.  Fairness asks for a step by what it does to
\* phase and p: Next has one step from each state but the last, and it is of this
\* kind if it changes either of them.
Phases == {"refine", "correct", "trim", "done"}
Advance ==
  \/ phase = "refine" /\ p < maxp /\ p' = NextPrecision /\ phase' = phase
  \/ /\ phase # "done" /\ ~(phase = "refine" /\ p < maxp)
     /\ phase' \in Phases \ {phase} /\ p' \in {p, 3}

Spec == Init /\ [][Next]_vars /\ WF_<<phase, p>>(Advance)

-----------------------------------------------------------------------------

\* The square of c units of 10^e is compared with x; e is not much less than half
\* the exponent of x.
SquareAgainst(c, e, x) ==
  Sign(IF 2 * e <= x.exp THEN c * c - x.coeff * 10^(x.exp - 2 * e)
       ELSE c * c * 10^(2 * e - x.exp) - x.coeff)

Positive == ~Special(rhs) /\ rhs.coeff # 0 /\ ~rhs.neg
TooLarge == rhs.exp + Digits(rhs) - 1 > 2 * set.emax + 1

\* Before the correction the approximation is within a unit of its last place of
\* the root, whichever way the digits fell (the comment in decNumberSquareRoot
\* "within 1 ulp of the properly rounded square root").
WithinOneUlp ==
  phase = "correct" =>
    /\ SquareAgainst(a.coeff - 1, a.exp, f) < 0
    /\ SquareAgainst(a.coeff + 1, a.exp, f) > 0

\* The result is the root rounded to the nearest number: it lies between the half
\* units around it, also where the approximation was rounded up to 1; and it is
\* infinite if the operand, from a wider context, has a root beyond the format
\* (the correction of decNumberSquareRoot).
CorrectlyRounded ==
  result # None /\ Positive =>
    /\ ~result.neg /\ (Special(result) <=> TooLarge)
    /\ ~TooLarge => LET exact == SquareAgainst(result.coeff, result.exp, rhs) = 0
       IN exact \/ /\ Digits(result) = DECPMAX
                   /\ SquareAgainst(10 * result.coeff - 5, result.exp - 1, rhs) < 0
                   /\ SquareAgainst(10 * result.coeff + 5, result.exp - 1, rhs) > 0

\* A root that is exact has half the exponent of its square, rounded down, or the
\* greatest a full coefficient may have, and so has the root of a zero, with its
\* sign (ideal and decTrim).
IdealExponent ==
  result # None /\ ~Special(rhs) /\ ~Special(result) =>
    /\ Positive /\ SquareAgainst(result.coeff, result.exp, rhs) = 0 =>
         result.exp = smaller(ideal, Etop(set))
    /\ rhs.coeff = 0 => result = Number(rhs.neg, 0, ideal)

\* The loop ends, since its precision grows from three digits on (the for loop of
\* decNumberSquareRoot).
Ends == <>(result # None)
=============================================================================
