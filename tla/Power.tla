-------------------------------- MODULE Power --------------------------------
(***************************************************************************)
(* decNumberPower of decNumber.c: lhs to the power of rhs.  An integer     *)
(* power is multiplied together bit by bit, from the top, on the lhs or,   *)
(* for a negative power, on its reciprocal; any other power is the         *)
(* exponential of a logarithm.                                             *)
(*                                                                         *)
(* One step of the model is one bit of the loop.  Of the status flags the  *)
(* loop looks at, Overflow is set with an infinity, and Underflow stops it *)
(* with a zero only.                                                       *)
(***************************************************************************)
EXTENDS DecNumber

CONSTANTS
  Pairs,            \* <<lhs, rhs>> to be raised
  NBits,            \* bits of n (32)
  Ln(_, _), Exp(_, _)     \* decLnOp and decExpOp: of a number, with so many digits

VARIABLES lhs, rhs, phase, x, dac, n, i, seenbit, overflow, result
vars == <<lhs, rhs, phase, x, dac, n, i, seenbit, overflow, result>>

None == [kind |-> "none"]
One  == Number(FALSE, 1, 0)

set == [digits |-> DECPMAX, emax |-> DECEMAX, emin |-> DECEMIN, round |-> "half_even", clamp |-> TRUE]

\* The working context of an integer power.
aset == [set EXCEPT !.digits = @ + Digits(rhs) + rhs.exp + 2]

\* 1.000 to all the digits.
PaddedOne == Number(FALSE, 10^(set.digits - 1), 1 - set.digits)

value    == decGetInt(rhs)
isoddint == (value.kind = "int" /\ value.n % 2 = 1) \/ (value.kind = "big" /\ value.odd)
useint   == value.kind = "int"
negative == lhs.neg /\ isoddint           \* the sign of the result (bits)

Init ==
  /\ \E pair \in Pairs : lhs = pair[1] /\ rhs = pair[2]
  /\ phase = "start" /\ x = lhs /\ dac = One /\ n = 0 /\ i = 1
  /\ seenbit = FALSE /\ overflow = FALSE /\ result = None

Answer(r) ==
  phase' = "done" /\ result' = r /\ UNCHANGED <<lhs, rhs, x, dac, n, i, seenbit, overflow>>

-----------------------------------------------------------------------------

\* A power that is infinite.
InfinitePower ==
  LET order == decCompare(lhs, One)
  IN IF lhs.neg /\ ~IsZero(lhs) THEN decInvalid
     ELSE IF order = 0 THEN PaddedOne
     ELSE IF (order < 0) = rhs.neg THEN Infinity(FALSE) ELSE Number(FALSE, 0, 0)

\* Powers of an infinity, and of a zero.
PowerOfInfinity ==
  IF rhs.coeff = 0 THEN One
  ELSE IF value = BADINT /\ lhs.neg THEN decInvalid
  ELSE IF rhs.neg THEN Number(negative, 0, 0) ELSE Infinity(negative)
PowerOfZero ==
  IF rhs.coeff = 0 THEN decInvalid
  ELSE IF rhs.neg THEN Infinity(negative) ELSE Number(negative, 0, 0)

\* exp(ln(lhs) * rhs); a power of 1 is exact if it is an integer.
DecimalPower ==
  LET digits  == larger(Digits(lhs), set.digits) + 10
      working == [set EXCEPT !.digits = digits, !.emax = 10 * DECEMAX, !.emin = -10 * DECEMAX,
                             !.clamp = FALSE]
      log     == Ln(lhs, digits)
      power   == IF ~IsZero(log) THEN Exp(decMultiplyOp(log, rhs, working), digits)
                 ELSE IF value = BADINT THEN PaddedOne ELSE One
  IN IF lhs.neg THEN decInvalid
     ELSE IF IsInf(power) THEN power ELSE Fitted(power, set, 0)

Special2 == Special(lhs) \/ Special(rhs)

PowerSpecial ==
  /\ phase = "start"
  /\ \/ (IsNaN(lhs) \/ IsNaN(rhs)) /\ Answer(decNaNs(lhs, rhs))
     \/ ~IsNaN(lhs) /\ IsInf(rhs) /\ Answer(InfinitePower)
     \/ ~Special(rhs) /\ IsInf(lhs) /\ Answer(PowerOfInfinity)
     \/ ~Special2 /\ IsZero(lhs) /\ Answer(PowerOfZero)
     \/ ~Special2 /\ ~IsZero(lhs) /\ ~useint /\ Answer(DecimalPower)
     \/ ~Special2 /\ ~IsZero(lhs) /\ useint /\ value = IntOf(0) /\ Answer(One)

\* The reciprocal is taken at once, and may overflow.
BeginLoop ==
  /\ phase = "start" /\ ~Special2 /\ ~IsZero(lhs) /\ useint /\ value # IntOf(0)
  /\ n' = IF value.n < 0 THEN -value.n ELSE value.n
  /\ \E inverse \in {IF rhs.neg THEN decDivideOp(One, lhs, aset) ELSE lhs} :
       x' = inverse /\ overflow' = IsInf(inverse)
  /\ phase' = "loop"
  /\ UNCHANGED <<lhs, rhs, dac, i, seenbit, result>>

Stopped == overflow \/ IsZero(dac)

\* The next bit of n, in the top bit of a word.
Shifted == (2 * n) % 2^NBits
TopBit  == Shifted >= 2^(NBits - 1)

Seen     == seenbit \/ TopBit

NextBit ==
  /\ phase = "loop" /\ ~Stopped
  /\ n' = Shifted
  /\ seenbit' = (seenbit \/ TopBit)
  /\ \E product \in {IF TopBit THEN decMultiplyOp(dac, x, aset) ELSE dac} :
     \E square \in {IF i < NBits - 1 /\ Seen THEN decMultiplyOp(product, product, aset) ELSE product} :
       dac' = square /\ overflow' = (IsInf(product) \/ IsInf(square))
  /\ IF i = NBits - 1 THEN phase' = "round" /\ i' = i ELSE phase' = "loop" /\ i' = i + 1
  /\ UNCHANGED <<lhs, rhs, x, result>>

BreakLoop ==
  /\ phase = "loop" /\ Stopped
  /\ phase' = "round"
  /\ UNCHANGED <<lhs, rhs, x, dac, n, i, seenbit, overflow, result>>

\* After the loop was left early the sign may be any; it is put right.
Finished ==
  IF Stopped
  THEN IF IsInf(dac) THEN Infinity(negative)
       ELSE decFinish([x |-> Signed(dac, negative), residue |-> 0], set)
  ELSE Fitted(dac, set, 0)

Round == phase = "round" /\ \E r \in {Finished} : Answer(r)

Next == PowerSpecial \/ BeginLoop \/ NextBit \/ BreakLoop \/ Round
Spec == Init /\ [][Next]_vars

-----------------------------------------------------------------------------

Integral == ~Special2 /\ useint /\ lhs.coeff # 0 /\ rhs.coeff # 0
Magnitude(k) == IF k < 0 THEN -k ELSE k

\* In the loop the accumulator is lhs, or its reciprocal, to the power of the bits
\* taken so far, squared for the bit to come: exactly, while its digits have room
\* in the working digits and its exponent in the range (the loop of
\* decNumberPower, whose comment reports a compiler that got it wrong).
TakenSoFar ==
  LET m == IF useint THEN Magnitude(value.n) ELSE 0
      taken == (m \div 2^(NBits - i)) * 2
  IN phase = "loop" /\ ~IsInf(x) /\ x.coeff < 10 /\ x.coeff^taken < 10^aset.digits
       /\ x.exp * taken \in DECEMIN..(DECEMAX - aset.digits + 1) =>
     dac = Number(x.neg /\ taken % 2 = 1, x.coeff^taken, x.exp * taken)

\* lhs^k is c units of 10^e, or between that and one unit more.
Exact(k) ==
  LET m == Magnitude(k)
      p == lhs.coeff^m
      c == 10^smaller(Length(p) + DECPMAX + 1, 9)
  IN IF k > 0 THEN [c |-> p, e |-> lhs.exp * m, more |-> FALSE]
     ELSE [c |-> c \div p, e |-> -smaller(Length(p) + DECPMAX + 1, 9) - lhs.exp * m,
           more |-> c % p # 0]

\* a * 10^s, cut off.
Scaled(a, s) == IF s >= 0 THEN a * 10^s ELSE IF -s > 9 THEN 0 ELSE a \div 10^(-s)

\* The reciprocal overflowed.
LostReciprocal == rhs.neg /\ IsInf(decDivideOp(One, lhs, aset))

\* An integer power is within one unit of the last place of the exact one, and it
\* is infinite only beyond the greatest number (decNumberPower, "may be up to 1
\* ulp in error").
PowerRounded ==
  result # None /\ Integral /\ ~LostReciprocal =>
    LET ex  == Exact(value.n)
        top == ex.e + Length(ex.c) - 1
        ulp == larger(top - DECPMAX + 1, Etiny(set))
        r   == result
        c   == Scaled(ex.c, ex.e - ulp)
    IN IF Special(r) THEN IsInf(r) /\ top >= DECEMAX
       ELSE LET got == Scaled(r.coeff, r.exp - ulp)
            IN top <= DECEMAX + 1 /\ got \in {c, c + 1}

\* Every power that is not invalid is negative for an odd power of a negative
\* number, and for no other: also at the ends, where the loop stops in the middle
\* of the bits, and for powers too large for a word (isoddint and bits).
SignOfPower == result # None /\ ~IsNaN(result) => result.neg = negative
=============================================================================
