---------------------------- MODULE MCDecimal ----------------------------
(***************************************************************************)
(* The operations of DecFloat, DecArith and DecNumber for numbers of two   *)
(* digits, each called once on many operands; what is rounded has up to    *)
(* four digits, and exponents lie around and beyond the ends of the        *)
(* format.  The reference of decBasic.c is exact arithmetic in integers,   *)
(* rounded by comparing what is dropped with one unit of the last place.   *)
(* decNumber.c, in the context of the calculator, has the other library as *)
(* its reference: decBasic.c rounds once from an exact result, what is     *)
(* here rounds with a residue, and both have to agree, since the           *)
(* calculator moves numbers between the two.                               *)
(*                                                                         *)
(* Integers are read from numbers of nine digits; these calls are in other *)
(* and answer.                                                             *)
(***************************************************************************)
EXTENDS DecNumber

CONSTANTS
  Operations,       \* the operations that are called
  Rounds,           \* rounding modes
  Coefficients,     \* of operands
  Coefficients2,    \* of the second operand, where it is not one of a sum
  Divisors,         \* of dividends and divisors
  Factors,          \* of the three operands of FMA
  LongCoefficients, \* that are rounded, and their exponents
  LongExponents,
  TextDigits,       \* the digits of the texts that are read
  MaxTextLength     \* their greatest length

VARIABLES call, result
vars == <<call, result>>

None == [kind |-> "none"]

Exponents == DECQTINY..DECQMAX
Specials == {Infinity(FALSE), Infinity(TRUE), NaN, [NaN EXCEPT !.kind = "snan", !.neg = TRUE]}
FiniteNumbers(coefficients) == [kind : {"finite"}, neg : BOOLEAN, coeff : coefficients, exp : Exponents]
Numbers(coefficients) == FiniteNumbers(coefficients) \cup Specials
AllNumbers == FiniteNumbers(0..10^DECPMAX - 1) \cup (Specials \ {[NaN EXCEPT !.kind = "snan", !.neg = TRUE]})

SumOps    == {"add", "subtract", "multiply"}
DivideOps == {"divide", "divideint"} \cup Remainders
OrderOps  == {"compare", "max", "maxmag", "min", "minmag", "nexttoward"}
DigitOps  == {"shift", "rotate", "and"}
RoundOps  == {"quantize", "scaleb"}
OneOps    == {"next", "reduce", "integral", "int32", "uint32"}

\* The calls of one of the operations ops, which call names, on these operands.
Called(ops, xs, ys, rounds) == [op : ops \cap {call.op}, x : xs, y : ys, round : rounds]

\* The texts that are read: digits, how many of them stand before the point, and
\* an exponent.
Texts ==
  {t \in [digits : UNION {[1..n -> TextDigits] : n \in 1..MaxTextLength}, point : 0..MaxTextLength,
          e : {-DECEMAX * 2, -1, 0, 2, 10^DECEMAXD}] : t.point <= Len(t.digits)}

\* An operation is chosen, then its operands.
Init == call \in [op : Operations] /\ result = None

Return(c, value) == call' = c /\ result' = value

Add ==
  \E c \in Called({"add"}, Numbers(Coefficients), Numbers(Coefficients), Rounds) :
    Return(c, decFloatAdd(c.x, c.y, c.round))
Subtract ==
  \E c \in Called({"subtract"}, Numbers(Coefficients), Numbers(Coefficients), Rounds) :
    Return(c, decFloatSubtract(c.x, c.y, c.round))
Multiply ==
  \E c \in Called({"multiply"}, Numbers(Coefficients), Numbers(Coefficients), Rounds) :
    Return(c, decFloatMultiply(c.x, c.y, c.round))
FMA ==
  \E c \in [op : {"fma"} \cap {call.op}, x : Numbers(Factors),
            y : {n \in Numbers(Factors) : ~n.neg}, z : Numbers(Factors), round : {"half_even", "floor"}] :
    Return(c, decFloatFMA(c.x, c.y, c.z, c.round))
Divide ==
  \E c \in Called(DivideOps, Numbers(Divisors), Numbers(Divisors), {"half_even", "floor", "05up"}) :
    Return(c, decDivide(c.x, c.y, c.round, c.op))

\* What is chosen of two, and the step from one to the other.
Chosen(c) ==
  CASE c.op = "max"    -> decFloatMax(c.x, c.y)
    [] c.op = "maxmag" -> decFloatMaxMag(c.x, c.y)
    [] c.op = "min"    -> decFloatMin(c.x, c.y)
    [] c.op = "minmag" -> decFloatMinMag(c.x, c.y)
    [] c.op = "nexttoward" -> decFloatNextToward(c.x, c.y)
Choose ==
  \E c \in Called(OrderOps \ {"compare"}, Numbers(Coefficients), Numbers(Coefficients2), {"down"}) :
    Return(c, [kind |-> "result", value |-> Chosen(c)])
Compare ==
  \E c \in Called({"compare"}, Numbers(Coefficients), Numbers(Coefficients2), {"down"}) :
    Return(c, [kind |-> "order", value |-> decFloatCompare(c.x, c.y),
               total |-> decFloatCompareTotal(c.x, c.y), mag |-> decFloatCompareTotalMag(c.x, c.y)])
Shift ==
  \E c \in Called({"shift"}, Numbers(Coefficients), Numbers(Coefficients2), {"down"}) :
    Return(c, [kind |-> "result", value |-> decFloatShift(c.x, c.y, c.round)])
Rotate ==
  \E c \in Called({"rotate"}, Numbers(Coefficients), Numbers(Coefficients2), {"down"}) :
    Return(c, [kind |-> "result", value |-> decFloatRotate(c.x, c.y, c.round)])
And ==
  \E c \in Called({"and"}, Numbers(Coefficients), Numbers(Coefficients2), {"down"}) :
    Return(c, [kind |-> "logical", and |-> decFloatAnd(c.x, c.y), or |-> decFloatOr(c.x, c.y),
               xor |-> decFloatXor(c.x, c.y), invert |-> decFloatInvert(c.x)])
Quantize ==
  \E c \in Called({"quantize"}, Numbers(Coefficients), Numbers(Coefficients2), Rounds) :
    Return(c, [kind |-> "result", value |-> decFloatQuantize(c.x, c.y, c.round)])
ScaleB ==
  \E c \in Called({"scaleb"}, Numbers(Coefficients), Numbers(Coefficients2), Rounds) :
    Return(c, [kind |-> "result", value |-> decFloatScaleB(c.x, c.y, c.round)])
NextPlus ==
  \E c \in Called({"next"}, Numbers(0..10^DECPMAX - 1), {Zero}, {"down"}) :
    Return(c, [kind |-> "next", up |-> decFloatNextPlus(c.x), down |-> decFloatNextMinus(c.x)])
Reduce ==
  \E c \in Called({"reduce"}, Numbers(0..10^DECPMAX - 1), {Zero}, Rounds) :
    Return(c, [kind |-> "result", value |-> decFloatReduce(c.x, c.round)])
Integral ==
  \E c \in Called({"integral"}, Numbers(0..10^DECPMAX - 1), {Zero}, Rounds) :
    Return(c, [kind |-> "result", value |-> decToIntegral(c.x, c.round)])
Int32 ==
  \E c \in Called({"int32", "uint32"}, Numbers(0..10^DECPMAX - 1), {Zero}, Rounds) :
    Return(c, [kind |-> "result", value |-> decToInt32(c.x, c.round, c.op = "uint32")])

Finalize ==
  \E c \in [op : {"finalize"} \cap {call.op}, neg : BOOLEAN, coeff : LongCoefficients,
            exp : LongExponents, round : RoundingModes] :
    Return(c, decFinalize(c.neg, c.coeff, c.exp, c.round))
PrintAndRead ==
  \E c \in [op : {"text"} \cap {call.op}, x : AllNumbers, round : {"half_even", "down", "up"}] :
    Return(c, decFloatFromString(decFloatToString(c.x), c.round))
Read ==
  \E c \in [op : {"read"} \cap {call.op}, text : Texts, round : {"half_even", "down", "up"}] :
    Return(c, decFloatFromString(NumberText(FALSE, c.text.digits, c.text.point, c.text.e), c.round))

Next ==
  /\ result = None
  /\ \/ Add \/ Subtract \/ Multiply \/ FMA \/ Divide
     \/ Choose \/ Compare \/ Shift \/ Rotate \/ And
     \/ Quantize \/ ScaleB \/ NextPlus \/ Reduce \/ Integral \/ Int32
     \/ Finalize \/ PrintAndRead \/ Read

Spec == Init /\ [][Next]_vars

-----------------------------------------------------------------------------
(* A number whose last digit stands at 10^exp is rounded at the lowest      *)
(* place the format has for it.                                             *)

Place(coeff, exp) == larger(exp, larger(exp + Length(coeff) - DECPMAX, DECQTINY))

\* The same number: equal once shifted to the lower exponent.
SameNumber(c1, e1, c2, e2) ==
  IF c1 = 0 \/ c2 = 0 THEN c1 = c2
  ELSE /\ e1 + Length(c1) = e2 + Length(c2)
       /\ IF e1 >= e2 THEN c1 * 10^(e1 - e2) = c2 ELSE c1 = c2 * 10^(e2 - e1)

\* Whether the part below the place takes the magnitude to the next multiple:
\* twice is compared with one unit of the place.
GoesUp(round, neg, below, twice, last) ==
  CASE round = "half_even" -> twice = "more" \/ (twice = "equal" /\ last % 2 = 1)
    [] round = "half_up"   -> twice \in {"more", "equal"}
    [] round = "half_down" -> twice = "more"
    [] round = "down"      -> FALSE
    [] round = "up"        -> below
    [] round = "ceiling"   -> below /\ ~neg
    [] round = "floor"     -> below /\ neg
    [] round = "05up"      -> below /\ last \in {0, 5}

\* [a place more than nine above the last digit is more than twice the number
\* however far it is]
ExactlyRounded(neg, coeff, exp, round) ==
  LET place == Place(coeff, exp)
      unit  == 10^smaller(place - exp, 9)
      rest  == coeff % unit
      twice == IF 2 * rest > unit THEN "more" ELSE IF 2 * rest = unit THEN "equal" ELSE "less"
  IN [coeff |-> coeff \div unit +
                (IF GoesUp(round, neg, rest # 0, twice, (coeff \div unit) % 10) THEN 1 ELSE 0),
      exp |-> place]

\* x is the number coeff * 10^exp rounded once: infinite, or the greatest number,
\* exactly when the rounded value is out of range, and with this exponent
\* whenever it can have it.
RoundedOnce(x, neg, coeff, exp, round) ==
  LET r   == ExactlyRounded(neg, coeff, exp, round)
      big == r.coeff # 0 /\ r.exp + Length(r.coeff) - 1 > DECEMAX
  IN /\ x.neg = neg
     /\ ~big => /\ ~Special(x)
                /\ SameNumber(x.coeff, x.exp, r.coeff, r.exp)
     /\ big => x = IF round \in {"down", "05up", IF neg THEN "ceiling" ELSE "floor"}
                   THEN Finite(neg, 10^DECPMAX - 1, DECQMAX)
                   ELSE Infinity(neg)
     /\ Length(coeff) <= DECPMAX /\ exp \in DECQTINY..DECQMAX => x = Finite(neg, coeff, exp)

-----------------------------------------------------------------------------
(* Properties: rounding, reading and printing                               *)

Done(ops) == result # None /\ call.op \in ops

\* A result is the argument rounded once, exactly, in its mode, at the limits
\* of subnormal and huge numbers too; it is infinite, or the greatest number,
\* exactly when the rounded value is out of range; and it keeps the exponent
\* whenever it can (decFinalize: "adjust and store a final result").
CorrectlyRounded ==
  Done({"finalize"}) =>
    RoundedOnce(result, call.neg, call.coeff, call.exp, call.round)

\* Every result fits the format.
FitsFormat ==
  Done({"finalize", "text", "read", "fma"} \cup SumOps \cup DivideOps) /\ ~Special(result) =>
    result.coeff \in 0..10^DECPMAX - 1 /\ result.exp \in DECQTINY..DECQMAX

\* Reading what was printed gives the same number back, coefficient and
\* exponent included, in every rounding mode (decFloatToString).
PrintedReadsBack == Done({"text"}) => result = call.x

\* A text of more digits than the buffer of decFloatFromString holds is rounded
\* as if all of them had been kept.
LongTextRounded ==
  Done({"read"}) =>
    result = decFinalize(FALSE, NumberOf(call.text.digits),
                         ReadExponent(call.text.e) - (Len(call.text.digits) - call.text.point), call.round)

-----------------------------------------------------------------------------
(* Arithmetic                                                               *)

FiniteOperands ==
  /\ ~Special(call.x) /\ ~Special(call.y)
  /\ call.op = "fma" => ~Special(call.z)

\* c * 10^exp as a signed integer, counted in units of 10^low.
Scaled(neg, c, exp, low) == (IF neg THEN -1 ELSE 1) * c * 10^(exp - low)
Abs(n) == IF n < 0 THEN -n ELSE n

\* The exact sum of two numbers, rounded once; a sum of zero is negative when
\* both are, and otherwise only if rounding goes towards -Infinity.
RoundedSum(r, x, y, round) ==
  LET low == smaller(x.exp, y.exp)
      sum == Scaled(x.neg, x.coeff, x.exp, low) + Scaled(y.neg, y.coeff, y.exp, low)
      neg == IF sum # 0 THEN sum < 0 ELSE IF x.neg = y.neg THEN x.neg ELSE round = "floor"
  IN RoundedOnce(r, neg, Abs(sum), low, round)

\* A sum is exact and rounded once, however far apart the numbers are: the gap
\* that is clamped and the sticky digit behind it change no result
\* (decFloatAdd, decFloatSubtract).
SumExact ==
  Done({"add", "subtract"}) /\ FiniteOperands =>
    RoundedSum(result, call.x, IF call.op = "add" THEN call.y ELSE decFloatCopyNegate(call.y),
               call.round)

\* A product with an addition is rounded once: the number far below that is cut
\* to one digit rounds the result as all of its digits would (decFloatFMA).
FMAExact ==
  Done({"fma"}) /\ FiniteOperands =>
    RoundedSum(result, decFiniteMultiply(call.x, call.y), call.z, call.round)

\* The fused operation with nothing to add is the product (decFloatMultiply).
ProductExact ==
  Done({"multiply"}) =>
    /\ FiniteOperands => RoundedOnce(result, call.x.neg # call.y.neg, call.x.coeff * call.y.coeff,
                                     call.x.exp + call.y.exp, call.round)
    /\ ~FiniteOperands =>
         result = decFloatFMA(call.x, call.y, Finite(call.x.neg # call.y.neg, 0, DECQTINY), call.round)

\* Digits of a quotient that are certainly enough, with one more for the rest.
QuotientDigits == DECPMAX + 3

\* A quotient is rounded once, from all of its digits; an exact one has the
\* difference of the exponents or, where that cannot be, no zero at its end that
\* takes it further away (decDivide).
QuotientExact ==
  Done({"divide"}) /\ FiniteOperands /\ call.x.coeff # 0 /\ call.y.coeff # 0 =>
    LET c     == call.x.coeff * 10^QuotientDigits
        q     == c \div call.y.coeff
        ideal == call.x.exp - call.y.exp
    IN /\ RoundedOnce(result, call.x.neg # call.y.neg,
                      q * 10 + (IF c % call.y.coeff = 0 THEN 0 ELSE 1),
                      ideal - QuotientDigits - 1, call.round)
       /\ /\ c % call.y.coeff = 0 /\ ~Special(result)
          /\ SameNumber(result.coeff, result.exp, q, ideal - QuotientDigits)
          /\ DECQTINY < result.exp /\ result.exp < smaller(ideal, DECQMAX)
          => result.coeff % 10 # 0

\* x = n * y + r with r smaller than y and n an integer that fits the format:
\* the remainder has the sign of x, the nearest one is at most half of y, with n
\* even when it is just that.  There is no result exactly when n has more than
\* DECPMAX digits (decDivide).
RemainderLaw ==
  Done(Remainders) /\ FiniteOperands /\ call.y.coeff # 0 =>
    LET low  == smaller(call.x.exp, call.y.exp)
        x    == Scaled(call.x.neg, call.x.coeff, call.x.exp, low)
        y    == Scaled(FALSE, call.y.coeff, call.y.exp, low)
        n    == Abs(x) \div y
    IN /\ IsNaN(result) <=> n >= 10^DECPMAX
       /\ ~IsNaN(result) =>
            LET r == Scaled(result.neg, result.coeff, result.exp, low)
            IN /\ ~Special(result) /\ result.exp >= low
               /\ (x - r) % y = 0
               /\ r = 0 => result.neg = call.x.neg
               /\ call.op = "remainder" => Abs(r) < y /\ (r # 0 => (r < 0) = call.x.neg)
               /\ call.op = "remnear" => /\ 2 * Abs(r) <= y
                                         /\ 2 * Abs(r) = y => ((x - r) \div y) % 2 = 0

\* The integer quotient is what is left of the quotient without its fraction.
IntegerQuotientExact ==
  Done({"divideint"}) /\ FiniteOperands /\ call.y.coeff # 0 =>
    LET low == smaller(call.x.exp, call.y.exp)
        n   == Scaled(FALSE, call.x.coeff, call.x.exp, low) \div
               Scaled(FALSE, call.y.coeff, call.y.exp, low)
    IN IF n >= 10^DECPMAX THEN IsNaN(result)
       ELSE result = Finite(call.x.neg # call.y.neg, n, 0)

-----------------------------------------------------------------------------
(* Order, exponents, integers and digits                                    *)

\* The value of a number in units of the least exponent; an infinite one lies
\* beyond all of them.
Beyond == 10^(DECPMAX + DECQMAX - DECQTINY + 1)
Value(x) == (IF x.neg THEN -1 ELSE 1) *
            (IF IsInf(x) THEN Beyond ELSE x.coeff * 10^(x.exp - DECQTINY))
Mag(x)   == Value(decFloatCopyAbs(x))

\* The comparison is by value, and the total order refines it: it is equal for
\* the same representation only, and turns round with its operands
\* (decNumCompare, decFloatCompareTotal, decFloatCompareTotalMag).
OrderByValue ==
  Done({"compare"}) =>
    LET x == call.x  y == call.y
    IN /\ ~IsNaN(x) /\ ~IsNaN(y) =>
            /\ result.value = Ordering(Value(x) - Value(y))
            /\ Value(x) # Value(y) => result.total = result.value
            /\ Mag(x) # Mag(y) => result.mag = Ordering(Mag(x) - Mag(y))
       /\ result.total = Zero <=> x = y
       /\ decFloatCompareTotal(y, x) = decFloatMinus(result.total)

\* The greater or lesser operand is chosen, by value or by magnitude, and a
\* number before a quiet NaN (decFloatMax, Min, MaxMag, MinMag).
ChosenByValue ==
  Done({"max", "maxmag", "min", "minmag"}) =>
    LET x == call.x  y == call.y  r == result.value
    IN IF IsNaN(x) \/ IsNaN(y)
       THEN IsNaN(r) <=> (IsNaN(x) /\ IsNaN(y)) \/ x.kind = "snan" \/ y.kind = "snan"
       ELSE /\ r \in {x, y}
            /\ call.op \in {"max", "maxmag"} /\ (call.op = "max" \/ Mag(x) = Mag(y)) =>
                 Value(r) >= Value(x) /\ Value(r) >= Value(y)
            /\ call.op \in {"min", "minmag"} /\ (call.op = "min" \/ Mag(x) = Mag(y)) =>
                 Value(r) <= Value(x) /\ Value(r) <= Value(y)
            /\ call.op = "maxmag" => Mag(r) >= Mag(x) /\ Mag(r) >= Mag(y)
            /\ call.op = "minmag" => Mag(r) <= Mag(x) /\ Mag(r) <= Mag(y)

\* The values of all finite numbers.
Values == {Value(n) : n \in FiniteNumbers(0..10^DECPMAX - 1)}

\* The next number up or down is a number of the format with none in between,
\* across zero, among subnormals and at infinity; a step towards a number is
\* the same step (decFloatNextPlus, NextMinus, NextToward).
NextIsNeighbour ==
  /\ Done({"next"}) /\ ~IsNaN(call.x) =>
       LET x == Value(call.x)  up == Value(result.up)  down == Value(result.down)
       IN /\ ~\E n \in Values : (x < n /\ n < up) \/ (down < n /\ n < x)
          /\ IF IsInf(call.x) /\ ~call.x.neg THEN result.up = call.x ELSE x < up
          /\ IF IsInf(call.x) /\ call.x.neg THEN result.down = call.x ELSE down < x
  /\ Done({"nexttoward"}) /\ ~IsNaN(call.x) /\ ~IsNaN(call.y) =>
       LET x == Value(call.x)  y == Value(call.y)
           there == CASE x < y -> decFloatNextPlus(call.x)
                      [] x > y -> decFloatNextMinus(call.x)
                      [] x = y -> decFloatCopySign(call.x, call.y)
       IN Value(result.value) = Value(there) /\ result.value.neg = there.neg

\* coeff * 10^exp rounded at the place 10^place, a place where it may have no
\* digit at all.
RoundedAt(neg, coeff, exp, place, round) ==
  IF place <= exp THEN coeff * 10^(exp - place)
  ELSE LET unit == 10^(place - exp)
           rest == coeff % unit
           twice == IF 2 * rest > unit THEN "more" ELSE IF 2 * rest = unit THEN "equal" ELSE "less"
       IN coeff \div unit +
          (IF GoesUp(round, neg, rest # 0, twice, (coeff \div unit) % 10) THEN 1 ELSE 0)

\* Quantize has the exponent asked for and the value rounded there, and fails
\* only if that has more digits than the format; ScaleB scales and rounds once;
\* Reduce keeps the value (decFloatQuantize, ScaleB, Reduce).
ExponentChanged ==
  Done({"quantize", "scaleb", "reduce"}) /\ ~Special(call.x) /\ ~Special(call.y) =>
    LET x == call.x  y == call.y  r == result.value
    IN /\ call.op = "quantize" =>
            LET c == RoundedAt(x.neg, x.coeff, x.exp, y.exp, call.round)
            IN r = IF c < 10^DECPMAX THEN Finite(x.neg, c, y.exp) ELSE NaN
       /\ call.op = "scaleb" =>
            LET n == IF y.neg THEN -y.coeff ELSE y.coeff
            IN IF y.exp # 0 \/ y.coeff > 2 * (DECEMAX + DECPMAX) THEN IsNaN(r)
               ELSE RoundedOnce(r, x.neg, x.coeff, x.exp + n, call.round)
       /\ call.op = "reduce" =>
            /\ Value(r) = Value(x) /\ r.neg = x.neg
            /\ r.exp < DECQMAX /\ r.coeff # 0 => r.coeff % 10 # 0
            /\ r.coeff = 0 => r.exp = 0

\* A number becomes the integer it rounds to, and 0 when that is out of the
\* range of the type; -(INT32_MAX + 1) is in range (decToIntegral, decToInt32).
IntegersRounded ==
  Done({"integral", "int32", "uint32"}) /\ ~Special(call.x) =>
    LET x == call.x
        c == RoundedAt(x.neg, x.coeff, x.exp, 0, call.round)
        n == IF x.neg THEN -c ELSE c
    IN /\ call.op = "integral" =>
            /\ ~Special(result.value) /\ result.value.exp = larger(x.exp, 0)
            /\ result.value.coeff * 10^result.value.exp = c /\ result.value.neg = x.neg
       /\ call.op = "int32" /\ c < 10^DECPMAX =>
            result.value = IF n \in -INT32_MAX - 1..INT32_MAX THEN n ELSE 0
       /\ call.op = "uint32" /\ c < 10^DECPMAX =>
            result.value = IF n \in 0..2 * INT32_MAX + 1 THEN n ELSE 0

\* Rotating loses no digit: the same rotation back restores the number; a shift
\* drops digits at one end and brings in zeros at the other.  The logical
\* operations are those on sets of ones (decFloatRotate, Shift, And, Or, Xor,
\* Invert).
DigitsMoved ==
  Done(DigitOps) /\ ~Special(call.x) /\ ~Special(call.y) =>
    LET x == call.x  y == call.y
        count == y.exp = 0 /\ y.coeff <= DECPMAX
    IN /\ call.op = "rotate" =>
            IF count THEN decFloatRotate(result.value, decFloatCopyNegate(y), "down") = x
            ELSE IsNaN(result.value)
       /\ call.op = "rotate" /\ count /\ ~y.neg /\ y.coeff < DECPMAX =>
            \A i \in Places : Digit(result.value.coeff, (i + y.coeff) % DECPMAX) = Digit(x.coeff, i)
       /\ call.op = "shift" =>
            IF ~count THEN IsNaN(result.value)
            ELSE /\ result.value.neg = x.neg
                 /\ \A i \in Places :
                      LET from == i - (IF y.neg THEN -y.coeff ELSE y.coeff)
                      IN Digit(result.value.coeff, i) = IF from \in Places THEN Digit(x.coeff, from) ELSE 0
       /\ call.op = "and" /\ decFloatIsLogical(x) =>
            /\ result.invert.coeff + x.coeff = FromOnes(Places).coeff
            /\ decFloatIsLogical(y) => /\ result.and.coeff + result.or.coeff = x.coeff + y.coeff
                                       /\ result.or.coeff - result.and.coeff = result.xor.coeff
                                       /\ decFloatXor(result.xor, y) = x

-----------------------------------------------------------------------------
(* decNumber.c, and integers                                                *)

VARIABLES other, answer

-----------------------------------------------------------------------------
(* The operands                                                             *)

MCOperations ==
  {"add", "subtract", "multiply", "fma", "divide", "divideint", "remainder", "remnear",
   "compare", "max", "maxmag", "min", "minmag", "nexttoward", "shift", "rotate", "and",
   "quantize", "scaleb", "next", "reduce", "integral", "int32", "uint32", "finalize", "text", "read"}
MCNumberOperations ==
  {"decAdd", "decSubtract", "decMultiply", "decDivide", "decQuantize", "decCompare", "decMinus",
   "decIntegral"}

MCRounds        == {"half_even", "half_down", "up", "floor", "05up"}
MCCoefficients  == {0, 1, 5, 10, 49, 90, 95, 99}
MCCoefficients2 == {0, 1, 2, 9, 10, 11, 95}
MCDivisors      == {0, 1, 2, 3, 7, 25, 50, 99}
MCFactors       == {0, 1, 5, 9}
MCLongCoefficients ==
  {a * 1000 + b * 100 + c * 10 + d :
     a \in {0, 1, 9}, b \in {0, 4, 5, 9}, c \in {0, 4, 5, 9}, d \in {0, 1, 4, 5, 6, 9}}
MCLongExponents == -6..4
MCTextDigits    == {0, 1, 5, 9}

NumberRounds         == {"half_even", "half_up", "half_down", "ceiling", "floor", "05up"}
NumberCoefficients   == {0, 1, 5, 9, 10, 15, 50, 95, 99}
NumberExponents      == {-3, -2, 0, 2}
LongOperands         == {1, 50, 105, 995, 1005}
LongOperandExponents == {-5, -4, -1, 1, 3}

\* A word of 22 bits, which holds seven digits, as many more than two units as the
\* ten of 32 bits are more than three.
Word == INSTANCE DecNumber WITH
  DECPMAX <- 9, DECEMAX <- 20, DECEMAXD <- 2, BufferDigits <- 9, UnitDigits <- 1, INT32_MAX <- 25,
  PlaceDigits <- 3, IntHalf <- 2097152, IntDigits <- 7, IntLeast <- 1999997, IntMost <- 999999
Around(n) == n - 3..n + 3
Wholes ==
  0..12 \cup {42, 90, 99, 100, 101, 210, 419, 420, 2097, 41943, 209715, 419430, 629145, 999000}
  \cup UNION {Around(n) : n \in {999999, 1999997, 2097152, 4194304, 4200000, 6291456, 8388608,
                                 9999996, 16777216}}
WordNumbers ==
  [kind : {"finite"}, neg : BOOLEAN,
   coeff : Wholes \cup {10 * n : n \in Wholes} \cup {100 * n + 50 : n \in {0, 7, 999999}}
           \cup {1000 * n : n \in 0..12},
   exp : {-12, -8} \cup -4..8]

\* The context of a decQuad, which decContextDefault sets.
QuadContext(round) ==
  [digits |-> DECPMAX, emax |-> DECEMAX, emin |-> DECEMIN, round |-> round, clamp |-> TRUE]

FormatNumbers ==
  [kind : {"finite"}, neg : BOOLEAN, coeff : NumberCoefficients, exp : NumberExponents]
Operands ==
  FormatNumbers \cup {Infinity(FALSE), Infinity(TRUE), NaN}
  \cup [kind : {"finite"}, neg : {FALSE}, coeff : LongOperands, exp : LongOperandExponents]
SecondOperands == FormatNumbers \cup {Infinity(FALSE), Infinity(TRUE), NaN}

\* The calls of op on two numbers and on one.
Binary(op) == Called({op}, Operands, SecondOperands, NumberRounds)
Unary(op)  == Called({op}, Operands, {Zero}, NumberRounds)

decAdd ==
  \E c \in Binary("decAdd") : Return(c, decAddOp(c.x, c.y, QuadContext(c.round), FALSE))
decSubtract ==
  \E c \in Binary("decSubtract") : Return(c, decAddOp(c.x, c.y, QuadContext(c.round), TRUE))
decMultiplyCall ==
  \E c \in Binary("decMultiply") : Return(c, decMultiplyOp(c.x, c.y, QuadContext(c.round)))
decDivideCall ==
  \E c \in Binary("decDivide") : Return(c, decDivideOp(c.x, c.y, QuadContext(c.round)))
decQuantizeCall ==
  \E c \in Binary("decQuantize") : Return(c, decQuantizeOp(c.x, c.y, QuadContext(c.round)))
decCompareCall ==
  \E c \in Called({"decCompare"}, Operands, SecondOperands, {"half_even"}) :
    Return(c, decCompareOp(c.x, c.y))
decMinusCall ==
  \E c \in Unary("decMinus") : Return(c, decNumberMinus(c.x, QuadContext(c.round)))
decIntegralCall ==
  \E c \in Unary("decIntegral") : Return(c, decNumberToIntegralValue(c.x, QuadContext(c.round)))

NumberNext ==
  /\ result = None
  /\ \/ decAdd \/ decSubtract \/ decMultiplyCall \/ decDivideCall \/ decQuantizeCall
     \/ decCompareCall \/ decMinusCall \/ decIntegralCall

Library == (Next \/ NumberNext) /\ UNCHANGED <<other, answer>>

ReadInt ==
  /\ answer = None /\ other # None
  /\ \E x \in WordNumbers : other' = [op |-> "decGetInt", x |-> x]
  /\ answer' = Word!decGetInt(other'.x)
  /\ UNCHANGED vars

\* One of them is called.
DecimalInit ==
  \/ Init /\ other = None /\ answer = None
  \/ call \in [op : MCNumberOperations] /\ result = None /\ other = None /\ answer = None
  \/ call = None /\ result = None /\ other = [op |-> "decGetInt"] /\ answer = None

DecimalNext ==
  \/ call # None /\ Library
  \/ ReadInt

DecimalSpec == DecimalInit /\ [][DecimalNext]_<<call, result, other, answer>>

-----------------------------------------------------------------------------

InFormat == Special(call.x) \/ (call.x.coeff < 10^DECPMAX /\ call.x.exp \in DECQTINY..DECQMAX)

\* Of numbers in the format the sum and difference are those of decBasic.c in
\* every rounding mode: coefficient, exponent, the sign of a zero, overflow, and
\* what is below the least number (decAddOp, decFinalize).
SumAsQuad ==
  Done({"decAdd", "decSubtract", "decMinus"}) /\ InFormat =>
    /\ call.op = "decAdd"      => result = decFloatAdd(call.x, call.y, call.round)
    /\ call.op = "decSubtract" => result = decFloatSubtract(call.x, call.y, call.round)
    /\ call.op = "decMinus" /\ call.round # "floor" => result = decFloatMinus(call.x)

\* So is the product, which may be subnormal (decMultiplyOp, decSetSubnormal).
ProductAsQuad ==
  Done({"decMultiply"}) /\ InFormat => result = decFloatMultiply(call.x, call.y, call.round)

\* So is the quotient, which has the exponent nearest to the one an exact quotient
\* would have (decDivideOp).
QuotientAsQuad ==
  Done({"decDivide"}) /\ InFormat => result = decDivide(call.x, call.y, call.round, "divide")

\* So is the order, whatever the exponents (decCompareOp, decCompare).
OrderAsQuad == Done({"decCompare"}) /\ InFormat => result = decFloatCompare(call.x, call.y)

\* So is a number with the exponent of another one, and the integral value; and
\* a longer number gets the exponent asked for and as many digits as there may
\* be, even if it rounds up from all nines, or is refused (decQuantizeOp).
QuantizeAsQuad ==
  /\ Done({"decQuantize", "decIntegral"}) /\ InFormat =>
       /\ call.op = "decQuantize" => result = decFloatQuantize(call.x, call.y, call.round)
       /\ call.op = "decIntegral" => result = decToIntegral(call.x, call.round)
  /\ Done({"decQuantize"}) /\ ~InFormat /\ ~Special(result) =>
       result.exp = call.y.exp /\ Digits(result) <= DECPMAX

\* A number with more digits than the context is not rounded before, but its
\* result is, once (decSetCoeff, decApplyRound).
LongOperandRounded ==
  Done({"decAdd", "decSubtract", "decMultiply", "decDivide"}) /\ ~InFormat /\ ~Special(call.y) =>
    LET x == call.x  y == call.y  low == smaller(x.exp, y.exp)
        cx == x.coeff * 10^(x.exp - low)
        cy == (IF y.neg THEN -1 ELSE 1) * y.coeff * 10^(y.exp - low)
        total == IF call.op = "decSubtract" THEN cx - cy ELSE cx + cy
    IN /\ call.op \in {"decAdd", "decSubtract"} =>
            result = decFinalize(IF total = 0 THEN call.round = "floor" ELSE total < 0,
                                 IF total < 0 THEN -total ELSE total, low, call.round)
       /\ call.op = "decMultiply" => result = decFinalize(y.neg, x.coeff * y.coeff, x.exp + y.exp, call.round)
       /\ call.op = "decDivide" /\ y.coeff # 0 =>
            LET n    == DECPMAX + 2
                q    == (x.coeff * 10^n) \div y.coeff
                rest == (x.coeff * 10^n) % y.coeff # 0
                r    == decFinalize(y.neg, q * 10 + (IF rest THEN 1 ELSE 0),
                                    x.exp - y.exp - n - 1, call.round)
            IN Ordering(decCompare(result, r)) = Zero /\ result.neg = r.neg

\* Digits left of the point, and whether there are none right of it.
Whole(x)   == IF x.exp < 0 THEN (IF -x.exp > 9 THEN 0 ELSE x.coeff \div 10^(-x.exp)) ELSE x.coeff
IsWhole(x) == x.exp >= 0 \/ x.coeff = 0 \/ (-x.exp <= 9 /\ x.coeff % 10^(-x.exp) = 0)
Behind(x)  == IF x.exp > 0 THEN x.exp ELSE 0
FitsInt(x) ==
  x.coeff = 0 \/ ( /\ Digits([coeff |-> Whole(x)]) + Behind(x) <= 7
                   /\ Whole(x) * 10^Behind(x) <= (IF x.neg THEN 1999997 ELSE 999999))

\* The integer of a number is read exactly if it is within the limits, and
\* otherwise its parity is: no wrapped sum passes for an integer, wherever the
\* point divides a unit (decGetInt, "need to check for wrap").
IntegerRead ==
  answer # None =>
    LET x == other.x
    IN answer = IF ~IsWhole(x) THEN Word!BADINT
                ELSE IF x.coeff = 0 THEN Word!IntOf(0)
                ELSE IF FitsInt(x) THEN Word!IntOf((IF x.neg THEN -1 ELSE 1) * Whole(x) * 10^Behind(x))
                ELSE Word!Big(Behind(x) = 0 /\ Whole(x) % 2 = 1)

-----------------------------------------------------------------------------
\* Rounding into the format, printing and reading (decCommon.c).
RoundedRight == CorrectlyRounded /\ FitsFormat /\ PrintedReadsBack /\ LongTextRounded

\* The operations of decBasic.c give the exact result, rounded once.
OperationsExact ==
  /\ SumExact /\ FMAExact /\ ProductExact
  /\ QuotientExact /\ RemainderLaw /\ IntegerQuotientExact
  /\ OrderByValue /\ ChosenByValue /\ NextIsNeighbour
  /\ ExponentChanged /\ IntegersRounded /\ DigitsMoved

\* decNumber.c gives what decBasic.c gives, for longer operands too, and reads the
\* integers that fit a word.
LibrariesAgree ==
  /\ SumAsQuad /\ ProductAsQuad /\ QuotientAsQuad /\ OrderAsQuad /\ QuantizeAsQuad
  /\ LongOperandRounded /\ IntegerRead

=============================================================================
