------------------------------ MODULE DecFloat ------------------------------
(***************************************************************************)
(* The decimal floating point numbers of the calculator: what decCommon.c  *)
(* does to round a result into the format and to read and print a number.  *)
(*                                                                         *)
(* A number is a record: a sign, a coefficient and an exponent, or a       *)
(* special value.  Its 128 bits are left out, and so are the payloads of   *)
(* NaNs, which are always 0 here, and the status flags, which no code of   *)
(* the calculator reads.                                                   *)
(***************************************************************************)
EXTENDS Integers, Sequences

CONSTANTS
  DECPMAX,          \* digits of a coefficient (34)
  DECEMAX,          \* greatest adjusted exponent (6144)
  DECEMAXD,         \* digits of an exponent (4)
  BufferDigits      \* digits that decFloatFromString keeps without rounding

DECEMIN  == 1 - DECEMAX
DECQTINY == DECEMIN - (DECPMAX - 1)
DECQMAX  == DECEMAX - (DECPMAX - 1)

RoundingModes == {"half_even", "half_up", "half_down", "down", "up",
                  "ceiling", "floor", "05up"}

Finite(neg, coeff, exp) == [kind |-> "finite", neg |-> neg, coeff |-> coeff, exp |-> exp]
Infinity(neg) == [kind |-> "inf", neg |-> neg, coeff |-> 0, exp |-> 0]
NaN           == [kind |-> "qnan", neg |-> FALSE, coeff |-> 0, exp |-> 0]
Special(x)    == x.kind # "finite"

larger(a, b) == IF a < b THEN b ELSE a
smaller(a, b) == IF a < b THEN a ELSE b

\* The number of digits of n; 0 has one.
Length(n) == CHOOSE k \in 1..10 : (k = 1 \/ n >= 10^(k - 1)) /\ (k = 10 \/ n < 10^k)

DigitsOf(n)  == [i \in 1..Length(n) |-> (n \div 10^(Length(n) - i)) % 10]
NumberOf(ds) == LET upto[i \in 0..Len(ds)] == IF i = 0 THEN 0 ELSE upto[i - 1] * 10 + ds[i]
                IN upto[Len(ds)]

-----------------------------------------------------------------------------
(* decFinalize: a coefficient of any length and an exponent, rounded into   *)
(* the format                                                               *)

\* A digit to be dropped with something non-zero behind it (DECSTICKYTAB).
Sticky(digit) == CASE digit = 0 -> 1 [] digit = 5 -> 6 [] OTHER -> digit

\* Mutant of Reround: what is behind the first dropped digit is forgotten.
ReroundNoSticky(coeff, drop) ==
  IF drop > Length(coeff) THEN 0 ELSE (coeff % 10^drop) \div 10^(drop - 1)

\* The first of the digits dropped, with the rest folded into it.  What stands
\* in front of the coefficient is 0.
Reround(coeff, drop) ==
  IF drop > Length(coeff) THEN (IF coeff = 0 THEN 0 ELSE 1)
  ELSE LET dropped == coeff % 10^drop
           first   == dropped \div 10^(drop - 1)
       IN IF dropped % 10^(drop - 1) # 0 THEN Sticky(first) ELSE first

\* The kept digits go up by one.
Bump(round, neg, lsd, reround) ==
  CASE round = "half_even" -> reround > 5 \/ (reround = 5 /\ lsd % 2 = 1)
    [] round = "half_up" -> reround >= 5
    [] round = "half_down" -> reround > 5
    [] round = "down" -> FALSE
    [] round = "up" -> reround > 0
    [] round = "ceiling" -> ~neg /\ reround > 0
    [] round = "floor" -> neg /\ reround > 0
    [] round = "05up" -> reround > 0 /\ lsd \in {0, 5}

Kept(coeff, drop) == IF drop > Length(coeff) THEN 0 ELSE coeff \div 10^drop
RoundedUp(round, neg, kept, reround) ==
  IF Bump(round, neg, kept % 10, reround) THEN kept + 1 ELSE kept

\* The coefficient without its last drop digits.
DropDigits(neg, coeff, drop, round) ==
  RoundedUp(round, neg, Kept(coeff, drop), Reround(coeff, drop))

\* All nines become 1000..., one place longer only when there is room, that is
\* for a subnormal number.
WithRoom(neg, up, exp) ==
  IF up = 10^DECPMAX THEN Finite(neg, up \div 10, exp + 1) ELSE Finite(neg, up, exp)

Rounded(neg, coeff, exp, drop, round) ==
  IF drop > 0 THEN WithRoom(neg, DropDigits(neg, coeff, drop, round), exp + drop)
              ELSE Finite(neg, coeff, exp)

\* Rounding modes that never make infinity give the greatest number.
Overflowed(neg, round) ==
  IF \/ round \in {"down", "05up"}
     \/ round = "ceiling" /\ neg
     \/ round = "floor" /\ ~neg
  THEN Finite(neg, 10^DECPMAX - 1, DECQMAX)
  ELSE Infinity(neg)

\* An exponent too large is moved into the coefficient where that has room.
FoldedDown(x, round) ==
  IF x.exp <= DECQMAX THEN x
  ELSE IF x.coeff = 0 THEN Finite(x.neg, 0, DECQMAX)
  ELSE IF x.exp + Length(x.coeff) - 1 > DECEMAX THEN Overflowed(x.neg, round)
  ELSE Finite(x.neg, x.coeff * 10^(x.exp - DECQMAX), DECQMAX)

decFinalize(neg, coeff, exp, round) ==
  FoldedDown(Rounded(neg, coeff, exp, larger(Length(coeff) - DECPMAX, DECQTINY - exp), round), round)

-----------------------------------------------------------------------------
(* The text of a number: its sign, its digits, how many of them stand       *)
(* before the point (all of them when there is no point) and the exponent   *)
(* behind an E, 0 when there is none.                                       *)

NumberText(neg, digits, point, e) ==
  [kind |-> "number", neg |-> neg, digits |-> digits, point |-> point, e |-> e]
WordText(kind, neg) ==
  [kind |-> kind, neg |-> neg, digits |-> <<>>, point |-> 0, e |-> 0]

Zeros(n) == [i \in 1..n |-> 0]

\* Exponent form for a positive exponent, or for more than five zeros behind
\* the point; otherwise a plain number, with every digit of the coefficient.
decFloatToString(x) ==
  IF Special(x) THEN WordText(x.kind, x.neg)
  ELSE LET digits == DigitsOf(x.coeff)
           pre    == Len(digits) + x.exp
       IN IF x.exp > 0 \/ pre < -5
          THEN NumberText(x.neg, digits, 1, pre - 1)
          ELSE IF pre > 0 THEN NumberText(x.neg, digits, pre, 0)
          ELSE NumberText(x.neg, Zeros(1 - pre) \o digits, 1, 0)

\* An exponent of more than DECEMAXD digits is only known to be too large.
ReadExponent(e) ==
  IF e >= 10^DECEMAXD THEN DECEMAX * 2
  ELSE IF -e >= 10^DECEMAXD THEN -DECEMAX * 2 ELSE e

WithoutLeadingZeros(ds) ==
  LET nonzero == {i \in 1..Len(ds) : ds[i] # 0}
      first   == IF nonzero = {} THEN Len(ds) ELSE CHOOSE i \in nonzero : \A j \in nonzero : i <= j
  IN SubSeq(ds, first, Len(ds))

\* More digits than the buffer holds: the last one that is kept is sticky.
TooLong(neg, ds, exp, round) ==
  LET kept == smaller(Len(ds), DECPMAX + 1)
      rest == {i \in kept + 1..Len(ds) : ds[i] # 0}
      last == IF rest = {} THEN ds[kept] ELSE Sticky(ds[kept])
  IN decFinalize(neg, NumberOf(SubSeq(ds, 1, kept - 1) \o <<last>>), exp + Len(ds) - kept, round)

decFloatFromString(t, round) ==
  CASE t.kind = "inf" -> Infinity(t.neg)
    [] t.kind = "qnan" -> [NaN EXCEPT !.neg = t.neg]
    [] t.kind = "number" /\ t.digits = <<>> -> NaN     \* bad syntax
    [] t.kind = "number" /\ t.digits # <<>> ->
         LET exp == ReadExponent(t.e) - (Len(t.digits) - t.point)
         IN IF Len(t.digits) <= BufferDigits
            THEN decFinalize(t.neg, NumberOf(t.digits), exp, round)
            ELSE TooLong(t.neg, WithoutLeadingZeros(t.digits), exp, round)
=============================================================================
