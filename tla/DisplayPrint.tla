---------------------------- MODULE DisplayPrint ----------------------------
(***************************************************************************)
(* How a floating point number is shown (src/src/display_print.c): the     *)
(* text of decFloatToString is rewritten into exponent form, rounded to    *)
(* the digits of the display by its characters, and turned into a plain    *)
(* number where its exponent allows that.                                  *)
(*                                                                         *)
(* Digits are indexed from 1 and the point is a place between two digits,  *)
(* where the code has an array of characters; the character at the point   *)
(* is what the code's index arithmetic is about, and Character keeps it.   *)
(***************************************************************************)
EXTENDS DecFloat

CONSTANTS
  Coefficients,      \* the coefficients of the numbers that are printed
  DisplayDigits      \* the sizes of the display

\* The index, from 0, of the i-th digit among the characters of a text.
Character(t, i) == IF i > t.point THEN i ELSE i - 1

-----------------------------------------------------------------------------
(* round_to_max_digits: digits and whether the first one was carried into *)

\* Mutant of Carried: a carry never leaves the fraction.
CarriedFraction(ds, i) ==
  LET nines == {j \in 2..i : \A k \in j..i : ds[k] = 9}
      first == IF nines = {} THEN i + 1 ELSE CHOOSE j \in nines : \A k \in nines : j <= k
  IN [digits |-> [j \in 1..i |-> IF j >= first THEN 0
                                 ELSE IF j = first - 1 /\ j > 1 THEN ds[j] + 1 ELSE ds[j]],
      carry |-> FALSE]

\* One is added to the i-th digit; nines become zeros, and all nines become 1
\* followed by zeros, with the carry reported.
Carried(ds, i) ==
  LET nines == {j \in 1..i : \A k \in j..i : ds[k] = 9}
      first == IF nines = {} THEN i + 1 ELSE CHOOSE j \in nines : \A k \in nines : j <= k
  IN [digits |-> [j \in 1..i |-> IF j = 1 /\ first = 1 THEN 1
                                 ELSE IF j >= first THEN 0
                                 ELSE IF j = first - 1 THEN ds[j] + 1 ELSE ds[j]],
      carry |-> first = 1]

round_to_max_digits(ds, max_digits) ==
  IF Len(ds) <= max_digits THEN [digits |-> ds, carry |-> FALSE]
  ELSE IF ds[max_digits + 1] >= 5 THEN Carried(ds, max_digits)
  ELSE [digits |-> SubSeq(ds, 1, max_digits), carry |-> FALSE]

\* Only behind a point: a lone first digit stays whatever it is.
strip_trailing_zeros(ds) ==
  LET kept == {i \in 1..Len(ds) : i = 1 \/ ds[i] # 0}
  IN SubSeq(ds, 1, CHOOSE i \in kept : \A j \in kept : j <= i)

-----------------------------------------------------------------------------
(* print_emode *)

\* The exponent of the first significant digit, at place sig.
ExponentOf(t, sig) ==
  IF t.e # 0 THEN t.e
  ELSE IF t.point = Len(t.digits) THEN Len(t.digits) - sig
  ELSE IF t.point > Character(t, sig) THEN t.point - Character(t, sig) - 1
  ELSE t.point - Character(t, sig)

\* A number without a significant digit is shown as decFloatToString has it.
print_emode(x, max_digits) ==
  LET t   == decFloatToString(x)
      sig == {i \in 1..Len(t.digits) : t.digits[i] # 0}
  IN IF t.kind # "number" \/ sig = {} THEN t
     ELSE LET first   == CHOOSE i \in sig : \A j \in sig : i <= j
              rounded == round_to_max_digits(SubSeq(t.digits, first, Len(t.digits)), max_digits)
          IN NumberText(t.neg, strip_trailing_zeros(rounded.digits), 1,
                        ExponentOf(t, first) + (IF rounded.carry THEN 1 ELSE 0))

\* What print_emode returns: 0 for what it leaves alone.
ExponentReturned(t) ==
  IF t.kind # "number" \/ \A i \in 1..Len(t.digits) : t.digits[i] = 0 THEN 0 ELSE t.e

-----------------------------------------------------------------------------
(* display_print_gmode *)

LargeEnough(exp, max_digits) == exp > 0 /\ exp <= max_digits - 1

SmallEnough(exp) == exp < 0 /\ exp >= -4

\* The point is moved, behind zeros where the digits run out.
AboveOne(t) ==
  LET zeros == larger(0, t.e + 1 - Len(t.digits))
  IN NumberText(t.neg, t.digits \o Zeros(zeros), t.e + 1, 0)

BelowOne(t) == NumberText(t.neg, Zeros(-t.e) \o t.digits, 1, 0)

display_print_gmode(x, max_digits) ==
  LET t   == print_emode(x, max_digits)
      exp == ExponentReturned(t)
  IN IF LargeEnough(exp, max_digits) THEN AboveOne(t)
     ELSE IF SmallEnough(exp) THEN BelowOne(t)
     ELSE t

display_print_emode(x, max_digits) == print_emode(x, max_digits)

-----------------------------------------------------------------------------
(* Every number of a small format printed in both notations, for several    *)
(* sizes of the display, against exact rounding.                            *)

VARIABLES call, result
vars == <<call, result>>

None == [kind |-> "none"]

Printable == [kind : {"finite"}, neg : BOOLEAN, coeff : Coefficients, exp : DECQTINY..DECQMAX]
             \cup {Infinity(TRUE), Infinity(FALSE), NaN}

Init == call = None /\ result = None

Show ==
  /\ result = None
  /\ call' \in [op : {"show"}, x : Printable, max_digits : DisplayDigits]
  /\ result' = [e |-> display_print_emode(call'.x, call'.max_digits),
                g |-> display_print_gmode(call'.x, call'.max_digits)]

Spec == Init /\ [][Show]_vars

-----------------------------------------------------------------------------
Printed == result # None /\ call.op = "show"
x       == call.x
Value   == Printed /\ ~Special(x) /\ x.coeff # 0

\* The number a text denotes, as a coefficient without trailing zeros and an
\* exponent: one pair for each number.
Denoted(coeff, exp) ==
  LET zeros == CHOOSE k \in 0..9 : coeff % 10^k = 0 /\ (k = 9 \/ coeff % 10^(k + 1) # 0)
  IN <<coeff \div 10^zeros, exp + zeros>>

DenotedBy(t) == Denoted(NumberOf(t.digits), t.e - (Len(t.digits) - t.point))

\* Rounded half up, in magnitude, to the digits of the display.
RoundedValue ==
  LET drop == larger(0, Length(x.coeff) - call.max_digits)
  IN Denoted(IF drop = 0 THEN x.coeff ELSE (x.coeff + 5 * 10^(drop - 1)) \div 10^drop,
             x.exp + drop)

\* Both notations show the number rounded half up to the digits of the display,
\* whatever carries and wherever the point stands.
BothShowRounded ==
  Value => /\ DenotedBy(result.e) = RoundedValue
           /\ DenotedBy(result.g) = RoundedValue
           /\ result.e.neg = x.neg /\ result.g.neg = x.neg

\* The exponent of the first digit of the rounded value.
Adjusted == RoundedValue[2] + Length(RoundedValue[1]) - 1

\* A plain number exactly from 0.0001 to the digits of the display, an exponent
\* otherwise; no digit that says nothing is shown in either notation, and the
\* plain one never takes more digits than the display has, but for the zeros of
\* a fraction (the examples of display_print_gmode).
NotationIsRight ==
  Value =>
    /\ result.e.e = Adjusted /\ result.e.point = 1 /\ result.e.digits[1] # 0
    /\ result.g.e = (IF Adjusted \in -4..call.max_digits - 1 THEN 0 ELSE Adjusted)
    /\ \A t \in {result.e, result.g} :
         /\ Len(t.digits) > t.point => t.digits[Len(t.digits)] # 0
         /\ t.digits[1] = 0 => t.point = 1
    /\ Adjusted >= 0 => Len(result.g.digits) <= call.max_digits
    /\ Adjusted < 0 => Len(result.g.digits) <= call.max_digits + 4

\* What is copied from the display and pasted again is shown as the same text,
\* zeros of any exponent and special values included.  Only the greatest numbers
\* are beyond it: rounded up to the power of ten above them, they read as infinity.
CopiedShowsTheSame ==
  Printed /\ (Value => Adjusted <= DECEMAX) =>
    /\ display_print_gmode(decFloatFromString(result.g, "half_even"), call.max_digits) = result.g
    /\ display_print_emode(decFloatFromString(result.e, "half_even"), call.max_digits) = result.e
    /\ display_print_gmode(decFloatFromString(result.e, "half_even"), call.max_digits) = result.g
=============================================================================
