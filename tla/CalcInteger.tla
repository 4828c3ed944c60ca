---------------------------- MODULE CalcInteger ----------------------------
(***************************************************************************)
(* The integer operations (src/src/calc_integer.c) and the width utilities *)
(* (src/src/calc_util.c).  A value is a WordBits-bit unsigned word (the    *)
(* uint64_t of the code) that holds a number of a given width, masked.     *)
(* Widths play the part of 8, 16, 32 and 64: the largest is the word, and  *)
(* twice any other fits in it, which is what "do operation in the wider    *)
(* int64 type" relies on.  Signed arithmetic wraps (-fwrapv).              *)
(*                                                                         *)
(* An operation returns the value and the warning it gives, NoWarning if   *)
(* none.                                                                   *)
(***************************************************************************)
EXTENDS Integers, FiniteSets, Bitwise

CONSTANTS
  WordBits,   \* bits of a word (64)
  Widths      \* widths of an integer: WordBits, and others of at most half of it

Words     == 0..2^WordBits - 1
NoWarning == "none"

-----------------------------------------------------------------------------
(* calc_util.c *)

mask_width(x, w) == x % 2^w

\* calc_util_get_signed: the number that the low w bits stand for.
SignedNum(x, w) ==
  LET low == mask_width(x, w)
  IN  IF low < 2^(w - 1) THEN low ELSE low - 2^w

\* Conversions between int64_t and uint64_t, and wrapping signed arithmetic.
ToWord(n) == n % 2^WordBits
Wrap(n)   == SignedNum(ToWord(n), WordBits)

get_signed(x, w) == ToWord(SignedNum(x, w))

INT_MIN(w)  == -(2^(w - 1))
INT_MAX(w)  == 2^(w - 1) - 1
UINT_MAX(w) == 2^w - 1

InSignedRange(n, w)   == INT_MIN(w) <= n /\ n <= INT_MAX(w)
InUnsignedRange(x, w) == x <= UINT_MAX(w)

Least(ws) == CHOOSE w \in ws : \A v \in ws : w <= v

MinWidth(uval, negative) ==
  Least({w \in Widths : IF negative THEN InSignedRange(SignedNum(uval, WordBits), w)
                                    ELSE InUnsignedRange(uval, w)})

\* calc_util_get_changed_width: never narrower than the current width.
get_changed_width(uval, negative, current) ==
  IF MinWidth(uval, negative) > current THEN MinWidth(uval, negative) ELSE current

\* The least signed value of a width, as enter_int_min pushes it.
IntMinWord(w) == mask_width(ToWord(INT_MIN(w)), w)

-----------------------------------------------------------------------------
(* Helpers of calc_integer.c *)

Warned(x, w, warning) == [val |-> mask_width(x, w), warn |-> warning]
Quiet(x, w)           == Warned(x, w, NoWarning)
Raw(x, warning)       == [val |-> x, warn |-> warning]   \* returned before masking

SignedOverflow   == "Signed Integer Overflow"
UnsignedOverflow == "Unsigned Integer Overflow"
ShiftRange       == "Shift Out of Range"
Div0             == "Divide by 0"

UnsignedResult(x, ok, w) == Warned(x, w, IF ok THEN NoWarning ELSE UnsignedOverflow)
SignedResult(n, ok, w)   == Warned(ToWord(n), w, IF ok THEN NoWarning ELSE SignedOverflow)

IsIntMin(n, w)     == n = INT_MIN(w)
IsShiftValid(x, w) == x < w

Magnitude(n) == IF n < 0 THEN -n ELSE n

\* Integer division and remainder of C, which truncate towards zero.
CDiv(a, b) ==
  LET q == Magnitude(a) \div Magnitude(b) IN IF (a < 0) = (b < 0) THEN q ELSE -q
CMod(a, b) == a - b * CDiv(a, b)

MAX64 == INT_MAX(WordBits)
MIN64 == INT_MIN(WordBits)

RangeTestAdd(a, b) == IF b > 0 THEN ~(a > Wrap(MAX64 - b)) ELSE ~(a < Wrap(MIN64 - b))
RangeTestSub(a, b) == IF b > 0 THEN ~(a < Wrap(MIN64 + b)) ELSE ~(a > Wrap(MAX64 + b))
RangeTestMul(a, b) ==
  \/ a \in {0, 1} \/ b \in {0, 1}
  \/ a > 0 /\ b > 0 /\ ~(a > CDiv(MAX64, b))
  \/ a < 0 /\ b < 0 /\ ~(a < CDiv(MAX64, b))
  \/ a > 0 /\ b < 0 /\ ~(b < CDiv(MIN64, a))
  \/ a < 0 /\ b > 0 /\ ~(a < CDiv(MIN64, b))

-----------------------------------------------------------------------------
(* Binary operations: words a and b, width w, unsigned u *)

bin_iop_add(a, b, w, u) ==
  LET res == ToWord(a + b)
      sum == SignedNum(a, w) + SignedNum(b, w)
  IN  IF u
      THEN UnsignedResult(res, IF w < WordBits THEN InUnsignedRange(res, w) ELSE res >= a, w)
      ELSE SignedResult(Wrap(sum),
                        IF w < WordBits THEN InSignedRange(Wrap(sum), w)
                        ELSE RangeTestAdd(SignedNum(a, w), SignedNum(b, w)), w)

bin_iop_sub(a, b, w, u) ==
  LET res  == ToWord(a - b)
      diff == SignedNum(a, w) - SignedNum(b, w)
  IN  IF u
      THEN UnsignedResult(res, IF w < WordBits THEN InUnsignedRange(res, w) ELSE res <= a, w)
      ELSE SignedResult(Wrap(diff),
                        IF w < WordBits THEN InSignedRange(Wrap(diff), w)
                        ELSE RangeTestSub(SignedNum(a, w), SignedNum(b, w)), w)

bin_iop_mul(a, b, w, u) ==
  LET res  == ToWord(a * b)
      prod == SignedNum(a, w) * SignedNum(b, w)
  IN  IF u
      THEN UnsignedResult(res, IF w < WordBits THEN InUnsignedRange(res, w)
                               ELSE b = 0 \/ a = res \div b, w)
      ELSE SignedResult(Wrap(prod),
                        IF w < WordBits THEN InSignedRange(Wrap(prod), w)
                        ELSE RangeTestMul(SignedNum(a, w), SignedNum(b, w)), w)

\* The zero test is on the whole word, the signed division on its low bits: a
\* divisor that is zero in its low bits only is a division by zero, Crash.
Crash == Raw(0, "division by zero")

bin_iop_div(a, b, w, u) ==
  LET sa == SignedNum(a, w)
      sb == SignedNum(b, w)
      SignedDiv ==
        CASE sb = 0                                       -> Crash
          [] IsIntMin(sa, w) /\ sb = -1                   -> Raw(a, SignedOverflow)
          [] sb # 0 /\ (IsIntMin(sa, w) => sb # -1)       -> Quiet(ToWord(CDiv(sa, sb)), w)
  IN  IF b = 0 THEN Raw(0, Div0) ELSE IF u THEN Quiet(a \div b, w) ELSE SignedDiv

bin_iop_mod(a, b, w, u) ==
  LET sa == SignedNum(a, w)
      sb == SignedNum(b, w)
      SignedMod ==
        CASE sb = 0                                       -> Crash
          [] IsIntMin(sa, w) /\ sb = -1                   -> Raw(0, NoWarning)
          [] sb # 0 /\ (IsIntMin(sa, w) => sb # -1)       -> Quiet(ToWord(CMod(sa, sb)), w)
  IN  IF b = 0 THEN Raw(0, Div0) ELSE IF u THEN Quiet(a % b, w) ELSE SignedMod

\* Euclid's loop; the remainder of MIN64 by -1 overflows and traps.
Trapped == 2^WordBits

\* Mutant of Gcd: one remainder, no loop.
GcdOneStep(a, b) == IF b = 0 THEN a ELSE CMod(a, b)

Gcd(a, b) ==
  LET euclid[x \in Int, y \in Int] ==
        IF y = 0 THEN x
        ELSE IF x = MIN64 /\ y = -1 THEN Trapped ELSE euclid[y, CMod(x, y)]
  IN  euclid[a, b]

bin_iop_gcd(a, b, w, u) ==
  LET sa == SignedNum(a, w)
      sb == SignedNum(b, w)
  IN  IF u THEN Quiet(Gcd(a, b), w)
      ELSE IF {sa, sb} = {MIN64, -1} THEN Raw(ToWord(-1), NoWarning)
      ELSE IF Gcd(sa, sb) = Trapped THEN Crash
      ELSE Quiet(ToWord(Gcd(sa, sb)), w)

bin_iop_and(a, b, w) == Quiet(a & b, w)
bin_iop_or(a, b, w)  == Quiet(a | b, w)
bin_iop_xor(a, b, w) == Quiet(a ^^ b, w)

bin_iop_left_shift(a, b, w) ==
  IF IsShiftValid(b, w) THEN Quiet(ToWord(a * 2^b), w) ELSE Raw(a, ShiftRange)

\* A signed shift keeps the sign: it divides rounding down.
bin_iop_right_shift(a, b, w, u) ==
  IF ~IsShiftValid(b, w) THEN Raw(a, ShiftRange)
  ELSE IF u THEN Quiet(a \div 2^b, w)
  ELSE Quiet(ToWord(SignedNum(a, w) \div 2^b), w)

-----------------------------------------------------------------------------
(* Unary operations *)

iop_plusminus(a, w, u) ==
  LET sa == SignedNum(a, w)
  IN  IF u THEN Quiet(ToWord(-a), w)
      ELSE IF IsIntMin(sa, w) THEN Raw(a, SignedOverflow)
      ELSE Quiet(ToWord(-sa), w)

iop_complement(a, w)     == Quiet(UINT_MAX(WordBits) - a, w)
iop_square(a, w, u)      == bin_iop_mul(a, a, w, u)
iop_left_shift(a, w)     == Quiet(ToWord(a * 2), w)
iop_right_shift(a, w, u) == Quiet(IF u THEN a \div 2 ELSE ToWord(SignedNum(a, w) \div 2), w)
iop_rol(a, w) == Quiet(ToWord(a * 2) | (a \div 2^(w - 1)), w)
iop_ror(a, w) == Quiet((a \div 2) | ToWord(a * 2^(w - 1)), w)

-----------------------------------------------------------------------------
(* The functions calc_give_op passes on, by operation *)

Iop2(cop, a, b, w, u) ==
  CASE cop = "add"   -> bin_iop_add(a, b, w, u)
    [] cop = "sub"   -> bin_iop_sub(a, b, w, u)
    [] cop = "mul"   -> bin_iop_mul(a, b, w, u)
    [] cop = "div"   -> bin_iop_div(a, b, w, u)
    [] cop = "mod"   -> bin_iop_mod(a, b, w, u)
    [] cop = "gcd"   -> bin_iop_gcd(a, b, w, u)
    [] cop = "and"   -> bin_iop_and(a, b, w)
    [] cop = "or"    -> bin_iop_or(a, b, w)
    [] cop = "xor"   -> bin_iop_xor(a, b, w)
    [] cop = "lsftn" -> bin_iop_left_shift(a, b, w)
    [] cop = "rsftn" -> bin_iop_right_shift(a, b, w, u)

Iop1(cop, a, w, u) ==
  CASE cop = "pm"   -> iop_plusminus(a, w, u)
    [] cop = "com"  -> iop_complement(a, w)
    [] cop = "sqr"  -> iop_square(a, w, u)
    [] cop = "lsft" -> iop_left_shift(a, w)
    [] cop = "rsft" -> iop_right_shift(a, w, u)
    [] cop = "rol"  -> iop_rol(a, w)
    [] cop = "ror"  -> iop_ror(a, w)
=============================================================================
