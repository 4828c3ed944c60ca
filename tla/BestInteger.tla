---------------------------- MODULE BestInteger ----------------------------
(***************************************************************************)
(* display_get_best_integer (src/src/display.c): what the engine gets when *)
(* the mode changes from floating point to integer.  The number is cut     *)
(* down to an integer by moving the point in the printed text, never by    *)
(* arithmetic, and saturates at the ends of the 64 bit words.              *)
(*                                                                         *)
(* A printed number is its sign, its digits, how many of them stand before *)
(* the point, and its exponent; in exponent form one digit stands before   *)
(* the point.  The first digit is 0 only below 1.                          *)
(***************************************************************************)
EXTENDS Integers, Sequences

CONSTANTS
  WordBits,                    \* bits of a word (64)
  SIGNED_EXP, UNSIGNED_EXP,    \* largest exponents that may fit (18, 19)
  Digits,                      \* the digits of the numbers that are checked
  MaxLength, MaxExp            \* bounds: digits of a number, size of an exponent

INT_MIN  == -(2^(WordBits - 1))
UINT_MAX == 2^WordBits - 1

Magnitude(digits) ==
  LET upto[i \in 0..Len(digits)] == IF i = 0 THEN 0 ELSE upto[i - 1] * 10 + digits[i]
  IN upto[Len(digits)]

Answer(ok, n, neg) == [ok |-> ok, uval |-> n % 2^WordBits, negative |-> neg]

\* strtoll and strtoull clamp to the ends of their range and report it.
StrToIval(neg, digits) ==
  LET n == IF neg THEN -Magnitude(digits) ELSE Magnitude(digits)
  IN IF neg THEN IF n >= INT_MIN THEN Answer(TRUE, n, neg) ELSE Answer(FALSE, INT_MIN, neg)
            ELSE IF n <= UINT_MAX THEN Answer(TRUE, n, neg) ELSE Answer(FALSE, UINT_MAX, neg)

Saturated(neg) == Answer(FALSE, IF neg THEN INT_MIN ELSE UINT_MAX, neg)

\* The digits up to the point once it is moved exp places to the right, with
\* zeros when the digits run out (612-637).
Expanded(digits, exp) ==
  [i \in 1..(exp + 1) |-> IF i <= Len(digits) THEN digits[i] ELSE 0]

display_get_best_integer(t) ==
  CASE t.kind = "nan" -> Answer(TRUE, 0, t.neg)
    [] t.kind = "inf" -> Saturated(t.neg)
    [] t.kind # "nan" /\ t.kind # "inf" /\ t.digits[1] = 0 -> Answer(TRUE, 0, t.neg)
    [] t.kind = "plain" /\ t.digits[1] # 0 -> StrToIval(t.neg, SubSeq(t.digits, 1, t.point))
    [] t.kind = "exponent" /\ t.digits[1] # 0 ->
         IF t.exp < 0 THEN Answer(TRUE, 0, t.neg)
         ELSE IF t.exp > (IF t.neg THEN SIGNED_EXP ELSE UNSIGNED_EXP) THEN Saturated(t.neg)
         ELSE StrToIval(t.neg, Expanded(t.digits, t.exp))

-----------------------------------------------------------------------------
(* One call, for each printed number *)

VARIABLES call, result
vars == <<call, result>>

None == [kind |-> "none"]

Printed ==
  LET digits == UNION {[1..n -> Digits] : n \in 1..MaxLength}
      All == [kind : {"plain", "exponent"}, neg : BOOLEAN, digits : digits,
              point : 1..MaxLength, exp : -1..MaxExp]
  IN {t \in All :
        /\ t.kind = "plain" => t.point <= Len(t.digits) /\ t.exp = 0
        /\ t.kind = "exponent" => t.point = 1
        /\ t.digits[1] = 0 => t.point = 1
        /\ t.kind = "exponent" /\ t.digits[1] = 0 => Magnitude(t.digits) = 0}
     \cup [kind : {"nan", "inf"}, neg : BOOLEAN, digits : {<<1>>}, point : {1}, exp : {0}]

Init == call = None /\ result = None

BestInteger ==
  /\ result = None
  /\ call' \in [op : {"best"}, text : Printed]
  /\ result' = display_get_best_integer(call'.text)

Next == BestInteger

Spec == Init /\ [][Next]_vars

-----------------------------------------------------------------------------
(* Exact arithmetic: the number is Magnitude(digits) * 10^scale. *)

text == call.text

scale == (IF text.kind = "exponent" THEN text.exp ELSE 0) + text.point - Len(text.digits)
truncated ==
  IF scale >= 0 THEN Magnitude(text.digits) * 10^scale
                ELSE Magnitude(text.digits) \div 10^(-scale)
InWord == IF text.neg THEN -truncated >= INT_MIN ELSE truncated <= UINT_MAX

\* The word is the number displayed, cut towards zero, and the answer is "true"
\* exactly when that fits an unsigned word, or a signed one if negative; out of
\* range it is the nearest end (display.h: "Returns true if the value is positive
\* and in range of UINT64_MAX, or negative and in range of INT64_MIN").
BestIsTruncation ==
  result # None /\ call.op = "best" /\ text.kind \in {"plain", "exponent"} =>
    /\ result.ok = InWord
    /\ result.negative = text.neg
    /\ result.uval = (IF ~InWord THEN IF text.neg THEN INT_MIN ELSE UINT_MAX
                      ELSE IF text.neg THEN -truncated ELSE truncated) % 2^WordBits
=============================================================================
