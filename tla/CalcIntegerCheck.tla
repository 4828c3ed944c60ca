-------------------------- MODULE CalcIntegerCheck --------------------------
(***************************************************************************)
(* One call of one integer operation on any operands that are masked to    *)
(* the width, as the engine passes them, against exact arithmetic.         *)
(***************************************************************************)
EXTENDS CalcInteger

VARIABLES call,     \* the operation and its arguments
          result    \* None, then what the operation returned

vars == <<call, result>>

None == [kind |-> "none"]

Binary  == {"add", "sub", "mul", "div", "mod", "gcd", "and", "or", "xor",
            "lsftn", "rsftn"}
Unary   == {"pm", "com", "sqr", "lsft", "rsft", "rol", "ror"}
Masked(w) == 0..UINT_MAX(w)

Init == call = None /\ result = None

Compute ==
  /\ result = None
  /\ \E w \in Widths, u \in BOOLEAN :
       \/ \E op \in Binary, a, b \in Masked(w) :
            /\ call' = [op |-> op, a |-> a, b |-> b, w |-> w, u |-> u]
            /\ result' = Iop2(op, a, b, w, u)
       \/ \E op \in Unary, a \in Masked(w) :
            /\ call' = [op |-> op, a |-> a, b |-> 0, w |-> w, u |-> u]
            /\ result' = Iop1(op, a, w, u)

Next == Compute
Spec == Init /\ [][Next]_vars

-----------------------------------------------------------------------------
(* The number a masked word stands for, and exact results *)

Num(x)    == IF call.u THEN x ELSE SignedNum(x, call.w)
Fits(n)   == IF call.u THEN n >= 0 /\ n <= UINT_MAX(call.w) ELSE InSignedRange(n, call.w)
Done(ops) == result # None /\ call.op \in ops

na == Num(call.a)
nb == Num(call.b)
nr == Num(result.val)

Exact == CASE call.op = "add" -> na + nb
           [] call.op = "sub" -> na - nb
           [] call.op = "mul" -> na * nb
           [] call.op = "sqr" -> na * na
           [] call.op = "pm"  -> -na

\* Sum, difference, product, square and negation are right modulo the width, and
\* the overflow warning is given exactly when the number does not fit, at the full
\* width too, where the code tests the range beforehand (calc_integer.c:277-293,
\* 351-367, 425-456).  Negation of an unsigned value is modular: it never warns.
ArithmeticExact ==
  Done({"add", "sub", "mul", "sqr", "pm"}) =>
    /\ result.val = Exact % 2^call.w
    /\ (result.warn # NoWarning) = (~Fits(Exact) /\ ~(call.op = "pm" /\ call.u))

\* Quotient truncates towards zero and the remainder takes the dividend's sign;
\* the one quotient that does not fit warns and comes back as the dividend; zero
\* divisors warn and give 0; nothing else warns and nothing traps.
DivisionLaw ==
  Done({"div", "mod"}) =>
    IF nb = 0 THEN result = Raw(0, Div0)
    ELSE LET q == CHOOSE q \in -2^WordBits..2^WordBits :
                     LET r == na - q * nb
                     IN  /\ Magnitude(r) < Magnitude(nb)
                         /\ r = 0 \/ (r < 0) = (na < 0)
         IN  IF call.op = "mod" THEN nr = na - q * nb /\ result.warn = NoWarning
             ELSE /\ Fits(q) => nr = q /\ result.warn = NoWarning
                  /\ ~Fits(q) => result = Raw(call.a, SignedOverflow)

\* Euclid's loop ends in a greatest common divisor, up to its sign.
GcdIsGreatest ==
  Done({"gcd"}) =>
    LET divisors == {d \in 1..2^WordBits : na % d = 0 /\ nb % d = 0}
    IN  IF na = 0 /\ nb = 0 THEN nr = 0
        ELSE /\ Magnitude(nr) \in divisors
             /\ \A d \in divisors : d <= Magnitude(nr)

\* Left shifts multiply modulo the width, right shifts divide rounding down with
\* the sign kept; a count that is not below the width (negative ones are large
\* words) warns and leaves the value.  A rotation moves every bit by one place.
ShiftsExact ==
  LET n == IF call.op \in {"lsftn", "rsftn"} THEN call.b ELSE 1
      Bit(x, i) == (x \div 2^i) % 2
  IN  /\ Done({"lsft", "rsft", "lsftn", "rsftn"}) =>
           IF n >= call.w THEN result = Raw(call.a, ShiftRange)
           ELSE /\ result.warn = NoWarning
                /\ IF call.op \in {"lsft", "lsftn"}
                   THEN result.val = (na * 2^n) % 2^call.w
                   ELSE nr = na \div 2^n
      /\ Done({"rol", "ror"}) =>
           \A i \in 0..call.w - 1 :
             LET j == (i + 1) % call.w
             IN  IF call.op = "rol" THEN Bit(result.val, j) = Bit(call.a, i)
                                     ELSE Bit(result.val, i) = Bit(call.a, j)

\* Every operation leaves its result masked to the width, the early returns that
\* skip the mask included (comment at calc_integer.c:31-34).
ResultMasked == Done(Binary \cup Unary) => result.val \in Masked(call.w)
=============================================================================
