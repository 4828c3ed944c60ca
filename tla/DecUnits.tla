------------------------------ MODULE DecUnits ------------------------------
(***************************************************************************)
(* The arrays of units decNumber.c keeps a coefficient in: three digits to *)
(* a unit, the least significant unit first.  Quotients by powers of ten   *)
(* are formed by multiplying, a carry is taken from an estimate that may   *)
(* be too small by one, and what is borrowed at the end is paid back by a  *)
(* complement.                                                             *)
(*                                                                         *)
(* Arrays are written from their low end and read no further down than     *)
(* they are written, so that working in place gives what working into      *)
(* another array gives, which is how it is written here.                   *)
(***************************************************************************)
EXTENDS Integers, Sequences, FiniteSets

CONSTANTS
  UnitValues,       \* the units of the arrays that operations are called on
  Multipliers,      \* the factors of the second array of a sum
  MostUnits         \* the units of an array

DECDPUN    == 3
DECDPUNMAX == 999
Base       == DECDPUNMAX + 1

\* Digits to units, and how many digits the most significant unit has.
D2U(d)       == (d + DECDPUN - 1) \div DECDPUN
MSUDIGITS(d) == d - (D2U(d) - 1) * DECDPUN

Unit(u, i) == IF i \in DOMAIN u THEN u[i] ELSE 0

\* u / 10^n for a unit.
multies == <<131073, 26215, 5243, 1049, 210>>
QUOT10(u, n) == ((u \div 2^n) * multies[n + 1]) \div 2^17

decGetDigits(u) ==
  LET top    == {i \in 1..Len(u) : u[i] # 0 /\ \A j \in i + 1..Len(u) : u[j] = 0}
      msu(i) == IF u[i] < 10 THEN 1 ELSE IF u[i] < 100 THEN 2 ELSE 3
  IN IF top = {} THEN 1 ELSE LET i == CHOOSE i \in top : TRUE IN (i - 1) * DECDPUN + msu(i)

-----------------------------------------------------------------------------
(* C = A + B * M                                                            *)

\* A value of either sign as a unit and what is carried into the next one.
CarryOver(v) ==
  LET positive == IF v >= 0 THEN v ELSE v + Base * Base
      est      == ((positive \div 8) * 16777) \div 2^21
      unit     == positive - est * Base
      carry    == IF v >= 0 THEN est ELSE est - Base
  IN IF v \in 0..DECDPUNMAX THEN [unit |-> v, carry |-> 0]
     ELSE IF unit < Base THEN [unit |-> unit, carry |-> carry]
     ELSE [unit |-> unit - Base, carry |-> carry + 1]

\* Base^Len(c) - C, and what is left of the one that is added.
Complement(c) ==
  LET step[i \in 0..Len(c)] ==
        IF i = 0 THEN [unit |-> 0, add |-> 1]
        ELSE LET t == DECDPUNMAX + step[i - 1].add - c[i]
             IN IF t <= DECDPUNMAX THEN [unit |-> t, add |-> 0] ELSE [unit |-> 0, add |-> 1]
  IN [units |-> [i \in 1..Len(c) |-> step[i].unit], add |-> step[Len(c)].add]

WithTop(units, top) == IF top = 0 THEN units ELSE Append(units, top)

\* Mutant of decUnitAddSub: what is borrowed beyond the last unit is lost.
decUnitAddSubShort(a, b, bshift, m) ==
  LET n == IF Len(a) > Len(b) + bshift THEN Len(a) ELSE Len(b) + bshift
      step[i \in 0..n] ==
        IF i = 0 THEN [unit |-> 0, carry |-> 0]
        ELSE CarryOver(step[i - 1].carry + Unit(a, i) + Unit(b, i - bshift) * m)
      c == [i \in 1..n |-> step[i].unit]
      complement == Complement(c)
  IN IF step[n].carry >= 0 THEN [units |-> WithTop(c, step[n].carry), neg |-> FALSE]
     ELSE [units |-> complement.units, neg |-> TRUE]

\* B is shifted up by bshift units.
decUnitAddSub(a, b, bshift, m) ==
  LET n == IF Len(a) > Len(b) + bshift THEN Len(a) ELSE Len(b) + bshift
      step[i \in 0..n] ==
        IF i = 0 THEN [unit |-> 0, carry |-> 0]
        ELSE CarryOver(step[i - 1].carry + Unit(a, i) + Unit(b, i - bshift) * m)
      c     == [i \in 1..n |-> step[i].unit]
      carry == step[n].carry
      complement == Complement(c)
  IN IF carry >= 0 THEN [units |-> WithTop(c, carry), neg |-> FALSE]
     ELSE [units |-> WithTop(complement.units, complement.add - carry - 1), neg |-> TRUE]

-----------------------------------------------------------------------------
(* Comparison of A with B * 10^exp                                          *)

CompareAligned(a, b) ==
  LET differ == {i \in 1..Len(a) : a[i] # b[i]}
  IN IF Len(a) # Len(b) THEN (IF Len(a) > Len(b) THEN 1 ELSE -1)
     ELSE IF differ = {} THEN 0
     ELSE LET i == CHOOSE i \in differ : \A j \in differ : j <= i
          IN IF a[i] > b[i] THEN 1 ELSE -1

\* Numbers of clearly different length are not looked at; others are subtracted.
decUnitCompare(a, b, exp) ==
  LET difference == decUnitAddSub(a, b, exp \div DECDPUN, -(10^(exp % DECDPUN)))
  IN IF exp = 0 THEN CompareAligned(a, b)
     ELSE IF Len(a) > Len(b) + D2U(exp) THEN 1
     ELSE IF Len(a) + 1 < Len(b) + D2U(exp) THEN -1
     ELSE IF difference.neg THEN -1
     ELSE IF \A i \in DOMAIN difference.units : difference.units[i] = 0 THEN 0 ELSE 1

-----------------------------------------------------------------------------
(* Shifts by digits                                                         *)

\* Two neighbouring units cut at the same digit: the high part of the lower one
\* under the low part of the upper one.
Sliced(lower, upper, cut) ==
  QUOT10(lower, cut) + (upper - QUOT10(upper, cut) * 10^cut) * 10^(DECDPUN - cut)

\* u * 10^shift, as many units as its digits need.
decShiftToMost(u, digits, shift) ==
  LET cut == DECDPUN - MSUDIGITS(shift)
      up  == D2U(shift)
  IN IF shift = 0 THEN u
     ELSE IF digits + shift <= DECDPUN THEN <<u[1] * 10^shift>>
     ELSE [i \in 1..D2U(digits + shift) |->
             IF cut = 0 THEN Unit(u, i - up)
             ELSE Sliced(Unit(u, i - up), Unit(u, i - up + 1), cut)]

\* The units above the first shift digits, while there are digits left.
LeastUnits(u, cut, low, count) ==
  [i \in 1..D2U(count) |->
     IF count <= (i - 1) * DECDPUN + DECDPUN - cut THEN QUOT10(Unit(u, low + i), cut)
     ELSE Sliced(Unit(u, low + i), Unit(u, low + i + 1), cut)]

\* u / 10^shift, without the digits shifted out.
decShiftToLeast(u, shift) ==
  LET cut == MSUDIGITS(shift)
      all == Len(u) * DECDPUN
  IN IF shift = 0 THEN u
     ELSE IF shift = all THEN <<0>>
     ELSE IF cut = DECDPUN THEN SubSeq(u, D2U(shift) + 1, Len(u))
     ELSE LeastUnits(u, cut, D2U(shift - cut), all - shift)

-----------------------------------------------------------------------------
(* decSetCoeff: the first digits of a coefficient and what the others leave *)

resmap == <<0, 3, 3, 3, 3, 5, 7, 7, 7, 7>>

AnyNonZero(u, n) == \E i \in 1..n : u[i] # 0

\* What discarding discard digits adds to the residue: the first of them, with a
\* sticky part for the others.  A cut between units takes the unit as a whole.
ResidueOf(u, discard, residue) ==
  LET whole   == D2U(discard) - 1
      cut     == discard - whole * DECDPUN - 1
      unit    == u[whole + 1]
      below   == IF AnyNonZero(u, whole) THEN 1 ELSE residue
      quot    == QUOT10(unit, cut)
      half    == Base \div 2
  IN IF cut = DECDPUN - 1
     THEN IF unit > half THEN 7 ELSE IF unit = half THEN below + 5
          ELSE IF unit # 0 THEN 3 ELSE below
     ELSE (IF unit # quot * 10^cut THEN 1 ELSE below) + resmap[(quot % 10) + 1]

\* The units of the kept digits: those above the cut.
KeptUnits(u, discard, digits) ==
  IF digits <= 0 THEN <<0>>
  ELSE LET cut == MSUDIGITS(discard)
       IN IF cut = DECDPUN THEN SubSeq(u, D2U(discard) + 1, D2U(discard) + D2U(digits))
          ELSE LeastUnits(u, cut, D2U(discard) - 1, digits)

\* len digits of u are fitted to digits digits, of which there may be none or
\* less: everything goes then, or is the first digit discarded.
UnitsSetCoeff(u, len, digits, exp, residue) ==
  LET discard == len - digits
      older   == IF residue > 1 THEN 1 ELSE residue
  IN IF discard <= 0 THEN [units |-> u, digits |-> len, exp |-> exp, residue |-> residue]
     ELSE IF discard > len
     THEN [units |-> <<0>>, digits |-> 1, exp |-> exp + discard,
           residue |-> IF older <= 0 /\ AnyNonZero(u, Len(u)) THEN 1 ELSE older]
     ELSE [units |-> KeptUnits(u, discard, digits), digits |-> IF digits <= 0 THEN 1 ELSE digits,
           exp |-> exp + discard, residue |-> ResidueOf(u, discard, older)]

-----------------------------------------------------------------------------
(* Products                                                                 *)

\* The product of a short multiplier: u is added to the places from the i-th on,
\* multiplied by unit i; a zero unit is one more place.
UnitsProduct(u, multiplier) ==
  LET acc[i \in 0..Len(multiplier)] ==
        IF i = 0 THEN <<0>>
        ELSE IF multiplier[i] = 0 THEN Append(acc[i - 1], 0)
        ELSE SubSeq(acc[i - 1], 1, i - 1)
             \o decUnitAddSub(SubSeq(acc[i - 1], i, Len(acc[i - 1])), u, 0, multiplier[i]).units
  IN acc[Len(multiplier)]

\* Units in chunks of FASTDIGS digits, and back.
FASTDIGS == 9
PerChunk == FASTDIGS \div DECDPUN
Chunked(u, digits) ==
  [i \in 1..(digits + FASTDIGS - 1) \div FASTDIGS |->
     LET n == (i - 1) * PerChunk
     IN Unit(u, n + 1) + Unit(u, n + 2) * Base + Unit(u, n + 3) * Base * Base]

Unchunked(items) ==
  [k \in 1..Len(items) * PerChunk |->
     (items[(k - 1) \div PerChunk + 1] \div Base^((k - 1) % PerChunk)) % Base]

-----------------------------------------------------------------------------
(* Every operation called once on arrays of a few units, against the       *)
(* integers the arrays stand for.                                           *)

VARIABLES call, result
vars == <<call, result>>

None == [kind |-> "none"]

Arrays(n) == UNION {[1..k -> UnitValues] : k \in 1..n}
\* Arrays of a decNumber have no unit more than their digits need.
Tight(n)  == {u \in Arrays(n) : Len(u) = 1 \/ u[Len(u)] # 0}

\* The integer an array stands for.
Value(u) ==
  LET sum[i \in 0..Len(u)] ==
        IF i = 0 THEN 0 ELSE sum[i - 1] + u[i] * Base^(i - 1)
  IN sum[Len(u)]

Abs(n)  == IF n < 0 THEN -n ELSE n
SignOf(n) == IF n > 0 THEN 1 ELSE IF n < 0 THEN -1 ELSE 0

\* What a position adds is less than 1000^(AllUnits+1) wherever it is added.
AddCalls ==
  {c \in [op : {"add"}, a : Arrays(MostUnits), b : Arrays(MostUnits - 1),
          shift : 0..MostUnits - 1, m : Multipliers] :
     Len(c.b) + c.shift + (IF Abs(c.m) = 1 THEN 0 ELSE 1) <= MostUnits}
\* decCompare and the remainder have dealt with zeros.
CompareCalls ==
  {c \in [op : {"compare"}, a : Tight(MostUnits) \ {<<0>>}, b : Tight(MostUnits) \ {<<0>>},
          shift : 0..5] :
     Len(c.b) + D2U(c.shift) <= MostUnits}
\* The shorter number is the multiplier; products are small enough to compare.
ProductCalls ==
  {c \in [op : {"multiply"}, a : Tight(MostUnits), b : Tight(MostUnits - 1)] :
     /\ decGetDigits(c.b) <= decGetDigits(c.a)
     /\ Value(c.b) # 0 => Value(c.a) <= (2 * 10^9) \div Value(c.b)}
UpCalls ==
  {c \in [op : {"up"}, a : Tight(MostUnits), shift : 0..5] :
     decGetDigits(c.a) + c.shift <= FASTDIGS}
DownCalls ==
  {c \in [op : {"down"}, a : Arrays(MostUnits), shift : 0..FASTDIGS] :
     c.shift <= Len(c.a) * DECDPUN}
FitCalls ==
  {c \in [op : {"fit"}, a : Tight(MostUnits), digits : -1..FASTDIGS, residue : -1..1] :
     decGetDigits(c.a) - c.digits <= FASTDIGS}
\* One call takes all values of a carry that share their quotient.
CarryCalls == [op : {"carry"}, high : -DECDPUNMAX..DECDPUNMAX]

Init == call = None /\ result = None

Return(c, value) == call' = c /\ result' = value

Add      == \E c \in AddCalls : Return(c, decUnitAddSub(c.a, c.b, c.shift, c.m))
Compare  == \E c \in CompareCalls : Return(c, [sign |-> decUnitCompare(c.a, c.b, c.shift)])
Multiply == \E c \in ProductCalls : Return(c, [units |-> UnitsProduct(c.a, c.b)])
ShiftUp  ==
  \E c \in UpCalls : Return(c, [units |-> decShiftToMost(c.a, decGetDigits(c.a), c.shift)])
ShiftDown == \E c \in DownCalls : Return(c, [units |-> decShiftToLeast(c.a, c.shift)])
Fit ==
  \E c \in FitCalls : Return(c, UnitsSetCoeff(c.a, decGetDigits(c.a), c.digits, 0, c.residue))
Carry ==
  \E c \in CarryCalls :
    Return(c, [split |-> [low \in 0..DECDPUNMAX |-> CarryOver(c.high * Base + low)]])
Count == \E c \in [op : {"digits"}, a : Arrays(MostUnits)] : Return(c, [digits |-> decGetDigits(c.a)])
Chunk ==
  \E c \in [op : {"chunks"}, a : Arrays(MostUnits)] :
    Return(c, [units |-> Unchunked(Chunked(c.a, decGetDigits(c.a)))])
Quot ==
  \E c \in [op : {"quot"}, n : 0..DECDPUN] :
    Return(c, [quot |-> [u \in 0..DECDPUNMAX |-> QUOT10(u, c.n)]])

Next ==
  /\ result = None
  /\ \/ Add \/ Compare \/ Multiply \/ ShiftUp \/ ShiftDown
     \/ Fit \/ Carry \/ Count \/ Chunk \/ Quot

Spec == Init /\ [][Next]_vars

-----------------------------------------------------------------------------

Done(op) == result # None /\ call.op = op

\* A + B * M is exact in units and sign, with a borrow paid back, and takes at
\* most one unit more than the longer operand (decUnitAddSub).
SumExact ==
  Done("add") =>
    LET exact == Value(call.a) + Value(call.b) * Base^call.shift * call.m
        longer == IF Len(call.a) > Len(call.b) + call.shift THEN Len(call.a)
                  ELSE Len(call.b) + call.shift
    IN /\ (IF result.neg THEN -1 ELSE 1) * Value(result.units) = exact
       /\ result.neg <=> exact < 0
       /\ \A i \in DOMAIN result.units : result.units[i] \in 0..DECDPUNMAX
       /\ Len(result.units) <= longer + 1

\* The carry estimated by multiplying is exact after one correction, for every
\* value that a unit, a product of two units and a carry may add up to, of
\* either sign (the estimates of decUnitAddSub).
CarryExact ==
  Done("carry") =>
    \A low \in 0..DECDPUNMAX : result.split[low] = [unit |-> low, carry |-> call.high]

\* Multiplying and shifting divides every unit exactly (QUOT10).
QuotientExact ==
  Done("quot") => \A u \in 0..DECDPUNMAX : result.quot[u] = u \div 10^call.n

\* The exits for clearly different lengths, and the difference, tell the order
\* (decUnitCompare).
CompareExact ==
  Done("compare") =>
    result.sign = SignOf(Value(call.a) - Value(call.b) * 10^call.shift)

\* Products by units are exact, with zero units in the multiplier (decMultiplyOp).
ProductExact ==
  Done("multiply") => Value(result.units) = Value(call.a) * Value(call.b)

\* Shifts move digits across units: none is lost or doubled, and the array has the
\* units that the digits need (decShiftToMost, decShiftToLeast).
ShiftExact ==
  /\ Done("up") =>
       /\ Value(result.units) = Value(call.a) * 10^call.shift
       /\ Len(result.units) = D2U(decGetDigits(call.a) + call.shift)
  /\ Done("down") => Value(result.units) = Value(call.a) \div 10^call.shift

\* The least and the greatest residue of what lies below the last digit: nothing,
\* less than half, half, more.
ResidueRange(low, half2, residue) ==
  IF low = 0 THEN (IF residue = 1 THEN 1..4 ELSE {residue})
  ELSE IF 2 * low < half2 \/ (2 * low = half2 /\ residue = -1) THEN 1..4
  ELSE IF 2 * low = half2 /\ residue = 0 THEN {5}
  ELSE 6..9

\* A coefficient is cut at any digit, of the middle of a unit, its boundary, or
\* beyond its first digit, and the residue tells what was cut off (decSetCoeff).
FitExact ==
  Done("fit") =>
    LET len  == decGetDigits(call.a)
        drop == len - call.digits
        cut  == 10^(IF drop > 0 THEN drop ELSE 0)
    IN /\ Value(result.units) = Value(call.a) \div cut
       /\ result.exp = (IF drop > 0 THEN drop ELSE 0)
       /\ result.digits = (IF drop <= 0 THEN len ELSE IF call.digits <= 0 THEN 1 ELSE call.digits)
       /\ Len(result.units) = D2U(result.digits)
       /\ IF drop <= 0 THEN result.residue = call.residue
          ELSE result.residue \in ResidueRange(Value(call.a) % cut, cut, call.residue)

\* Zero units at the top do not count, a zero has one digit (decGetDigits).
DigitsExact ==
  Done("digits") =>
    LET v == Value(call.a)
    IN IF v = 0 THEN result.digits = 1 ELSE v \in 10^(result.digits - 1)..10^result.digits - 1

\* Chunks of nine digits and units are the same number (decMultiplyOp).
ChunksExact == Done("chunks") => Value(result.units) = Value(call.a)
=============================================================================
