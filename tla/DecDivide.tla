----------------------------- MODULE DecDivide -----------------------------
(***************************************************************************)
(* The loops of decDivide that form the quotient of two coefficients which *)
(* are not zero.  They work on units of nine digits: a multiple of the     *)
(* divisor is estimated from the highest units, never too high, and        *)
(* subtracted in place, until the accumulator is below the divisor and the *)
(* unit of the quotient is complete.  The units above msua are not cleared *)
(* in every case and must not be read again.                               *)
(***************************************************************************)
EXTENDS Integers, FiniteSetsExt

CONSTANTS
  DIVBASE,          \* base of a unit (10^9)
  UnitDigits,       \* its digits (9)
  DIVOPLEN,         \* units of an operand (4)
  DECPMAX,          \* digits of an operand (34)
  DIVLO,            \* a highest unit below this is small (10^6)
  DivHop, DivEst,   \* 2^DIVSHIFTA (2^29), 2^DIVSHIFTB (2^32)
  DIVMAGIC,         \* DivHop * DivEst / DIVBASE, rounded down
  WORD,             \* 2^32
  Units, HighUnits  \* units of the operands, and their highest units

DIVACCLEN == DIVOPLEN * 3
DIVHI == DIVBASE \div DIVLO
Operand == {f \in [0..DIVOPLEN - 1 -> Units \cup HighUnits] :
              /\ \A k \in 0..DIVOPLEN - 2 : f[k] \in Units
              /\ f[DIVOPLEN - 1] \in HighUnits
              /\ \E k \in 0..DIVOPLEN - 1 : f[k] # 0}

VARIABLES
  dfl, div,         \* the operands, lowest unit first
  acc,              \* the left operand at the high end, reduced in place
  quo,              \* the quotient, from the highest unit down
  msua, lsua,       \* highest unit of acc that counts, and the lowest in use
  lsuq,             \* the unit of quo that is being formed
  quodigits,        \* digits of the quotient up to that unit
  pc                \* "inner": subtracting; "unit": the unit is complete; "done"

vars == <<dfl, div, acc, quo, msua, lsua, lsuq, quodigits, pc>>

msud == Max({k \in 0..DIVOPLEN - 1 : div[k] # 0})
divunits == msud + 1

Init ==
  /\ dfl \in Operand /\ div \in Operand
  /\ acc = [k \in 0..DIVACCLEN - 1 |-> IF k < 2 * DIVOPLEN THEN 0 ELSE dfl[k - 2 * DIVOPLEN]]
  /\ quo = [k \in 0..DIVOPLEN |-> 0]
  /\ msua = DIVACCLEN - 1
  /\ lsua = DIVACCLEN - divunits
  /\ lsuq = DIVOPLEN
  /\ quodigits = 0
  /\ pc = "inner"

\* Four times the highest unit of div and its following quarter, rounded up if
\* there is anything behind.
divtop ==
  LET next    == IF divunits > 1 THEN div[msud - 1] ELSE 0
      quarter == DIVBASE \div 4
      more    == next % quarter # 0 \/ \E k \in 0..msud - 2 : div[k] # 0
  IN 4 * div[msud] + next \div quarter + (IF more THEN 1 ELSE 0)

\* The highest unit of acc that is not zero, down to lsua; below it there is
\* nothing left to divide (the code may look at the unit below lsua, even in
\* front of the array, but stops there whatever it holds).
StrippedTop == Max({lsua - 1} \cup {k \in lsua..msua : acc[k] # 0})

\* Of acc and div, where their lengths are the same.
CompareUnits ==
  LET mismatch == {k \in 0..msud : div[k] # acc[lsua + k]}
      k        == Max(mismatch)
  IN IF mismatch = {} THEN "equal" ELSE IF div[k] > acc[lsua + k] THEN "less" ELSE "greater"

\* Estimates of the multiplier, from two units of each.
SameLength(top) ==
  IF divunits = 1 THEN acc[top] \div div[msud]
  ELSE (acc[top] * DIVBASE + acc[top - 1])
       \div (div[msud] * DIVBASE + div[msud - 1] + (IF divunits > 2 THEN 1 ELSE 0))

LongerByOne(top) ==
  IF divunits > 1 /\ acc[top] < DIVLO /\ div[msud] < DIVLO
  THEN (acc[top] * DIVHI * DIVBASE + acc[top - 1] * DIVHI + acc[top - 2] \div DIVLO)
       \div (div[msud] * DIVHI + div[msud - 1] \div DIVLO + 1)
  ELSE IF divunits = 1 THEN (acc[top] * DIVBASE + acc[top - 1]) \div div[msud]
  ELSE (acc[top] * DIVBASE * 4 + acc[top - 1] * 4) \div divtop

\* An estimate of nothing is still one, as div fits.
Multiplier(top) ==
  LET estimate == IF top - lsua + 1 = divunits THEN SameLength(top) ELSE LongerByOne(top)
  IN IF estimate = 0 THEN 1 ELSE estimate

\* A product of units and a carry, split with at most one correction.
SplitProduct(sub) ==
  LET hop   == (sub \div DivHop) % WORD
      carry == ((hop * DIVMAGIC) \div DivEst) % WORD
      lo    == (sub - carry * DIVBASE) % WORD
  IN IF sub < DIVBASE THEN [lo |-> sub, carry |-> 0]
     ELSE IF lo >= DIVBASE THEN [lo |-> lo - DIVBASE, carry |-> carry + 1]
     ELSE [lo |-> lo, carry |-> carry]

\* One unit of div, times the multiplier, is subtracted from its unit of acc.
UnitSubtracted(old, k, multiplier) ==
  LET split  == SplitProduct(multiplier * div[k] + old.carry)
      borrow == split.lo > old.acc[lsua + k]
  IN [acc   |-> [old.acc EXCEPT ![lsua + k] = @ - split.lo + (IF borrow THEN DIVBASE ELSE 0)],
      carry |-> split.carry + (IF borrow THEN 1 ELSE 0)]

\* acc less a multiple of div at lsua; a carry that is left is taken from the
\* unit above.  (TLC binds "old" once, so that it is not evaluated at each use.)
Subtracted(multiplier) ==
  LET step[k \in 0..divunits] ==
        IF k = 0 THEN [acc |-> acc, carry |-> 0]
        ELSE CHOOSE new \in {UnitSubtracted(old, k - 1, multiplier) : old \in {step[k - 1]}} : TRUE
      Carried(all) == IF all.carry = 0 \/ lsua + divunits >= DIVACCLEN THEN all.acc
                      ELSE [all.acc EXCEPT ![lsua + divunits] = @ - all.carry]
  IN CHOOSE a \in {Carried(all) : all \in {step[divunits]}} : TRUE

\* One turn of the inner loop: fewer units than in div are left.
TooShort ==
  /\ pc = "inner" /\ StrippedTop - lsua + 1 < divunits
  /\ msua' = IF StrippedTop < lsua THEN StrippedTop + 1 ELSE StrippedTop
  /\ pc' = "unit"
  /\ UNCHANGED <<dfl, div, acc, quo, lsua, lsuq, quodigits>>

\* As many units as div, but a smaller number.
NotLarger ==
  /\ pc = "inner" /\ StrippedTop - lsua + 1 = divunits
  /\ CompareUnits = "less"
  /\ msua' = StrippedTop
  /\ pc' = "unit"
  /\ UNCHANGED <<dfl, div, acc, quo, lsua, lsuq, quodigits>>

\* Mutant of Equal: the units above the zero still count.
EqualKeepsTop ==
  /\ pc = "inner" /\ StrippedTop - lsua + 1 = divunits
  /\ CompareUnits = "equal"
  /\ quo' = [quo EXCEPT ![lsuq] = @ + 1]
  /\ msua' = StrippedTop
  /\ acc' = [acc EXCEPT ![lsua] = 0]
  /\ pc' = "unit"
  /\ UNCHANGED <<dfl, div, lsua, lsuq, quodigits>>

\* The same number: one more, and the accumulator collapses to one zero.
Equal ==
  /\ pc = "inner" /\ StrippedTop - lsua + 1 = divunits
  /\ CompareUnits = "equal"
  /\ quo' = [quo EXCEPT ![lsuq] = @ + 1]
  /\ msua' = lsua
  /\ acc' = [acc EXCEPT ![lsua] = 0]
  /\ pc' = "unit"
  /\ UNCHANGED <<dfl, div, lsua, lsuq, quodigits>>

Subtract ==
  /\ pc = "inner"
  /\ \/ StrippedTop - lsua + 1 > divunits
     \/ (StrippedTop - lsua + 1 = divunits /\ CompareUnits = "greater")
  /\ \E multiplier \in {Multiplier(StrippedTop)} :
        /\ quo' = [quo EXCEPT ![lsuq] = @ + multiplier]
        /\ acc' = Subtracted(multiplier)
  /\ msua' = StrippedTop
  /\ UNCHANGED <<dfl, div, lsua, lsuq, quodigits, pc>>

\* The digits of a unit.
Digits(n) == Max({k \in 1..UnitDigits : k = 1 \/ n >= 10^(k - 1)})

\* A quotient that is exact must still cover the units of the left operand.
Exact == acc[msua] = 0 /\ lsua <= DIVACCLEN - DIVOPLEN /\ StrippedTop < lsua

\* The rest of the outer loop: one unit down, unless there are enough digits.
EndUnit ==
  /\ pc = "unit"
  /\ quodigits' = IF quodigits # 0 THEN quodigits + UnitDigits
                  ELSE IF quo[lsuq] # 0 THEN Digits(quo[lsuq]) ELSE 0
  /\ lsuq' = IF quodigits' # 0 THEN lsuq - 1 ELSE lsuq
  /\ IF (quodigits # 0 /\ quodigits' > DECPMAX + 1) \/ Exact
     THEN pc' = "done" /\ UNCHANGED <<lsua, quo>>
     ELSE /\ pc' = "inner"
          /\ lsua' = lsua - 1
          /\ quo' = [quo EXCEPT ![lsuq'] = 0]
  /\ UNCHANGED <<dfl, div, acc, msua>>

Done == pc = "done" /\ UNCHANGED vars

Next == TooShort \/ NotLarger \/ Equal \/ Subtract \/ EndUnit \/ Done

\* One function call: nothing else runs, it is not suspended.
Spec == Init /\ [][Next]_vars /\ WF_vars(Next)

-----------------------------------------------------------------------------
Number(f, low, high) ==
  LET n[k \in low - 1..high] == IF k < low THEN 0 ELSE f[low + high - k] + n[k - 1] * DIVBASE
  IN n[high]

Divisor == Number(div, 0, DIVOPLEN - 1)
\* What the accumulator holds above lsua.
Held == IF msua < lsua THEN 0 ELSE Number(acc, lsua, msua)

\* A multiple that is subtracted was not too large: every unit of the accumulator
\* stays a unit, what is held is below a unit of quotients, and the unit that is
\* formed never needs a carry into the one above (decDivide estimates the multiple
\* from at most three units of each operand).
NeverTooMuch ==
  /\ \A k \in 0..DIVACCLEN - 1 : acc[k] \in 0..DIVBASE - 1
  /\ \A k \in 0..DIVOPLEN : quo[k] \in 0..DIVBASE - 1
  /\ Held < Divisor * DIVBASE
  /\ pc = "unit" => Held < Divisor
  /\ \A sub \in {div[k] * m : k \in 0..DIVOPLEN - 1, m \in {DIVBASE - 1}} :
        SplitProduct(sub) = [lo |-> sub % DIVBASE, carry |-> sub \div DIVBASE]

\* Neither array is left at its low end, although the quotient may begin units
\* behind the operand ("Acc underrun" is reported by a debugging build).
WithinArrays ==
  /\ lsua >= 0
  /\ lsuq >= IF pc = "done" THEN -1 ELSE 0

\* When the loops end, either nothing is left and the operand is used up, or there
\* are at least DECPMAX + 2 digits ("quotient now has at least DECPMAX+2 digits"),
\* so that the digit made odd for the rest is behind the one that rounds.
EnoughDigits ==
  pc = "done" =>
    /\ \/ Held = 0 /\ lsua <= DIVACCLEN - DIVOPLEN
       \/ quodigits >= DECPMAX + 2
    /\ (acc[msua] # 0) = (Held # 0)
    /\ Number(quo, lsuq + 1, DIVOPLEN) \in 10^(quodigits - 1)..10^quodigits - 1

\* The loops are a division by hand, whatever multiples are tried on the way.
ByHand == INSTANCE LongDivision WITH
  dividend <- dfl, divisor <- Divisor,
  taken    <- DIVACCLEN - lsua - (IF pc = "done" THEN 0 ELSE 1),
  rest     <- IF pc = "done" THEN Held ELSE (Held + quo[lsuq] * Divisor) \div DIVBASE,
  quotient <- Number(quo, lsuq + 1, DIVOPLEN)
IsLongDivision == ByHand!Spec

\* A multiple of at least one is subtracted each time, so the loops end.
DivisionEnds == <>(pc = "done")
=============================================================================
