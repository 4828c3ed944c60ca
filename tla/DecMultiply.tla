---------------------------- MODULE DecMultiply ----------------------------
(***************************************************************************)
(* decFiniteMultiply: the product of two coefficients, held in units of    *)
(* nine digits.  The products of units are added up in wide columns; then  *)
(* each column, from the lowest, is split into a unit and a carry.  The    *)
(* split estimates the quotient by a multiplication with a shifted inverse *)
(* of the base, so that no wide number is ever divided, and corrects it.   *)
(***************************************************************************)
EXTENDS Integers, TLAPS

CONSTANTS
  MULBASE,          \* base of a unit (10^9)
  MULOPLEN,         \* units of an operand (4)
  HopUnit,          \* 2^MULSHIFTA: the high part of a column counts in these (2^30)
  EstUnit,          \* 2^MULSHIFTB (2^31)
  MULMAGIC,         \* HopUnit * EstUnit / MULBASE, rounded down
  WORD,             \* 2^32
  Units             \* the units of the operands

Columns == 0..2 * MULOPLEN - 1
Coefficient == [0..MULOPLEN - 1 -> Units]

VARIABLES
  bufl, bufr,       \* the operands, lowest unit first
  ui,               \* the units of bufr that are multiplied
  accl,             \* the columns
  pl,               \* the columns that are split
  acc               \* the units of the product

vars == <<bufl, bufr, ui, accl, pl, acc>>

Init ==
  /\ bufl \in Coefficient /\ bufr \in Coefficient
  /\ ui = 0 /\ pl = 0
  /\ accl = [k \in Columns |-> 0]
  /\ acc = [k \in Columns |-> 0]

\* One unit of bufr times all of bufl; the sums are not carried.
MultiplyUnit ==
  /\ ui < MULOPLEN
  /\ ui' = ui + 1
  /\ accl' = [k \in Columns |->
                IF k - ui \in 0..MULOPLEN - 1 THEN accl[k] + bufr[ui] * bufl[k - ui] ELSE accl[k]]
  /\ UNCHANGED <<bufl, bufr, pl, acc>>

\* Mutant of Split: an estimate that is two too low is corrected by one.
SplitOnce(x) ==
  LET hop == (x \div HopUnit) % WORD
      est == ((hop * MULMAGIC) \div EstUnit) % WORD
      lo  == (x - est * MULBASE) % WORD
  IN IF lo < MULBASE THEN [lo |-> lo, est |-> est] ELSE [lo |-> lo - MULBASE, est |-> est + 1]

\* The quotient is estimated, perhaps too low by one or two.
Split(x) ==
  LET hop == (x \div HopUnit) % WORD
      est == ((hop * MULMAGIC) \div EstUnit) % WORD
      lo  == (x - est * MULBASE) % WORD
  IN IF lo < MULBASE THEN [lo |-> lo, est |-> est]
     ELSE IF lo - MULBASE < MULBASE THEN [lo |-> lo - MULBASE, est |-> est + 1]
     ELSE [lo |-> lo - 2 * MULBASE, est |-> est + 2]

\* The carry of a column goes to the next one.
ResolveColumn ==
  /\ ui = MULOPLEN /\ pl \in Columns
  /\ pl' = pl + 1
  /\ LET split == IF accl[pl] >= MULBASE THEN Split(accl[pl]) ELSE [lo |-> accl[pl], est |-> 0]
     IN /\ acc' = [acc EXCEPT ![pl] = split.lo]
        /\ accl' = [k \in Columns |-> IF k = pl + 1 THEN accl[k] + split.est ELSE accl[k]]
  /\ UNCHANGED <<bufl, bufr, ui>>

Done == pl \notin Columns /\ UNCHANGED vars

Next == MultiplyUnit \/ ResolveColumn \/ Done

Spec == Init /\ [][Next]_vars

-----------------------------------------------------------------------------
\* The product by the rule taught at school: the sum of the products of a
\* column and the carry of the one below it.
Sum(k) ==
  LET upto[i \in 0..MULOPLEN] ==
        IF i = 0 THEN 0
        ELSE upto[i - 1] + (IF k - i + 1 \in 0..MULOPLEN - 1 THEN bufr[i - 1] * bufl[k - i + 1] ELSE 0)
  IN upto[MULOPLEN]
SchoolColumn ==
  LET column[k \in Columns] == IF k = 0 THEN Sum(0) ELSE Sum(k) + column[k - 1] \div MULBASE
  IN column

\* Every column that is split holds its unit of the product; and the highest
\* one never has to be split, for its carry would be written behind the columns
\* (decFiniteMultiply: "this path is never taken on the final iteration").
ProductIsExact ==
  /\ pl > 0 => acc[pl - 1] = SchoolColumn[pl - 1] % MULBASE
  /\ ui = MULOPLEN /\ pl = 2 * MULOPLEN - 1 => accl[pl] < MULBASE

\* The column that is split next is below the bound the estimate was made for,
\* although it holds the products of all units and the carry of the column below
\* it, and two corrections are enough to split it (decFiniteMultiply: "maxX is
\* OPLEN*(10**18)", "maximum correction 2").
SplitIsExact ==
  ui = MULOPLEN /\ pl \in Columns =>
    /\ accl[pl] < MULOPLEN * MULBASE * MULBASE
    /\ Split(accl[pl]) = [lo |-> accl[pl] % MULBASE, est |-> accl[pl] \div MULBASE]
-----------------------------------------------------------------------------
(* SplitIsExact for operands of any value, at the size of decQuad: four     *)
(* units of nine digits, columns of up to 4 * 10^18, far beyond what TLC    *)
(* can count.  Every leaf that has a large number is left to SMT.           *)

\* The constants of decQuad: MULMAGIC is 2305843009, the units are 2^30, 2^31 and 2^32.
\* (Definitions that a run reaches have no number of more than 31 bits.)
QuadConstants ==
  /\ MULBASE = 1000000000
  /\ MULOPLEN = 4
  /\ HopUnit = 1073741824
  /\ EstUnit = 2 * 1073741824
  /\ MULMAGIC = 2 * 1152921504 + 1
  /\ WORD = 4 * 1073741824
  /\ Units \subseteq Nat
  /\ \A u \in Units : u <= 999999999

\* What division of natural numbers is, as linear bounds.
LEMMA DivBounds ==
  ASSUME NEW a \in Nat, NEW b \in Nat \ {0}
  PROVE  /\ a \div b \in Nat
         /\ b * (a \div b) <= a
         /\ a < b * (a \div b) + b
  BY SMT

\* A number that fits in a word is kept by it.
LEMMA WordKeeps ==
  ASSUME NEW a \in Nat, a < 4294967296
  PROVE  a % 4294967296 = a
  BY SMT

\* The quotient and the rest are the only ones.
LEMMA DivUnique ==
  ASSUME NEW x \in Nat, NEW q \in Nat, NEW r \in Nat,
         x = q * 1000000000 + r, r < 1000000000
  PROVE  x % 1000000000 = r /\ x \div 1000000000 = q
  BY SMT

\* The product of two units.
LEMMA UnitProduct ==
  ASSUME NEW a \in Nat, NEW b \in Nat, a <= 999999999, b <= 999999999
  PROVE  a * b \in Nat /\ a * b <= 999999998000000001
<1>1. a * b \in Nat /\ a * b <= 999999999 * b
  BY SMT
<1> QED BY <1>1, SMT

\* The estimate is too low by at most two.
LEMMA Estimate ==
  ASSUME NEW x \in Nat, x < 4000000000000000000, NEW hop \in Nat, NEW est \in Nat,
         1073741824 * hop <= x, x < 1073741824 * hop + 1073741824,
         2147483648 * est <= hop * 2305843009,
         hop * 2305843009 < 2147483648 * est + 2147483648
  PROVE  /\ hop < 4294967296
         /\ est < 4294967296
         /\ 0 <= x - est * 1000000000
         /\ x - est * 1000000000 < 3000000000
  BY SMT

\* The branches of Split, for its three numbers by name.
LEMMA SplitBranches ==
  ASSUME NEW x, NEW h, NEW e, NEW l,
         h = (x \div HopUnit) % WORD, e = ((h * MULMAGIC) \div EstUnit) % WORD,
         l = (x - e * MULBASE) % WORD
  PROVE  Split(x) = IF l < MULBASE THEN [lo |-> l, est |-> e]
                    ELSE IF l - MULBASE < MULBASE THEN [lo |-> l - MULBASE, est |-> e + 1]
                    ELSE [lo |-> l - 2 * MULBASE, est |-> e + 2]
  BY Zenon DEF Split

\* decFiniteMultiply splits every column below 4 * 10^18 exactly.
LEMMA SplitExact ==
  ASSUME QuadConstants, NEW x \in Nat, x < 4000000000000000000
  PROVE  Split(x) = [lo |-> x % MULBASE, est |-> x \div MULBASE]
<1> DEFINE hop == x \div 1073741824
           est == (hop * 2305843009) \div 2147483648
           lo  == x - est * 1000000000
<1>0. /\ MULBASE = 1000000000 /\ HopUnit = 1073741824 /\ EstUnit = 2147483648
      /\ MULMAGIC = 2305843009 /\ WORD = 4294967296
  BY SMT DEF QuadConstants
<1>1. hop \in Nat /\ 1073741824 * hop <= x /\ x < 1073741824 * hop + 1073741824
  BY DivBounds, SMT
<1>2. /\ est \in Nat /\ 2147483648 * est <= hop * 2305843009
      /\ hop * 2305843009 < 2147483648 * est + 2147483648
  <2>1. hop * 2305843009 \in Nat
    BY <1>1, SMT
  <2> QED BY <2>1, DivBounds, SMT
<1> HIDE DEF hop
<1>3. hop % 4294967296 = hop
  <2>1. hop < 4294967296
    BY <1>1, SMT
  <2> QED BY <1>1, <2>1, WordKeeps, SMT
<1> HIDE DEF est
<1>4. /\ est < 4294967296 /\ lo \in Nat /\ lo < 3000000000
  <2>1. x - est * 1000000000 < 3000000000 /\ 0 <= x - est * 1000000000 /\ est < 4294967296
    BY <1>1, <1>2, Estimate, SMT
  <2> QED BY <2>1, <1>2, SMT
<1>5. est % 4294967296 = est
  BY <1>2, <1>4, WordKeeps, SMT
<1> HIDE DEF lo
<1>6. lo % 4294967296 = lo
  BY <1>4, WordKeeps, SMT
<1>7. /\ lo < MULBASE => Split(x) = [lo |-> lo, est |-> est]
      /\ ~ (lo < MULBASE) /\ lo - MULBASE < MULBASE => Split(x) = [lo |-> lo - MULBASE, est |-> est + 1]
      /\ ~ (lo < MULBASE) /\ ~ (lo - MULBASE < MULBASE) => Split(x) = [lo |-> lo - 2 * MULBASE, est |-> est + 2]
  <2>1. hop = (x \div HopUnit) % WORD
    BY <1>3, <1>0, SMT DEF hop
  <2>2. est = ((hop * MULMAGIC) \div EstUnit) % WORD
    BY <1>5, <1>0, SMT DEF est
  <2>3. lo = (x - est * MULBASE) % WORD
    BY <1>6, <1>0, SMT DEF lo
  <2> QED BY <2>1, <2>2, <2>3, SplitBranches, SMTT(30)
<1>8. x = est * 1000000000 + lo
  BY <1>2, SMT DEF lo
<1>9. CASE lo < 1000000000
  <2>1. x % 1000000000 = lo /\ x \div 1000000000 = est
    BY <1>2, <1>4, <1>8, <1>9, DivUnique, SMT
  <2> QED BY <1>7, <1>9, <2>1, <1>0, SMT
<1>10. CASE lo >= 1000000000 /\ lo < 2000000000
  <2>1. x % 1000000000 = lo - 1000000000 /\ x \div 1000000000 = est + 1
    BY <1>2, <1>4, <1>8, <1>10, SMT
  <2> QED BY <1>4, <1>7, <1>10, <2>1, <1>0, SMT
<1>11. CASE lo >= 2000000000
  <2>1. x % 1000000000 = lo - 2000000000 /\ x \div 1000000000 = est + 2
    BY <1>2, <1>4, <1>8, <1>11, SMT
  <2> QED BY <1>4, <1>7, <1>11, <2>1, <1>0, SMT
<1> QED BY <1>4, <1>9, <1>10, <1>11, SMT

-----------------------------------------------------------------------------
\* A column holds at most one product of units for every unit of bufr, and
\* below the one after pl perhaps also a carry.
ColumnsInv ==
  /\ ui \in 0..4 /\ pl \in 0..8 /\ (pl > 0 => ui = 4)
  /\ bufl \in [0..3 -> Units] /\ bufr \in [0..3 -> Units]
  /\ accl \in [0..7 -> Nat]
  /\ \A k \in 0..7 : accl[k] <= ui * (999999999 * 999999999) + 4 * 1000000000
  /\ \A k \in 0..7 : k > pl => accl[k] <= ui * (999999999 * 999999999)

LEMMA ColumnsInit ==
  ASSUME QuadConstants, Init
  PROVE  ColumnsInv
<1>1. MULOPLEN = 4 /\ Columns = 0..7
  BY SMT DEF QuadConstants, Columns
<1>2. bufl \in [0..3 -> Units] /\ bufr \in [0..3 -> Units] /\ ui = 0 /\ pl = 0
  BY <1>1, SMT DEF Init, Coefficient
<1>3. accl = [k \in 0..7 |-> 0]
  BY <1>1, SMT DEF Init
<1> QED BY <1>2, <1>3, SMT DEF ColumnsInv

\* The carry of a column that is split.
LEMMA Carry ==
  ASSUME QuadConstants, NEW x \in Nat, x <= 4 * 999999998000000001 + 4000000000
  PROVE  /\ Split(x).lo = x % MULBASE /\ Split(x).est = x \div MULBASE
         /\ Split(x).est \in Nat /\ Split(x).est <= 4000000000
<1>1. Split(x) = [lo |-> x % MULBASE, est |-> x \div MULBASE]
  BY SplitExact, SMT
<1>2. MULBASE = 1000000000
  BY SMT DEF QuadConstants
<1>3. x \div 1000000000 \in Nat /\ 1000000000 * (x \div 1000000000) <= x
  BY DivBounds, SMT
<1>4. x \div 1000000000 <= 4000000000
  BY <1>3, SMT
<1> QED BY <1>1, <1>2, <1>3, <1>4, SMT

LEMMA ColumnsStep ==
  ASSUME QuadConstants, ColumnsInv, [Next]_vars
  PROVE  ColumnsInv'
<1>1. MULOPLEN = 4 /\ Columns = 0..7 /\ MULBASE = 1000000000
  BY SMT DEF QuadConstants, Columns
<1>2. \A u \in Units : u \in Nat /\ u <= 999999999
  BY SMT DEF QuadConstants
<1>3. CASE MultiplyUnit
  <2>1. /\ ui \in 0..3 /\ ui' = ui + 1 /\ pl = 0 /\ pl' = pl /\ bufl' = bufl /\ bufr' = bufr
        /\ accl' = [k \in 0..7 |->
                      IF k - ui \in 0..3 THEN accl[k] + bufr[ui] * bufl[k - ui] ELSE accl[k]]
    BY <1>1, <1>3, SMT DEF MultiplyUnit, ColumnsInv
  <2>2. ASSUME NEW k \in 0..7
        PROVE  /\ accl'[k] \in Nat
               /\ accl'[k] <= accl[k] + 999999998000000001
    <3>1. accl[k] \in Nat
      BY SMT DEF ColumnsInv
    <3>2. CASE k - ui \in 0..3
      <4>1. bufr[ui] \in Units /\ bufl[k - ui] \in Units
        BY <2>1, <3>2, SMT DEF ColumnsInv
      <4>2. bufr[ui] * bufl[k - ui] \in Nat /\ bufr[ui] * bufl[k - ui] <= 999999998000000001
        BY <1>2, <4>1, UnitProduct, SMT
      <4>3. accl'[k] = accl[k] + bufr[ui] * bufl[k - ui]
        BY <2>1, <3>2, SMT
      <4> QED BY <3>1, <4>2, <4>3, SMT
    <3>3. CASE ~ (k - ui \in 0..3)
      BY <2>1, <3>1, <3>3, SMT
    <3> QED BY <3>2, <3>3, SMT
  <2>3. accl' \in [0..7 -> Nat]
    BY <2>1, <2>2, SMT
  <2>4. /\ \A k \in 0..7 : accl'[k] <= ui' * 999999998000000001 + 4000000000
        /\ \A k \in 0..7 : k > pl' => accl'[k] <= ui' * 999999998000000001
    BY <2>1, <2>2, SMT DEF ColumnsInv
  <2> QED BY <2>1, <2>3, <2>4, SMT DEF ColumnsInv
<1>4. CASE ResolveColumn
  <2> DEFINE split == IF accl[pl] >= MULBASE THEN Split(accl[pl]) ELSE [lo |-> accl[pl], est |-> 0]
  <2>1. /\ ui = 4 /\ ui' = ui /\ pl \in 0..7 /\ pl' = pl + 1 /\ bufl' = bufl /\ bufr' = bufr
        /\ accl' = [k \in 0..7 |-> IF k = pl + 1 THEN accl[k] + split.est ELSE accl[k]]
    BY <1>1, <1>4, SMT DEF ResolveColumn
  <2>2. accl[pl] \in Nat /\ accl[pl] <= 4 * 999999998000000001 + 4000000000
    BY <2>1, SMT DEF ColumnsInv
  <2>3. split.est \in Nat /\ split.est <= 4000000000
    BY <1>1, <2>2, Carry, SMT
  <2> HIDE DEF split
  <2>4. accl' \in [0..7 -> Nat]
    BY <2>1, <2>3, SMT DEF ColumnsInv
  <2>5. /\ \A k \in 0..7 : accl'[k] <= ui' * 999999998000000001 + 4000000000
        /\ \A k \in 0..7 : k > pl' => accl'[k] <= ui' * 999999998000000001
    BY <2>1, <2>3, SMT DEF ColumnsInv
  <2> QED BY <2>1, <2>4, <2>5, SMT DEF ColumnsInv
<1>5. CASE Done \/ UNCHANGED vars
  BY <1>5, SMT DEF Done, vars, ColumnsInv
<1> QED BY <1>3, <1>4, <1>5, SMT DEF Next

\* The columns of decFiniteMultiply never outgrow the bound the estimate is made
\* for, whatever the operands, and every one of them is split exactly.
THEOREM SplitIsAlwaysExact ==
  ASSUME QuadConstants
  PROVE  Spec => []SplitIsExact
<1>1. Init => ColumnsInv
  BY ColumnsInit, SMT
<1>2. ColumnsInv /\ [Next]_vars => ColumnsInv'
  BY ColumnsStep, SMT
<1>3. ColumnsInv => SplitIsExact
  <2> SUFFICES ASSUME ColumnsInv, ui = MULOPLEN, pl \in Columns
               PROVE  /\ accl[pl] < MULOPLEN * MULBASE * MULBASE
                      /\ Split(accl[pl]) = [lo |-> accl[pl] % MULBASE, est |-> accl[pl] \div MULBASE]
    BY SMT DEF SplitIsExact
  <2>1. MULOPLEN = 4 /\ Columns = 0..7 /\ MULBASE = 1000000000
    BY SMT DEF QuadConstants, Columns
  <2>2. accl[pl] \in Nat /\ accl[pl] < 4000000000000000000
    BY <2>1, SMT DEF ColumnsInv
  <2>3. accl[pl] < MULOPLEN * MULBASE * MULBASE
    BY <2>1, <2>2, SMT
  <2> QED BY <2>2, <2>3, SplitExact, SMT
<1> QED BY <1>1, <1>2, <1>3, PTL DEF Spec
=============================================================================
