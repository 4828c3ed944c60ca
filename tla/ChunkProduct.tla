----------------------------- MODULE ChunkProduct -----------------------------
(***************************************************************************)
(* The fast multiplication of decNumber.c: both numbers are cut into       *)
(* chunks, and the products of chunks are added into 64-bit items without  *)
(* carrying.  Carries are resolved when FASTLAZY rows have been added, and *)
(* after the last row.  An item may hold so many products and no more, and *)
(* its carry may reach over two places.                                    *)
(*                                                                         *)
(* zlhi and zrhi are the chunks of the two numbers, the least first; rip   *)
(* is the row being added, and lp the item being resolved, or 0.           *)
(***************************************************************************)
EXTENDS Integers, Sequences, TLAPS

CONSTANTS
  FASTBASE,       \* chunks are below this (10^9)
  FASTLAZY,       \* rows that are added before carries are resolved (18)
  LONG_MAX,       \* greatest value of an item (2^64 - 1)
  LeftNumbers, RightNumbers      \* chunks of the numbers to be multiplied

Product == (FASTBASE - 1) * (FASTBASE - 1)      \* greatest product of two chunks
Carry2Max == LONG_MAX \div (FASTBASE * FASTBASE)

\* The rows between two resolutions, a chunk left over, and what is carried into
\* an item while the ones below it are resolved, fit into it.
ASSUME LazyAssumption ==
  /\ FASTBASE \in Nat /\ FASTBASE > 1
  /\ FASTLAZY \in Nat /\ FASTLAZY > 0
  /\ LONG_MAX \in Nat
  /\ FASTLAZY * Product + 2 * (FASTBASE - 1) + Carry2Max <= LONG_MAX
ASSUME NumbersAssumption ==
  /\ LeftNumbers \subseteq Seq(0..FASTBASE - 1) \ {<<>>}
  /\ RightNumbers \subseteq Seq(0..FASTBASE - 1) \ {<<>>}

VARIABLES zlhi, zrhi, zacc, rip, lazy, lp, beyond
vars == <<zlhi, zrhi, zacc, rip, lazy, lp, beyond>>

iacc == Len(zlhi) + Len(zrhi)

\* 64-bit additions.
Wrapped(n) == n % (LONG_MAX + 1)

\* What row r adds to item i.
RowItem(r, i) == IF i - r + 1 \in 1..Len(zlhi) THEN zlhi[i - r + 1] * zrhi[r] ELSE 0

Init ==
  /\ zlhi \in LeftNumbers /\ zrhi \in RightNumbers
  /\ Len(zrhi) <= Len(zlhi)
  /\ zacc = [i \in 1..iacc |-> 0]
  /\ rip = 1 /\ lazy = FASTLAZY /\ lp = 0 /\ beyond = FALSE

Added == [i \in 1..iacc |-> Wrapped(zacc[i] + RowItem(rip, i))]

\* Mutant of Resolves: one row too late.
ResolvesLate == lazy <= 0 \/ rip = Len(zrhi)

\* Carries are resolved after this row.
Resolves == lazy <= 1 \/ rip = Len(zrhi)

AddRow ==
  /\ lp = 0 /\ rip <= Len(zrhi)
  /\ ~Resolves
  /\ zacc' = Added
  /\ rip' = rip + 1 /\ lazy' = lazy - 1
  /\ UNCHANGED <<zlhi, zrhi, lp, beyond>>

AddLastRow ==
  /\ lp = 0 /\ rip <= Len(zrhi)
  /\ Resolves
  /\ zacc' = Added
  /\ lazy' = FASTLAZY /\ lp' = 1
  /\ UNCHANGED <<zlhi, zrhi, rip, beyond>>

\* The carry of a value into the next item and into the one after it.
Carry2(v) == IF v \div FASTBASE < FASTBASE THEN 0 ELSE (v \div FASTBASE) \div FASTBASE
Carry(v)  == v \div FASTBASE - FASTBASE * Carry2(v)
Rest(v)   == v - FASTBASE * FASTBASE * Carry2(v) - FASTBASE * Carry(v)

Resolved(acc, i) ==
  LET v == acc[i]
  IN [j \in DOMAIN acc |-> IF j = i THEN Rest(v)
                           ELSE IF j = i + 1 THEN Wrapped(acc[j] + Carry(v))
                           ELSE IF j = i + 2 THEN Wrapped(acc[j] + Carry2(v))
                           ELSE acc[j]]

Resolve ==
  /\ lp > 0
  /\ zacc' = IF zacc[lp] < FASTBASE THEN zacc ELSE Resolved(zacc, lp)
  /\ beyond' = (beyond \/ (zacc[lp] >= FASTBASE /\ lp = iacc)
                       \/ (Carry2(zacc[lp]) # 0 /\ lp = iacc - 1))
  /\ lp' = IF lp = iacc THEN 0 ELSE lp + 1
  /\ rip' = IF lp = iacc THEN rip + 1 ELSE rip
  /\ UNCHANGED <<zlhi, zrhi, lazy>>

Next == AddRow \/ AddLastRow \/ Resolve

Spec == Init /\ [][Next]_vars

-----------------------------------------------------------------------------

TypeOK ==
  /\ zlhi \in LeftNumbers /\ zrhi \in RightNumbers
  /\ zacc \in [1..iacc -> 0..LONG_MAX]
  /\ rip \in 1..Len(zrhi) + 1 /\ lazy \in 1..FASTLAZY /\ lp \in 0..iacc
  /\ lp > 0 => rip <= Len(zrhi)
  /\ beyond \in BOOLEAN

\* No item wraps: neither when a row is added to it nor when it is carried into
\* (the lazy carries of decMultiplyOp).
NoWrap ==
  /\ lp = 0 /\ rip <= Len(zrhi) => \A i \in 1..iacc : zacc[i] + RowItem(rip, i) <= LONG_MAX
  /\ lp > 0 /\ zacc[lp] >= FASTBASE =>
       /\ lp < iacc => zacc[lp + 1] + Carry(zacc[lp]) <= LONG_MAX
       /\ lp + 1 < iacc => zacc[lp + 2] + Carry2(zacc[lp]) <= LONG_MAX

\* The number that chunks stand for.
ChunksValue(s, n) ==
  LET sum[i \in 0..n] == IF i = 0 THEN 0 ELSE sum[i - 1] + s[i] * FASTBASE^(i - 1)
  IN sum[n]

RowsAdded == IF lp > 0 THEN rip ELSE rip - 1

\* At every moment the items stand for the product of the rows added, carried or
\* not (decMultiplyOp).
AccumulatorExact ==
  ChunksValue(zacc, iacc) = ChunksValue(zlhi, Len(zlhi)) * ChunksValue(zrhi, RowsAdded)

\* Nothing is ever carried beyond the last item, where there is no room for it.
InsideAccumulator == ~beyond

\* In the end every item is a chunk, which fits 32 bits.
EndsAsChunks ==
  rip > Len(zrhi) => \A i \in 1..iacc : zacc[i] < FASTBASE

-----------------------------------------------------------------------------
(* No item wraps, for numbers of any length and every base, count of lazy  *)
(* rows and size of an item that meet LazyAssumption, as the numbers of    *)
(* decNumber.c do.                                                         *)

\* An item after k rows that have not been resolved.
RowBound(k) == (FASTBASE - 1) + k * Product

LEMMA Sizes ==
  /\ FASTBASE \in Nat /\ FASTBASE > 1
  /\ FASTLAZY \in Nat /\ FASTLAZY > 0
  /\ LONG_MAX \in Nat /\ Product \in Nat /\ Carry2Max \in Nat
  /\ RowBound(FASTLAZY) + (FASTBASE - 1) + Carry2Max <= LONG_MAX
<1>1. FASTBASE - 1 \in Nat
  BY LazyAssumption
<1>2. Product \in Nat
  BY <1>1 DEF Product
<1>3. FASTBASE * FASTBASE \in Nat /\ FASTBASE * FASTBASE > 0
  BY LazyAssumption
<1>4. Carry2Max \in Nat
  BY <1>3, LazyAssumption DEF Carry2Max
<1>5. FASTLAZY * Product \in Nat
  BY <1>2, LazyAssumption
<1> QED
  BY <1>1, <1>2, <1>4, <1>5, LazyAssumption DEF RowBound

LEMMA RowBoundNat == ASSUME NEW k \in Nat PROVE RowBound(k) \in Nat
<1>1. k * Product \in Nat
  BY Sizes
<1> QED
  BY <1>1, Sizes DEF RowBound

LEMMA RowBoundStep == ASSUME NEW k \in Nat PROVE RowBound(k) + Product = RowBound(k + 1)
<1> DEFINE p == Product
<1>1. p \in Int
  BY Sizes
<1>2. k * p + p = (k + 1) * p
  <2> HIDE DEF p
  <2> QED BY <1>1
<1>3. k * p \in Int /\ (k + 1) * p \in Int
  <2> HIDE DEF p
  <2> QED BY <1>1
<1> QED
  BY <1>1, <1>2, <1>3, Sizes DEF RowBound

LEMMA RowBoundOrder ==
  ASSUME NEW j \in Nat, NEW k \in Nat, j <= k PROVE RowBound(j) <= RowBound(k)
<1> DEFINE p == Product  d == k - j
<1>1. p \in Nat /\ d \in Nat
  BY Sizes
<1>2. k * p = j * p + d * p /\ d * p \in Nat /\ j * p \in Nat /\ k * p \in Nat
  <2>1. k = j + d
    OBVIOUS
  <2> HIDE DEF p, d
  <2>2. (j + d) * p = j * p + d * p
    BY <1>1
  <2> QED BY <1>1, <2>1, <2>2
<1> QED
  BY <1>1, <1>2, Sizes DEF RowBound

\* Carries and rests are chunks, and the second carry is small (lines 5033-5046 of
\* decNumber.c).
LEMMA CarryBounds ==
  ASSUME NEW v \in 0..LONG_MAX
  PROVE  /\ Carry(v) \in 0..FASTBASE - 1
         /\ Carry2(v) \in 0..Carry2Max
         /\ Rest(v) \in 0..FASTBASE - 1
<1> DEFINE b == FASTBASE
           q == v \div b
           q2 == q \div b
<1>1. v \in Nat /\ b \in Nat /\ b > 1 /\ LONG_MAX \in Nat /\ v <= LONG_MAX
  BY Sizes
<1>2. q \in Nat /\ v - b * q \in 0..b - 1
  <2> HIDE DEF b
  <2> QED BY <1>1
<1>3. q2 \in Nat /\ q - b * q2 \in 0..b - 1
  <2> HIDE DEF b
  <2>1. \A n \in Nat : n \div b \in Nat /\ n - b * (n \div b) \in 0..b - 1
    BY <1>1
  <2> QED BY <1>2, <2>1
<1>4. q2 <= LONG_MAX \div (b * b)
  <2> DEFINE s == b * b  m == LONG_MAX \div s
  <2>1. s \in Nat /\ s > 0
    <3> HIDE DEF b
    <3> QED BY <1>1
  <2>2. m \in Nat /\ LONG_MAX - s * m \in 0..s - 1
    <3> HIDE DEF s
    <3> QED BY <1>1, <2>1
  <2>3. s * q2 <= v
    <3> HIDE DEF q2, q, b
    <3>1. b * (b * q2) <= b * q
      BY <1>1, <1>2, <1>3
    <3>2. b * (b * q2) = (b * b) * q2
      BY <1>1, <1>3
    <3>3. b * q <= v /\ b * q \in Nat /\ b * (b * q2) \in Nat
      BY <1>1, <1>2, <1>3
    <3> QED BY <3>1, <3>2, <3>3, <1>1
  <2>4. s * q2 < s * (m + 1)
    <3> HIDE DEF s, m, q2
    <3>1. s * (m + 1) = s * m + s /\ s * m \in Nat /\ s * q2 \in Nat
      BY <2>1, <2>2, <1>3
    <3> QED BY <3>1, <2>1, <2>2, <2>3, <1>1
  <2>5. ASSUME q2 >= m + 1 PROVE FALSE
    <3> HIDE DEF s, m, q2
    <3> DEFINE e == q2 - (m + 1)
    <3>1. e \in Nat /\ q2 = (m + 1) + e
      BY <2>5, <2>2, <1>3
    <3>2. s * q2 = s * (m + 1) + s * e /\ s * e \in Nat /\ s * (m + 1) \in Nat
      <4> HIDE DEF e
      <4> QED BY <3>1, <2>1, <2>2
    <3> QED BY <3>2, <2>4
  <2> HIDE DEF s, m, q2
  <2>6. q2 <= m
    BY <2>5, <2>2, <1>3
  <2> QED BY <2>6 DEF s, m
<1>5. CASE q < b
  <2>1. Carry2(v) = 0
    BY <1>5 DEF Carry2
  <2>2. Carry(v) = q
    BY <2>1, <1>1, <1>2 DEF Carry
  <2>3. Rest(v) = v - b * q
    BY <2>1, <2>2, <1>1, <1>2 DEF Rest
  <2> QED BY <2>1, <2>2, <2>3, <1>2, <1>5, Sizes
<1>6. CASE ~(q < b)
  <2>1. Carry2(v) = q2
    BY <1>6 DEF Carry2
  <2>2. Carry(v) = q - b * q2
    BY <2>1 DEF Carry
  <2>3. Rest(v) = v - b * q
    <3>1. Rest(v) = v - b * b * q2 - b * (q - b * q2)
      BY <2>1, <2>2 DEF Rest
    <3>2. v - b * b * q2 - b * (q - b * q2) = v - b * q
      <4> HIDE DEF q2, q, b
      <4>1. b * (q - b * q2) = b * q - b * (b * q2)
        BY <1>1, <1>2, <1>3
      <4>2. b * b * q2 = b * (b * q2) /\ b * (b * q2) \in Int /\ b * q \in Int
        BY <1>1, <1>2, <1>3
      <4> QED BY <4>1, <4>2, <1>1
    <3> QED BY <3>1, <3>2
  <2> QED BY <2>1, <2>2, <2>3, <1>2, <1>3, <1>4 DEF Carry2Max
<1> QED BY <1>5, <1>6

-----------------------------------------------------------------------------

\* The types without the bound of an item, which follows from the rest.
Shape ==
  /\ zlhi \in LeftNumbers /\ zrhi \in RightNumbers
  /\ zacc \in [1..iacc -> Nat]
  /\ rip \in 1..Len(zrhi) + 1 /\ lazy \in 1..FASTLAZY /\ lp \in 0..iacc
  /\ lp > 0 => rip <= Len(zrhi) /\ lazy = FASTLAZY
  /\ rip > Len(zrhi) => lazy = FASTLAZY
  /\ beyond \in BOOLEAN

\* While rows are added, an item holds as many products as rows were added since
\* the last resolution.
AddingBound == lp = 0 => \A i \in 1..iacc : zacc[i] <= RowBound(FASTLAZY - lazy)

\* While carries are resolved, the items below are chunks, and the next two may
\* have been carried into.
ResolvingBound ==
  lp > 0 => \A i \in 1..iacc :
    /\ i < lp => zacc[i] <= FASTBASE - 1
    /\ i = lp => zacc[i] <= RowBound(FASTLAZY) + (FASTBASE - 1) + Carry2Max
    /\ i = lp + 1 => zacc[i] <= RowBound(FASTLAZY) + Carry2Max
    /\ i > lp + 1 => zacc[i] <= RowBound(FASTLAZY)

IInv == Shape /\ AddingBound /\ ResolvingBound

LEMMA NumbersShape ==
  ASSUME zlhi \in LeftNumbers, zrhi \in RightNumbers
  PROVE  /\ zlhi \in Seq(0..FASTBASE - 1) /\ zrhi \in Seq(0..FASTBASE - 1)
         /\ Len(zlhi) \in Nat /\ Len(zlhi) > 0 /\ Len(zrhi) \in Nat /\ Len(zrhi) > 0
         /\ iacc \in Nat /\ iacc > 0
<1>1. zlhi \in Seq(0..FASTBASE - 1) /\ zrhi \in Seq(0..FASTBASE - 1) /\ zlhi # <<>> /\ zrhi # <<>>
  BY NumbersAssumption
<1> QED
  BY <1>1 DEF iacc

\* A row adds at most one product of two chunks to an item.
LEMMA RowItemBound ==
  ASSUME Shape, rip <= Len(zrhi), NEW i \in 1..iacc
  PROVE  RowItem(rip, i) \in 0..Product
<1>1. zlhi \in Seq(0..FASTBASE - 1) /\ zrhi \in Seq(0..FASTBASE - 1) /\ iacc \in Nat /\ rip \in 1..Len(zrhi)
  BY NumbersShape DEF Shape
<1>2. Product \in Nat
  BY Sizes
<1>3. CASE i - rip + 1 \in 1..Len(zlhi)
  <2> DEFINE x == zlhi[i - rip + 1]  y == zrhi[rip]  m == FASTBASE - 1
  <2>1. x \in 0..m /\ y \in 0..m /\ m \in Nat
    BY <1>1, <1>3, Sizes, SMTT(60)
  <2>2. x * y \in Nat /\ x * y <= m * m
    <3> HIDE DEF x, y, m
    <3>1. x * y <= m * y /\ m * y <= m * m /\ x * y \in Nat /\ m * y \in Nat /\ m * m \in Nat
      <4> DEFINE a == m - x  c == m - y
      <4>1. a \in Nat /\ c \in Nat /\ m = x + a /\ m = y + c
        BY <2>1
      <4>2. m * y = x * y + a * y /\ a * y \in Nat /\ x * y \in Nat
        <5> HIDE DEF a, c
        <5>1. (x + a) * y = x * y + a * y
          BY <2>1, <4>1
        <5> QED BY <2>1, <4>1, <5>1
      <4>3. m * m = m * y + m * c /\ m * c \in Nat /\ m * y \in Nat
        <5> HIDE DEF a, c
        <5>1. m * (y + c) = m * y + m * c
          BY <2>1, <4>1
        <5> QED BY <2>1, <4>1, <5>1
      <4> HIDE DEF a, c
      <4> QED BY <4>2, <4>3
    <3> QED BY <3>1
  <2> QED BY <1>3, <2>2 DEF RowItem, Product
<1>4. CASE i - rip + 1 \notin 1..Len(zlhi)
  BY <1>2, <1>4 DEF RowItem
<1> QED BY <1>3, <1>4

\* Adding a row wraps no item.
LEMMA RowFits ==
  ASSUME IInv, lp = 0, rip <= Len(zrhi), NEW i \in 1..iacc
  PROVE  /\ zacc[i] + RowItem(rip, i) \in Nat
         /\ zacc[i] + RowItem(rip, i) <= RowBound(FASTLAZY - lazy + 1)
         /\ zacc[i] + RowItem(rip, i) <= LONG_MAX
<1>1. RowItem(rip, i) \in 0..Product
  BY RowItemBound DEF IInv
<1>2. zacc[i] \in Nat /\ lazy \in 1..FASTLAZY
  BY DEF IInv, Shape
<1>3. FASTLAZY - lazy \in Nat /\ FASTLAZY - lazy + 1 \in Nat /\ FASTLAZY - lazy + 1 <= FASTLAZY
  BY <1>2, Sizes
<1>4. zacc[i] <= RowBound(FASTLAZY - lazy)
  BY DEF IInv, AddingBound
<1>5. RowBound(FASTLAZY - lazy) + Product = RowBound(FASTLAZY - lazy + 1)
  BY <1>3, RowBoundStep
<1>6. RowBound(FASTLAZY - lazy + 1) <= RowBound(FASTLAZY)
  BY <1>3, RowBoundOrder, Sizes
<1>7. RowBound(FASTLAZY - lazy) \in Nat /\ RowBound(FASTLAZY - lazy + 1) \in Nat /\ RowBound(FASTLAZY) \in Nat
  BY <1>3, RowBoundNat, Sizes
<1> DEFINE z == zacc[i]  r == RowItem(rip, i)
           b == RowBound(FASTLAZY - lazy)  c == RowBound(FASTLAZY - lazy + 1)  d == RowBound(FASTLAZY)
<1>8. d <= LONG_MAX
  BY <1>7, Sizes
<1>9. z \in Nat /\ r \in Nat /\ r <= Product /\ z <= b /\ b + Product = c /\ c <= d
      /\ b \in Nat /\ c \in Nat /\ d \in Nat /\ Product \in Nat
  BY <1>1, <1>2, <1>4, <1>5, <1>6, <1>7, Sizes
<1>10. z + r \in Nat /\ z + r <= c /\ z + r <= LONG_MAX
  <2> HIDE DEF z, r, b, c, d
  <2> QED BY <1>8, <1>9, Sizes
<1> QED
  BY <1>10

LEMMA AddedItems ==
  ASSUME IInv, lp = 0, rip <= Len(zrhi), zacc' = Added
  PROVE  /\ zacc' \in [1..iacc -> Nat]
         /\ \A i \in 1..iacc : zacc'[i] <= RowBound(FASTLAZY - lazy + 1)
<1>1. ASSUME NEW i \in 1..iacc
      PROVE  Added[i] \in Nat /\ Added[i] <= RowBound(FASTLAZY - lazy + 1)
  <2>1. Added[i] = Wrapped(zacc[i] + RowItem(rip, i))
    BY DEF Added
  <2>2. Wrapped(zacc[i] + RowItem(rip, i)) = zacc[i] + RowItem(rip, i)
    <3> DEFINE n == zacc[i] + RowItem(rip, i)
    <3>1. n \in 0..LONG_MAX /\ LONG_MAX \in Nat
      BY RowFits, Sizes
    <3>2. n % (LONG_MAX + 1) = n
      <4> HIDE DEF n
      <4> QED BY <3>1
    <3> QED BY <3>2 DEF Wrapped
  <2> QED BY <2>1, <2>2, RowFits
<1> QED
  BY <1>1 DEF Added

LEMMA ItemFits ==
  ASSUME IInv, NEW i \in 1..iacc
  PROVE  zacc[i] \in 0..LONG_MAX
<1>1. zacc[i] \in Nat /\ lazy \in 1..FASTLAZY /\ lp \in 0..iacc /\ iacc \in Nat
  BY NumbersShape DEF IInv, Shape
<1>2. RowBound(FASTLAZY) \in Nat
  BY RowBoundNat, Sizes
<1>3. CASE lp = 0
  <2>1. FASTLAZY - lazy \in Nat /\ FASTLAZY - lazy <= FASTLAZY
    BY <1>1, Sizes
  <2>2. RowBound(FASTLAZY - lazy) <= RowBound(FASTLAZY) /\ RowBound(FASTLAZY - lazy) \in Nat
    BY <2>1, RowBoundOrder, RowBoundNat, Sizes
  <2>3. zacc[i] <= RowBound(FASTLAZY - lazy)
    BY <1>3 DEF IInv, AddingBound
  <2> QED BY <1>1, <1>2, <2>2, <2>3, Sizes
<1>4. CASE lp > 0
  <2>1. FASTBASE - 1 <= RowBound(FASTLAZY)
    <3>1. FASTLAZY * Product \in Nat
      BY Sizes
    <3> QED BY <3>1, Sizes DEF RowBound
  <2> QED BY <1>1, <1>2, <1>4, <2>1, Sizes DEF IInv, ResolvingBound
<1> QED BY <1>1, <1>3, <1>4

\* An item being resolved and what it carries, and that the carries wrap nothing.
LEMMA CarryFits ==
  ASSUME IInv, lp > 0
  PROVE  /\ zacc[lp] \in 0..LONG_MAX
         /\ Carry(zacc[lp]) \in 0..FASTBASE - 1
         /\ Carry2(zacc[lp]) \in 0..Carry2Max
         /\ Rest(zacc[lp]) \in 0..FASTBASE - 1
         /\ lp < iacc =>
              /\ zacc[lp + 1] + Carry(zacc[lp]) \in 0..LONG_MAX
              /\ zacc[lp + 1] + Carry(zacc[lp]) <= RowBound(FASTLAZY) + (FASTBASE - 1) + Carry2Max
         /\ lp + 1 < iacc =>
              /\ zacc[lp + 2] + Carry2(zacc[lp]) \in 0..LONG_MAX
              /\ zacc[lp + 2] + Carry2(zacc[lp]) <= RowBound(FASTLAZY) + Carry2Max
<1>1. lp \in 1..iacc /\ iacc \in Nat /\ zacc \in [1..iacc -> Nat]
  BY NumbersShape DEF IInv, Shape
<1>2. zacc[lp] \in 0..LONG_MAX
  BY <1>1, ItemFits
<1>3. Carry(zacc[lp]) \in 0..FASTBASE - 1 /\ Carry2(zacc[lp]) \in 0..Carry2Max /\ Rest(zacc[lp]) \in 0..FASTBASE - 1
  BY <1>2, CarryBounds
<1>4. RowBound(FASTLAZY) \in Nat
  BY RowBoundNat, Sizes
<1>5. ASSUME lp < iacc
      PROVE  /\ zacc[lp + 1] + Carry(zacc[lp]) \in 0..LONG_MAX
             /\ zacc[lp + 1] + Carry(zacc[lp]) <= RowBound(FASTLAZY) + (FASTBASE - 1) + Carry2Max
  <2>1. lp + 1 \in 1..iacc
    BY <1>1, <1>5
  <2>2. zacc[lp + 1] \in Nat /\ zacc[lp + 1] <= RowBound(FASTLAZY) + Carry2Max
    BY <1>1, <2>1 DEF IInv, ResolvingBound
  <2> QED BY <1>3, <1>4, <2>2, Sizes
<1>6. ASSUME lp + 1 < iacc
      PROVE  /\ zacc[lp + 2] + Carry2(zacc[lp]) \in 0..LONG_MAX
             /\ zacc[lp + 2] + Carry2(zacc[lp]) <= RowBound(FASTLAZY) + Carry2Max
  <2>1. lp + 2 \in 1..iacc /\ lp + 2 > lp + 1
    BY <1>1, <1>6
  <2>2. zacc[lp + 2] \in Nat /\ zacc[lp + 2] <= RowBound(FASTLAZY)
    BY <1>1, <2>1 DEF IInv, ResolvingBound
  <2> QED BY <1>3, <1>4, <2>2, Sizes
<1> QED BY <1>2, <1>3, <1>5, <1>6

\* The items after one of them is resolved.
LEMMA ResolvedItems ==
  ASSUME IInv, lp > 0, NEW acc, acc = IF zacc[lp] < FASTBASE THEN zacc ELSE Resolved(zacc, lp)
  PROVE  /\ acc \in [1..iacc -> Nat]
         /\ \A i \in 1..iacc :
              /\ i <= lp => acc[i] <= FASTBASE - 1
              /\ i = lp + 1 => acc[i] <= RowBound(FASTLAZY) + (FASTBASE - 1) + Carry2Max
              /\ i = lp + 2 => acc[i] <= RowBound(FASTLAZY) + Carry2Max
              /\ i > lp + 2 => acc[i] <= RowBound(FASTLAZY)
<1>1. lp \in 1..iacc /\ iacc \in Nat /\ zacc \in [1..iacc -> Nat]
  BY NumbersShape DEF IInv, Shape
<1>2. RowBound(FASTLAZY) \in Nat
  BY RowBoundNat, Sizes
<1>3. \A i \in 1..iacc :
        /\ i < lp => zacc[i] <= FASTBASE - 1
        /\ i = lp + 1 => zacc[i] <= RowBound(FASTLAZY) + Carry2Max
        /\ i > lp + 1 => zacc[i] <= RowBound(FASTLAZY)
  BY DEF IInv, ResolvingBound
<1>4. CASE zacc[lp] < FASTBASE
  <2>1. acc = zacc
    BY <1>4
  <2>2. zacc[lp] <= FASTBASE - 1
    BY <1>1, <1>4, Sizes
  <2>3. ASSUME NEW i \in 1..iacc
        PROVE  /\ i <= lp => zacc[i] <= FASTBASE - 1
               /\ i = lp + 1 => zacc[i] <= RowBound(FASTLAZY) + (FASTBASE - 1) + Carry2Max
               /\ i = lp + 2 => zacc[i] <= RowBound(FASTLAZY) + Carry2Max
               /\ i > lp + 2 => zacc[i] <= RowBound(FASTLAZY)
    <3>1. zacc[i] \in Nat
      BY <1>1
    <3> QED BY <1>1, <1>2, <1>3, <2>2, <3>1, Sizes, SMTT(60)
  <2> QED BY <1>1, <2>1, <2>3
<1>5. CASE ~(zacc[lp] < FASTBASE)
  <2> DEFINE v == zacc[lp]
  <2>1. acc = Resolved(zacc, lp)
    BY <1>5
  <2>2. DOMAIN zacc = 1..iacc
    BY <1>1
  <2>3. acc = [j \in 1..iacc |-> IF j = lp THEN Rest(v)
                                ELSE IF j = lp + 1 THEN Wrapped(zacc[j] + Carry(v))
                                ELSE IF j = lp + 2 THEN Wrapped(zacc[j] + Carry2(v))
                                ELSE zacc[j]]
    BY <2>1, <2>2 DEF Resolved
  <2> HIDE DEF v
  <2>4. ASSUME NEW i \in 1..iacc
        PROVE  /\ acc[i] \in Nat
               /\ i <= lp => acc[i] <= FASTBASE - 1
               /\ i = lp + 1 => acc[i] <= RowBound(FASTLAZY) + (FASTBASE - 1) + Carry2Max
               /\ i = lp + 2 => acc[i] <= RowBound(FASTLAZY) + Carry2Max
               /\ i > lp + 2 => acc[i] <= RowBound(FASTLAZY)
    <3>1. zacc[i] \in Nat
      BY <1>1
    <3>2. CASE i = lp
      <4>1. acc[i] = Rest(v)
        BY <2>3, <3>2
      <4> QED BY <1>1, <3>2, <4>1, CarryFits, Sizes, SMTT(60) DEF v
    <3>3. CASE i = lp + 1
      <4>1. acc[i] = Wrapped(zacc[i] + Carry(v))
        BY <1>1, <2>3, <3>3
      <4>2. zacc[i] + Carry(v) \in 0..LONG_MAX
            /\ zacc[i] + Carry(v) <= RowBound(FASTLAZY) + (FASTBASE - 1) + Carry2Max
        BY <1>1, <3>3, CarryFits DEF v
      <4>3. Wrapped(zacc[i] + Carry(v)) = zacc[i] + Carry(v)
        BY <4>2, Sizes DEF Wrapped
      <4> QED BY <1>1, <3>3, <4>1, <4>2, <4>3
    <3>4. CASE i = lp + 2
      <4>1. acc[i] = Wrapped(zacc[i] + Carry2(v))
        BY <1>1, <2>3, <3>4
      <4>2. zacc[i] + Carry2(v) \in 0..LONG_MAX
            /\ zacc[i] + Carry2(v) <= RowBound(FASTLAZY) + Carry2Max
        BY <1>1, <3>4, CarryFits DEF v
      <4>3. Wrapped(zacc[i] + Carry2(v)) = zacc[i] + Carry2(v)
        BY <4>2, Sizes DEF Wrapped
      <4> QED BY <1>1, <3>4, <4>1, <4>2, <4>3
    <3>5. CASE i # lp /\ i # lp + 1 /\ i # lp + 2
      <4>1. acc[i] = zacc[i]
        BY <2>3, <3>5
      <4> QED BY <1>1, <1>3, <3>1, <3>5, <4>1
    <3> QED BY <3>2, <3>3, <3>4, <3>5
  <2> QED BY <2>3, <2>4
<1> QED BY <1>4, <1>5

-----------------------------------------------------------------------------

LEMMA InitIInv == Init => IInv
<1> SUFFICES ASSUME Init PROVE IInv
  OBVIOUS
<1>1. iacc \in Nat /\ iacc > 0 /\ Len(zrhi) \in Nat /\ Len(zrhi) > 0
  BY NumbersShape DEF Init
<1>2. Shape
  <2>1. zacc \in [1..iacc -> Nat]
    BY DEF Init
  <2>2. rip \in 1..Len(zrhi) + 1 /\ rip <= Len(zrhi)
    BY <1>1 DEF Init
  <2>3. lazy \in 1..FASTLAZY /\ lazy = FASTLAZY /\ lp = 0 /\ lp \in 0..iacc
    BY <1>1, Sizes DEF Init
  <2>4. zlhi \in LeftNumbers /\ zrhi \in RightNumbers /\ beyond \in BOOLEAN
    BY DEF Init
  <2> QED BY <2>1, <2>2, <2>3, <2>4 DEF Shape
<1>3. AddingBound
  <2>1. FASTLAZY - lazy = 0 /\ RowBound(0) \in Nat
    BY Sizes, RowBoundNat DEF Init
  <2> QED BY <2>1 DEF Init, AddingBound
<1>4. ResolvingBound
  BY DEF Init, ResolvingBound
<1> QED BY <1>2, <1>3, <1>4 DEF IInv

LEMMA NextIInv == IInv /\ [Next]_vars => IInv'
<1> SUFFICES ASSUME IInv, [Next]_vars PROVE IInv'
  OBVIOUS
<1> USE DEF IInv
<1>0. iacc \in Nat /\ iacc > 0 /\ Len(zrhi) \in Nat /\ Len(zrhi) > 0
  BY NumbersShape DEF Shape
<1>1. CASE AddRow
  <2>1. /\ lp = 0 /\ lp' = 0 /\ rip <= Len(zrhi) /\ ~Resolves /\ zacc' = Added
        /\ rip' = rip + 1 /\ lazy' = lazy - 1
        /\ zlhi' = zlhi /\ zrhi' = zrhi /\ beyond' = beyond
    BY <1>1 DEF AddRow
  <2>2. iacc' = iacc
    BY <2>1 DEF iacc
  <2>3. lazy \in 1..FASTLAZY /\ lazy > 1 /\ rip # Len(zrhi) /\ rip \in Nat
    BY <2>1, Sizes DEF Resolves, Shape
  <2>4. zacc' \in [1..iacc -> Nat] /\ \A i \in 1..iacc : zacc'[i] <= RowBound(FASTLAZY - lazy + 1)
    BY <2>1, AddedItems
  <2>5. Shape'
    <3>1. rip' \in 1..Len(zrhi) + 1 /\ rip' <= Len(zrhi) /\ lazy' \in 1..FASTLAZY
      BY <1>0, <2>1, <2>3, Sizes DEF Shape
    <3> QED BY <1>0, <2>1, <2>2, <2>4, <3>1 DEF Shape
  <2>6. AddingBound'
    <3>1. FASTLAZY - lazy' = FASTLAZY - lazy + 1
      BY <2>1, <2>3, Sizes
    <3> QED BY <2>1, <2>2, <2>4, <3>1 DEF AddingBound
  <2>7. ResolvingBound'
    BY <2>1 DEF ResolvingBound
  <2> QED BY <2>5, <2>6, <2>7
<1>2. CASE AddLastRow
  <2>1. /\ lp = 0 /\ lp' = 1 /\ rip <= Len(zrhi) /\ zacc' = Added
        /\ rip' = rip /\ lazy' = FASTLAZY
        /\ zlhi' = zlhi /\ zrhi' = zrhi /\ beyond' = beyond
    BY <1>2 DEF AddLastRow
  <2>2. iacc' = iacc
    BY <2>1 DEF iacc
  <2>3. zacc' \in [1..iacc -> Nat] /\ \A i \in 1..iacc : zacc'[i] <= RowBound(FASTLAZY - lazy + 1)
    BY <2>1, AddedItems
  <2>4. RowBound(FASTLAZY - lazy + 1) <= RowBound(FASTLAZY)
        /\ RowBound(FASTLAZY - lazy + 1) \in Nat /\ RowBound(FASTLAZY) \in Nat
    <3>1. FASTLAZY - lazy + 1 \in Nat /\ FASTLAZY - lazy + 1 <= FASTLAZY
      BY Sizes DEF Shape
    <3> QED BY <3>1, RowBoundOrder, RowBoundNat, Sizes
  <2>5. Shape'
    BY <1>0, <2>1, <2>2, <2>3, Sizes, SMTT(60) DEF Shape
  <2>6. AddingBound'
    BY <2>1 DEF AddingBound
  <2>7. ResolvingBound'
    <3>1. ASSUME NEW i \in 1..iacc
          PROVE  /\ ~(i < 1)
                 /\ zacc'[i] <= RowBound(FASTLAZY)
                 /\ zacc'[i] <= RowBound(FASTLAZY) + Carry2Max
                 /\ zacc'[i] <= RowBound(FASTLAZY) + (FASTBASE - 1) + Carry2Max
      <4>1. zacc'[i] \in Nat /\ zacc'[i] <= RowBound(FASTLAZY - lazy + 1)
        BY <2>3
      <4> QED BY <1>0, <2>4, <4>1, Sizes
    <3> QED BY <2>1, <2>2, <3>1 DEF ResolvingBound
  <2> QED BY <2>5, <2>6, <2>7
<1>3. CASE Resolve
  <2>1. /\ lp > 0 /\ zacc' = (IF zacc[lp] < FASTBASE THEN zacc ELSE Resolved(zacc, lp))
        /\ lp' = (IF lp = iacc THEN 0 ELSE lp + 1)
        /\ rip' = (IF lp = iacc THEN rip + 1 ELSE rip)
        /\ zlhi' = zlhi /\ zrhi' = zrhi /\ lazy' = lazy
        /\ beyond' \in BOOLEAN
    BY <1>3 DEF Resolve, Shape
  <2>2. iacc' = iacc
    BY <2>1 DEF iacc
  <2>3. /\ zacc' \in [1..iacc -> Nat]
        /\ \A i \in 1..iacc :
             /\ i <= lp => zacc'[i] <= FASTBASE - 1
             /\ i = lp + 1 => zacc'[i] <= RowBound(FASTLAZY) + (FASTBASE - 1) + Carry2Max
             /\ i = lp + 2 => zacc'[i] <= RowBound(FASTLAZY) + Carry2Max
             /\ i > lp + 2 => zacc'[i] <= RowBound(FASTLAZY)
    BY <2>1, ResolvedItems
  <2>4. lp \in 1..iacc /\ rip \in Nat /\ rip >= 1 /\ rip <= Len(zrhi) /\ lazy = FASTLAZY
    BY <2>1, <1>0 DEF Shape
  <2>5. Shape'
    <3>1. lp' \in 0..iacc /\ rip' \in 1..Len(zrhi) + 1 /\ (lp' > 0 => rip' <= Len(zrhi))
      BY <1>0, <2>1, <2>4
    <3>2. lazy' \in 1..FASTLAZY /\ lazy' = FASTLAZY
      BY <2>1, <2>4, Sizes
    <3> QED BY <2>1, <2>2, <2>3, <3>1, <3>2 DEF Shape
  <2>6. CASE lp = iacc
    <3>1. lp' = 0 /\ FASTLAZY - lazy' = 0
      BY <2>1, <2>4, <2>6, Sizes
    <3>2. RowBound(0) = FASTBASE - 1
      BY Sizes DEF RowBound
    <3>3. AddingBound'
      <4>1. \A i \in 1..iacc : i <= lp
        BY <1>0, <2>6
      <4> QED BY <2>2, <2>3, <3>1, <3>2, <4>1 DEF AddingBound
    <3>4. ResolvingBound'
      BY <3>1 DEF ResolvingBound
    <3> QED BY <2>5, <3>3, <3>4
  <2>7. CASE lp # iacc
    <3>1. lp' = lp + 1
      BY <2>1, <2>7
    <3>2. AddingBound'
      BY <2>4, <3>1 DEF AddingBound
    <3>3. ResolvingBound'
      <4>1. ASSUME NEW i \in 1..iacc
            PROVE  /\ i < lp + 1 => zacc'[i] <= FASTBASE - 1
                   /\ i = lp + 1 => zacc'[i] <= RowBound(FASTLAZY) + (FASTBASE - 1) + Carry2Max
                   /\ i = lp + 1 + 1 => zacc'[i] <= RowBound(FASTLAZY) + Carry2Max
                   /\ i > lp + 1 + 1 => zacc'[i] <= RowBound(FASTLAZY)
        <5>1. /\ i < lp + 1 => i <= lp
              /\ i = lp + 1 + 1 => i = lp + 2
              /\ i > lp + 1 + 1 => i > lp + 2
          BY <1>0, <2>4
        <5> QED BY <2>3, <5>1
      <4> QED BY <2>2, <3>1, <4>1 DEF ResolvingBound
    <3> QED BY <2>5, <3>2, <3>3
  <2> QED BY <2>6, <2>7
<1>4. CASE UNCHANGED vars
  <2>1. iacc' = iacc
    BY <1>4 DEF vars, iacc
  <2>2. Shape'
    BY <1>4, <2>1 DEF vars, Shape
  <2>3. AddingBound' /\ ResolvingBound'
    BY <1>4, <2>1 DEF vars, AddingBound, ResolvingBound
  <2> QED BY <2>2, <2>3
<1> QED
  BY <1>1, <1>2, <1>3, <1>4 DEF Next

\* The bounds hold in every reachable state (FASTLAZY in decMultiplyOp).
THEOREM ItemsBounded == Spec => []IInv
<1> QED
  BY InitIInv, NextIInv, PTL DEF Spec

\* Items are always 64-bit numbers, and all else has its type.
THEOREM TypeCorrect == Spec => []TypeOK
<1>1. IInv => TypeOK
  <2> SUFFICES ASSUME IInv PROVE TypeOK
    OBVIOUS
  <2>1. \A i \in 1..iacc : zacc[i] \in 0..LONG_MAX
    BY ItemFits
  <2>2. zacc \in [1..iacc -> 0..LONG_MAX]
    BY <2>1 DEF IInv, Shape
  <2> QED BY <2>2 DEF IInv, Shape, TypeOK
<1> QED
  BY <1>1, ItemsBounded, PTL

\* No addition into an item wraps: not that of a row, not that of a carry
\* (lines 5025, 5041 and 5045 of decNumber.c).
THEOREM NothingWraps == Spec => []NoWrap
<1>1. IInv => NoWrap
  <2> SUFFICES ASSUME IInv PROVE NoWrap
    OBVIOUS
  <2>1. lp = 0 /\ rip <= Len(zrhi) => \A i \in 1..iacc : zacc[i] + RowItem(rip, i) <= LONG_MAX
    BY RowFits
  <2>2. ASSUME lp > 0
        PROVE  /\ lp < iacc => zacc[lp + 1] + Carry(zacc[lp]) <= LONG_MAX
               /\ lp + 1 < iacc => zacc[lp + 2] + Carry2(zacc[lp]) <= LONG_MAX
    BY <2>2, CarryFits
  <2> QED BY <2>1, <2>2 DEF NoWrap
<1> QED
  BY <1>1, ItemsBounded, PTL

\* In the end every item is a chunk, so that its low 32 bits are all of it
\* (line 5057 of decNumber.c).
THEOREM ChunksInTheEnd == Spec => []EndsAsChunks
<1>1. IInv => EndsAsChunks
  <2> SUFFICES ASSUME IInv, rip > Len(zrhi) PROVE \A i \in 1..iacc : zacc[i] < FASTBASE
    BY DEF EndsAsChunks
  <2>1. lazy = FASTLAZY /\ lp = 0 /\ zacc \in [1..iacc -> Nat]
    <3>1. Len(zrhi) \in Nat /\ iacc \in Nat
      BY NumbersShape DEF IInv, Shape
    <3> QED BY <3>1 DEF IInv, Shape
  <2>2. RowBound(FASTLAZY - lazy) = FASTBASE - 1
    <3>1. FASTLAZY - lazy = 0
      BY <2>1, Sizes
    <3>2. RowBound(0) = FASTBASE - 1
      BY Sizes DEF RowBound
    <3> QED BY <3>1, <3>2
  <2>3. \A i \in 1..iacc : zacc[i] <= FASTBASE - 1
    BY <2>1, <2>2 DEF IInv, AddingBound
  <2> QED BY <2>1, <2>3, Sizes
<1> QED
  BY <1>1, ItemsBounded, PTL

TwoTo32 == 65536 * 65536

\* The sizes of the code: chunks of nine digits, eighteen rows, 64 bits.  They meet
\* the assumption on the constants, and nineteen rows would not fit.
THEOREM SizesOfTheCode ==
  /\ 18 * (999999999 * 999999999) + 2 * 999999999 + 18 <= TwoTo32 * TwoTo32 - 1
  /\ 18 * (1000000000 * 1000000000) <= TwoTo32 * TwoTo32 - 1
  /\ 19 * (999999999 * 999999999) > TwoTo32 * TwoTo32 - 1
<1>1. 18 * (999999999 * 999999999) + 2 * 999999999 + 18 <= TwoTo32 * TwoTo32 - 1
  BY SMT DEF TwoTo32
<1>2. 18 * (1000000000 * 1000000000) <= TwoTo32 * TwoTo32 - 1
  BY SMT DEF TwoTo32
<1>3. 19 * (999999999 * 999999999) > TwoTo32 * TwoTo32 - 1
  BY SMT DEF TwoTo32
<1> QED BY <1>1, <1>2, <1>3
=============================================================================
