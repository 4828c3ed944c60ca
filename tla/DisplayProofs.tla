---------------------------- MODULE DisplayProofs ----------------------------
(***************************************************************************)
(* The display implements NumberEntry: what the keys do to characters in   *)
(* an array is what NumberEntry says of the number.                        *)
(*                                                                         *)
(* The first part is about numerals: a recursive function that counts the  *)
(* digits in some slots exists and is unique, so Magnitude reads what      *)
(* Numeral prints, digits moved by a slot multiply or divide by the base,  *)
(* and a number has one length.  The second part is about displays: a     *)
(* display shows an integer (IntStored) or a decimal (FloatShown) when     *)
(* every character is in its slot, and each function of display.c leads    *)
(* from a display that shows one number to one that shows the edited one.  *)
(* The last part collects this: DisplayInv says that some number is shown, *)
(* and every handler of gui.c keeps it and is a step of NumberEntry.       *)
(*                                                                         *)
(* The provers know nothing of exponentiation: what is needed of powers is *)
(* PowersAssumption, which TLC evaluates for the constants of the run.     *)
(***************************************************************************)
EXTENDS Display, SequenceTheorems, WellFoundedInduction, TLAPS

-----------------------------------------------------------------------------
(* Digits and powers *)

\* The sixteen digits are different characters.
LEMMA DigitsDiffer == \A i, j \in 1..16 : Digit[i] = Digit[j] => i = j
  BY DEF Digit

\* Every digit has its place in Digit.
LEMMA DigitAt ==
  /\ DOMAIN Digit = 1..16
  /\ \A i \in 1..16 : Digit[i] \in Range(Digit)
  /\ \A ch \in Range(Digit) : \E i \in 1..16 : ch = Digit[i]
<1>1. DOMAIN Digit = 1..16
  BY DEF Digit
<1> QED BY <1>1 DEF Range

\* DigitValue is the inverse of Digit.
LEMMA DigitValues ==
  /\ \A v \in 0..15 : Digit[v + 1] \in Range(Digit) /\ DigitValue[Digit[v + 1]] = v
  /\ \A ch \in Range(Digit) : DigitValue[ch] \in 0..15 /\ Digit[DigitValue[ch] + 1] = ch
<1>1. ASSUME NEW i \in 1..16 PROVE DigitValue[Digit[i]] = i - 1
  <2>1. \A j \in 1..16 : Digit[j] = Digit[i] => j = i
    BY DigitsDiffer
  <2>2. (CHOOSE j \in 1..16 : Digit[j] = Digit[i]) = i
    BY <2>1
  <2> QED BY <2>2, DigitAt DEF DigitValue
<1>2. ASSUME NEW v \in 0..15 PROVE Digit[v + 1] \in Range(Digit) /\ DigitValue[Digit[v + 1]] = v
  <2>1. v + 1 \in 1..16 /\ (v + 1) - 1 = v
    OBVIOUS
  <2> QED BY <2>1, <1>1, DigitAt
<1>3. ASSUME NEW ch \in Range(Digit) PROVE DigitValue[ch] \in 0..15 /\ Digit[DigitValue[ch] + 1] = ch
  <2>1. PICK i \in 1..16 : ch = Digit[i]
    BY DigitAt
  <2>2. DigitValue[ch] = i - 1 /\ (i - 1) + 1 = i
    BY <2>1, <1>1
  <2> QED BY <2>1, <2>2
<1> QED BY <1>2, <1>3

\* The other characters are no digits.
LEMMA Signs ==
  /\ Digit[1] = "0" /\ Digit[2] = "1"
  /\ NUL \notin Range(Digit) /\ "-" \notin Range(Digit) /\ "+" \notin Range(Digit)
  /\ "." \notin Range(Digit) /\ "e" \notin Range(Digit)
<1>1. \A i \in 1..16 : Digit[i] \notin {"NUL", "-", "+", ".", "e"}
  BY DEF Digit
<1>2. Digit[1] = "0" /\ Digit[2] = "1"
  BY DEF Digit
<1> QED BY <1>1, <1>2, DigitAt DEF NUL

\* Induction over a set: the form of it in which no operator is a parameter.
LEMMA Induction ==
  ASSUME NEW S, 0 \in S, \A n \in Nat : n \in S => n + 1 \in S
  PROVE  \A n \in Nat : n \in S
<1> DEFINE T == {n \in Nat : n \notin S}
<1> SUFFICES ASSUME T # {} PROVE FALSE
    OBVIOUS
<1>1. PICK x \in T : \A y \in T : <<y, x>> \notin OpToRel(<, Nat)
  <2>1. T \subseteq Nat
        OBVIOUS
  <2> QED BY <2>1, WFMin, NatLessThanWellFounded, Zenon
<1>2. x \in Nat /\ x # 0
      BY <1>1
<1>3. x - 1 \in Nat /\ <<x - 1, x>> \in OpToRel(<, Nat)
      BY <1>2 DEF OpToRel
<1>4. x - 1 \in S
      BY <1>1, <1>3
<1>5. (x - 1) + 1 \in S
      BY <1>3, <1>4
<1>6. (x - 1) + 1 = x /\ x \notin S
      BY <1>2
<1> QED BY <1>5, <1>6

\* The quotient is the only one.
LEMMA QuotientIs ==
  ASSUME NEW n \in Nat, NEW p \in Nat \ {0}, NEW q \in Nat, NEW r \in Nat, n = q * p + r, r < p
  PROVE  n \div p = q
<1>1. n \div p \in Nat /\ p * (n \div p) <= n /\ n < p * (n \div p) + p
  BY SMT
<1> DEFINE k == n \div p
<1> HIDE DEF k
<1>2. k \in Nat /\ p * k <= q * p + r /\ q * p + r < p * k + p
  BY <1>1 DEF k
<1>3. CASE k < q
  <2>1. p * (k + 1) <= p * q
    BY <1>2, <1>3, SMT
  <2>2. p * (k + 1) = p * k + p /\ p * q = q * p
    BY <1>2, SMT
  <2> QED BY <1>2, <2>1, <2>2, SMT
<1>4. CASE q < k
  <2>1. p * (q + 1) <= p * k
    BY <1>2, <1>4, SMT
  <2>2. p * (q + 1) = p * q + p /\ p * q = q * p
    BY <1>2, SMT
  <2> QED BY <1>2, <2>1, <2>2, SMT
<1> QED BY <1>2, <1>3, <1>4 DEF k

\* Quotient and remainder.
LEMMA DivisionOf ==
  ASSUME NEW n \in Nat, NEW p \in Nat \ {0}
  PROVE  /\ n \div p \in Nat /\ n % p \in Nat /\ n % p < p
         /\ n = (n \div p) * p + (n % p)
BY SMT

\* To divide by the base once more is to divide by the next power.
LEMMA QuotientTwice ==
  ASSUME NEW n \in Nat, NEW p \in Nat \ {0}, NEW b \in {10, 16}
  PROVE  n \div (b * p) = (n \div p) \div b
<1> DEFINE q == n \div p
           r == n % p
           k == q \div b
           s == q % b
<1>1. q \in Nat /\ r \in Nat /\ r < p /\ n = q * p + r
  BY DivisionOf
<1> HIDE DEF q, r
<1>2. k \in Nat /\ s \in Nat /\ s < b /\ q = k * b + s
  BY <1>1
<1> HIDE DEF k, s
<1>3. q * p = k * (b * p) + s * p
  <2>1. CASE b = 10
    BY <1>1, <1>2, <2>1, SMT
  <2>2. CASE b = 16
    BY <1>1, <1>2, <2>2, SMT
  <2> QED BY <2>1, <2>2
<1>4. s * p + r \in Nat /\ s * p + r < b * p
  <2>1. s * p \in Nat /\ s * p <= (b - 1) * p /\ b - 1 \in Nat
    BY <1>2, SMT
  <2>2. (b - 1) * p + p = b * p
    BY SMT
  <2> QED BY <1>1, <2>1, <2>2
<1>5. b * p \in Nat \ {0} /\ k * (b * p) \in Nat
  BY <1>2
<1>6. n = k * (b * p) + (s * p + r)
  BY <1>1, <1>2, <1>3, <1>4, <1>5
<1>7. n \div (b * p) = k
  BY <1>2, <1>4, <1>5, <1>6, QuotientIs
<1> QED BY <1>7 DEF k, q

Bases == {10, 16}

\* The digits in the slots from..to-1 are digits of base b.
DigitsIn(s, from, to, b) ==
  \A i \in from..(to - 1) : s[i] \in Range(Digit) /\ DigitValue[s[i]] < b

\* f[i] is the number of the digits in from..i-1: what Magnitude computes.
Counts(f, s, from, to, b) ==
  /\ f[from] = 0
  /\ \A i \in from..(to - 1) : f[i + 1] = f[i] * b + DigitValue[s[i]]

IsBefore(f, s, from, to, b) ==
  f = [i \in from..to |-> IF i = from THEN 0 ELSE f[i - 1] * b + DigitValue[s[i - 1]]]

\* The recursive function of Magnitude exists, from every slot.
LEMMA BeforeExists ==
  ASSUME NEW s, NEW from \in Nat, NEW b
  PROVE  \A n \in Nat : \E f : IsBefore(f, s, from, from + n, b)
<1> DEFINE S == {n \in Nat : \E f : IsBefore(f, s, from, from + n, b)}
<1>1. 0 \in S
  <2>1. from + 0 = from /\ \A i \in from..from : i = from
    OBVIOUS
  <2>2. IsBefore([i \in from..from |-> 0], s, from, from, b)
    BY <2>1 DEF IsBefore
  <2> QED BY <2>1, <2>2
<1>2. ASSUME NEW n \in Nat, n \in S PROVE n + 1 \in S
  <2>1. PICK f : IsBefore(f, s, from, from + n, b)
    BY <1>2
  <2> DEFINE g == [i \in from..(from + (n + 1)) |->
                     IF i <= from + n THEN f[i] ELSE f[i - 1] * b + DigitValue[s[i - 1]]]
  <2>2. ASSUME NEW i \in from..(from + (n + 1))
        PROVE  g[i] = IF i = from THEN 0 ELSE g[i - 1] * b + DigitValue[s[i - 1]]
    <3>1. CASE i = from
      <4>1. f[i] = 0
        BY <2>1, <3>1 DEF IsBefore
      <4> QED BY <3>1, <4>1
    <3>2. CASE i # from
      <4>1. i - 1 \in from..(from + n)
        BY <3>2
      <4>2. g[i - 1] = f[i - 1]
        BY <4>1
      <4>3. i <= from + n => f[i] = f[i - 1] * b + DigitValue[s[i - 1]]
        BY <2>1, <3>2 DEF IsBefore
      <4> QED BY <3>2, <4>2, <4>3
    <3> QED BY <3>1, <3>2
  <2>3. g = [i \in from..(from + (n + 1)) |->
               IF i = from THEN 0 ELSE g[i - 1] * b + DigitValue[s[i - 1]]]
    <3>1. g = [i \in from..(from + (n + 1)) |-> g[i]]
      OBVIOUS
    <3> HIDE DEF g
    <3> QED BY <3>1, <2>2
  <2>4. IsBefore(g, s, from, from + (n + 1), b)
    <3> HIDE DEF g
    <3> QED BY <2>3 DEF IsBefore
  <2> QED BY <2>4
<1> HIDE DEF S
<1>3. \A n \in Nat : n \in S
  BY <1>1, <1>2, Induction
<1> QED BY <1>3 DEF S

\* Magnitude is the last value of a function that counts the digits.
LEMMA MagnitudeCounts ==
  ASSUME NEW d, NEW from \in Nat, NEW to \in Nat, from <= to, NEW b
  PROVE  \E f : Counts(f, d.stack, from, to, b) /\ Magnitude(d, from, to, b) = f[to]
<1>1. PICK g : IsBefore(g, d.stack, from, to, b)
  <2>1. to - from \in Nat /\ from + (to - from) = to
    OBVIOUS
  <2> QED BY <2>1, BeforeExists
<1> DEFINE f == CHOOSE f : IsBefore(f, d.stack, from, to, b)
<1>2. IsBefore(f, d.stack, from, to, b)
  BY <1>1, Zenon
<1>3. Magnitude(d, from, to, b) = f[to]
  BY Zenon DEF Magnitude, IsBefore
<1> HIDE DEF f
<1>4. Counts(f, d.stack, from, to, b)
  BY <1>2 DEF IsBefore, Counts
<1> QED BY <1>3, <1>4

\* A property of the numbers of a prefix, by induction along the digits.
LEMMA Along ==
  ASSUME NEW from \in Nat, NEW to \in Nat, NEW S, from \in S,
         \A i \in from..(to - 1) : i \in S => i + 1 \in S
  PROVE  \A i \in from..to : i \in S
<1> DEFINE T == {n \in Nat : from + n <= to => from + n \in S}
<1>1. 0 \in T
  OBVIOUS
<1>2. \A n \in Nat : n \in T => n + 1 \in T
  OBVIOUS
<1> HIDE DEF T
<1>3. \A n \in Nat : n \in T
  BY <1>1, <1>2, Induction
<1>4. ASSUME NEW i \in from..to PROVE i \in S
  <2>1. i - from \in Nat /\ from + (i - from) = i
    OBVIOUS
  <2> QED BY <1>3, <2>1 DEF T
<1> QED BY <1>4

\* What is counted is a natural number.
LEMMA CountsNat ==
  ASSUME NEW f, NEW s, NEW from \in Nat, NEW to \in Nat, NEW b \in Bases,
         Counts(f, s, from, to, b), DigitsIn(s, from, to, b)
  PROVE  \A i \in from..to : f[i] \in Nat
<1> DEFINE S == {i \in from..to : f[i] \in Nat}
<1>1. from <= to => from \in S
  BY DEF Counts
<1>2. \A i \in from..(to - 1) : i \in S => i + 1 \in S
  BY DigitValues DEF Counts, DigitsIn, Bases
<1> HIDE DEF S
<1>3. \A i \in from..to : i \in S
  BY <1>1, <1>2, Along, SMTT(60)
<1> QED BY <1>3 DEF S

\* The same digits in other slots.
SameDigits(s, from, to, t, start) == \A i \in from..(to - 1) : s[i] = t[start + (i - from)]
SameCounts(f, from, to, g, start) == \A i \in from..to : f[i] = g[start + (i - from)]

\* The same digits in other slots count the same.
LEMMA CountsSame ==
  ASSUME NEW f, NEW s, NEW from \in Nat, NEW to \in Nat, NEW g, NEW t, NEW start \in Nat, NEW b,
         from <= to, NEW end \in Nat, end = start + (to - from),
         Counts(f, s, from, to, b), Counts(g, t, start, end, b),
         SameDigits(s, from, to, t, start)
  PROVE  SameCounts(f, from, to, g, start)
<1> DEFINE S == {i \in from..to : f[i] = g[start + (i - from)]}
<1>1. from \in S
  BY DEF Counts
<1>2. ASSUME NEW i \in from..(to - 1), i \in S PROVE i + 1 \in S
  <2> DEFINE j == start + (i - from)
  <2>1. j \in start..(end - 1) /\ start + ((i + 1) - from) = j + 1 /\ i + 1 \in from..to
    OBVIOUS
  <2>2. s[i] = t[j] /\ f[i] = g[j]
    BY <1>2 DEF SameDigits
  <2> HIDE DEF j
  <2>3. f[i + 1] = g[j + 1]
    BY <2>1, <2>2 DEF Counts
  <2> QED BY <2>1, <2>3
<1> HIDE DEF S
<1>3. \A i \in from..to : i \in S
  BY <1>1, <1>2, Along
<1> QED BY <1>3 DEF S, SameCounts

\* Every function that counts the digits gives the magnitude.
LEMMA MagnitudeIs ==
  ASSUME NEW d, NEW from \in Nat, NEW to \in Nat, from <= to, NEW b, NEW f,
         Counts(f, d.stack, from, to, b)
  PROVE  Magnitude(d, from, to, b) = f[to]
<1>1. PICK g : Counts(g, d.stack, from, to, b) /\ Magnitude(d, from, to, b) = g[to]
  BY MagnitudeCounts
<1>2. SameDigits(d.stack, from, to, d.stack, from) /\ to = from + (to - from)
  BY DEF SameDigits
<1>3. SameCounts(f, from, to, g, from)
  BY <1>1, <1>2, CountsSame
<1>4. f[to] = g[to]
  BY <1>3, <1>2 DEF SameCounts
<1> QED BY <1>1, <1>4

\* The same digits in other slots have the same magnitude.
LEMMA MagnitudeSame ==
  ASSUME NEW d, NEW from \in Nat, NEW to \in Nat, NEW e, NEW start \in Nat, NEW b, from <= to,
         NEW end \in Nat, end = start + (to - from), SameDigits(d.stack, from, to, e.stack, start)
  PROVE  Magnitude(d, from, to, b) = Magnitude(e, start, end, b)
<1>1. start <= end
  OBVIOUS
<1>2. PICK f : Counts(f, d.stack, from, to, b) /\ Magnitude(d, from, to, b) = f[to]
  BY MagnitudeCounts
<1>3. PICK g : Counts(g, e.stack, start, end, b) /\ Magnitude(e, start, end, b) = g[end]
  BY <1>1, MagnitudeCounts
<1>4. SameCounts(f, from, to, g, start)
  BY <1>2, <1>3, CountsSame
<1>5. f[to] = g[end]
  BY <1>4 DEF SameCounts
<1> QED BY <1>2, <1>3, <1>5

\* Powers of the base are positive, and each is the base times the one before.
LEMMA PowersPositive ==
  ASSUME NEW b \in Bases, NEW top \in Nat, PowersOf(b, top)
  PROVE  /\ \A k \in 0..top : b^k \in Nat \ {0}
         /\ \A k \in 1..top : b^k = b * b^(k - 1)
<1> DEFINE S == {k \in 0..top : b^k \in Nat \ {0}}
<1>0. \A k \in 1..top : b^k \in Nat /\ b^k = b * b^(k - 1)
  BY DEF PowersOf
<1>1. 0 \in S
  BY DEF PowersOf
<1>2. ASSUME NEW k \in 0..(top - 1), k \in S PROVE k + 1 \in S
  <2>1. b^k \in Nat \ {0} /\ k + 1 \in 1..top /\ (k + 1) - 1 = k
    BY <1>2
  <2>2. b^(k + 1) \in Nat /\ b^(k + 1) = b * b^k
    BY <1>0, <2>1
  <2> QED BY <2>1, <2>2 DEF Bases
<1> HIDE DEF S
<1>3. \A k \in 0..top : k \in S
  BY <1>1, <1>2, Along
<1> QED BY <1>0, <1>3 DEF S

\* Powers of the base grow.
LEMMA PowersGrow ==
  ASSUME NEW b \in Bases, NEW top \in Nat, PowersOf(b, top), NEW j \in 0..top
  PROVE  \A k \in j..top : b^j <= b^k
<1> DEFINE S == {k \in j..top : b^j <= b^k}
<1>1. j \in S
  BY PowersPositive
<1>2. ASSUME NEW k \in j..(top - 1), k \in S PROVE k + 1 \in S
  <2>1. k + 1 \in 1..top /\ (k + 1) - 1 = k /\ k \in 0..top
    OBVIOUS
  <2>2. b^(k + 1) = b * b^k /\ b^k \in Nat /\ b^j \in Nat /\ b^j <= b^k
    BY <1>2, <2>1, PowersPositive
  <2> QED BY <2>1, <2>2 DEF Bases
<1> HIDE DEF S
<1>3. \A k \in j..top : k \in S
  BY <1>1, <1>2, Along
<1> QED BY <1>3 DEF S

\* A number of as many digits is below the power of the base.
LEMMA CountsBelow ==
  ASSUME NEW f, NEW s, NEW from \in Nat, NEW to \in Nat, NEW b \in Bases, NEW top \in Nat,
         PowersOf(b, top), to - from <= top, Counts(f, s, from, to, b), DigitsIn(s, from, to, b)
  PROVE  \A i \in from..to : f[i] < b^(i - from)
<1> DEFINE S == {i \in from..to : f[i] < b^(i - from)}
<1>1. from <= to => from \in S
  BY PowersPositive DEF Counts, PowersOf
<1>2. ASSUME NEW i \in from..(to - 1), i \in S PROVE i + 1 \in S
  <2> DEFINE k == i - from
  <2>1. k + 1 \in 1..top /\ (k + 1) - 1 = k /\ k \in 0..top /\ (i + 1) - from = k + 1
    OBVIOUS
  <2> HIDE DEF k
  <2>2. b^(k + 1) = b * b^k /\ b^k \in Nat
    BY <2>1, PowersPositive
  <2>3. f[i] \in Nat /\ f[i] < b^k
    BY <1>2, CountsNat DEF k
  <2>4. DigitValue[s[i]] \in Nat /\ DigitValue[s[i]] < b /\ f[i + 1] = f[i] * b + DigitValue[s[i]]
    BY DigitValues DEF DigitsIn, Counts
  <2>5. f[i + 1] < b * b^k
    BY <2>2, <2>3, <2>4 DEF Bases
  <2> QED BY <2>1, <2>2, <2>5
<1> HIDE DEF S
<1>3. \A i \in from..to : i \in S
  BY <1>1, <1>2, Along, SMTT(60)
<1> QED BY <1>3 DEF S

\* Without a leading zero it is not below the power before.
LEMMA CountsAbove ==
  ASSUME NEW f, NEW s, NEW from \in Nat, NEW to \in Nat, NEW b \in Bases, NEW top \in Nat,
         PowersOf(b, top), to - from <= top, Counts(f, s, from, to, b), DigitsIn(s, from, to, b),
         DigitValue[s[from]] # 0
  PROVE  \A i \in (from + 1)..to : b^(i - (from + 1)) <= f[i]
<1> DEFINE first == from + 1
           S == {i \in first..to : b^(i - first) <= f[i]}
<1>1. from < to => first \in S
  <2> SUFFICES ASSUME from < to PROVE first \in S
    OBVIOUS
  <2>1. f[first] = 0 * b + DigitValue[s[from]] /\ DigitValue[s[from]] \in Nat
    BY DigitValues DEF Counts, DigitsIn
  <2>2. first - first = 0 /\ b^0 = 1
    BY DEF PowersOf
  <2>3. b^(first - first) = 1
    BY <2>2
  <2>4. f[first] >= 1
    BY <2>1 DEF Bases
  <2> QED BY <2>3, <2>4
<1>2. ASSUME NEW i \in first..(to - 1), i \in S PROVE i + 1 \in S
  <2> DEFINE k == i - first
  <2>1. k + 1 \in 1..top /\ (k + 1) - 1 = k /\ k \in 0..top /\ (i + 1) - first = k + 1 /\ i \in from..(to - 1)
    OBVIOUS
  <2> HIDE DEF k
  <2>2. b^(k + 1) = b * b^k /\ b^k \in Nat
    BY <2>1, PowersPositive
  <2>3. f[i] \in Nat /\ b^k <= f[i]
    BY <1>2, CountsNat DEF k
  <2>4. DigitValue[s[i]] \in Nat /\ f[i + 1] = f[i] * b + DigitValue[s[i]]
    BY DigitValues DEF DigitsIn, Counts
  <2>5. b * b^k <= f[i + 1]
    BY <2>2, <2>3, <2>4 DEF Bases
  <2> QED BY <2>1, <2>2, <2>5
<1> HIDE DEF S
<1>3. first \in Nat /\ to \in Nat
  OBVIOUS
<1>4. \A i \in first..to : i \in S
  <2> HIDE DEF first
  <2> SUFFICES ASSUME NEW i \in first..to PROVE i \in S
    OBVIOUS
  <2>1. first \in S
    BY <1>1, <1>3 DEF first
  <2> QED BY <2>1, <1>2, <1>3, Along
<1> QED BY <1>4 DEF S

\* The digits, from the last: what division leaves.
LEMMA CountsQuotient ==
  ASSUME NEW f, NEW s, NEW from \in Nat, NEW to \in Nat, NEW b \in Bases, NEW top \in Nat,
         PowersOf(b, top), from <= to, to - from <= top,
         Counts(f, s, from, to, b), DigitsIn(s, from, to, b)
  PROVE  \A k \in 0..(to - from) : f[to - k] = f[to] \div b^k
<1> DEFINE n == to - from
           S == {k \in 0..n : f[to - k] = f[to] \div b^k}
<1>1. 0 \in S
  <2>1. f[to] \in Nat /\ to - 0 = to
    BY CountsNat
  <2>2. f[to] \div 1 = f[to]
    BY <2>1
  <2> QED BY <2>1, <2>2 DEF PowersOf
<1>2. ASSUME NEW k \in 0..(n - 1), k \in S PROVE k + 1 \in S
  <2> DEFINE i == to - (k + 1)
  <2>1. k + 1 \in 1..top /\ (k + 1) - 1 = k /\ k \in 0..top /\ i \in from..(to - 1) /\ i + 1 = to - k
    OBVIOUS
  <2>0. k + 1 \in 0..n
    OBVIOUS
  <2> HIDE DEF i
  <2>2. b^(k + 1) = b * b^k /\ b^k \in Nat \ {0}
    BY <2>1, PowersPositive
  <2>3. f[i] \in Nat /\ f[to] \in Nat
    <3>1. i \in from..to /\ to \in from..to
      BY <2>1
    <3> QED BY <3>1, CountsNat
  <2>4. DigitValue[s[i]] \in Nat /\ DigitValue[s[i]] < b /\ f[i + 1] = f[i] * b + DigitValue[s[i]]
    BY <2>1, DigitValues DEF DigitsIn, Counts
  <2>5. f[i + 1] \div b = f[i]
    BY <2>3, <2>4 DEF Bases
  <2>6. f[i + 1] = f[to] \div b^k
    BY <1>2, <2>1
  <2>7. f[to] \div (b * b^k) = (f[to] \div b^k) \div b
    BY <2>2, <2>3, QuotientTwice DEF Bases
  <2>8. f[i] = f[to] \div b^(k + 1)
    BY <2>2, <2>5, <2>6, <2>7
  <2> QED BY <2>0, <2>8 DEF i
<1> HIDE DEF S
<1>3. n \in Nat /\ 0 \in Nat
  OBVIOUS
<1>4. \A k \in 0..n : k \in S
  <2> HIDE DEF n
  <2> QED BY <1>1, <1>2, <1>3, Along
<1> QED BY <1>4 DEF S

\* f numbers the digits of base b in from..to-1, no more than size of them.
Numbered(f, s, from, to, b, size) ==
  /\ from \in Nat /\ to \in Nat /\ from <= to /\ to - from <= size
  /\ b \in Bases /\ size \in Nat /\ PowersOf(b, size)
  /\ Counts(f, s, from, to, b) /\ DigitsIn(s, from, to, b)

\* The digits before the last k make the number divided by the k-th power of the base.
LEMMA Quotients ==
  ASSUME NEW f, NEW s, NEW from, NEW to, NEW b, NEW size, Numbered(f, s, from, to, b, size)
  PROVE  \A k \in 0..(to - from) : f[to - k] = f[to] \div b^k
<1>1. /\ from \in Nat /\ to \in Nat /\ from <= to /\ to - from <= size
      /\ b \in Bases /\ size \in Nat /\ PowersOf(b, size)
      /\ Counts(f, s, from, to, b) /\ DigitsIn(s, from, to, b)
  BY DEF Numbered
<1> QED BY <1>1, CountsQuotient

-----------------------------------------------------------------------------
(* sprintf *)

Tops == 1..64

IsLength(k, n, b) == n < b^k /\ \A j \in 1..(k - 1) : n >= b^j
Length(n, b) == CHOOSE k \in 1..64 : IsLength(k, n, b)

\* Numeral, with its number of digits named.
LEMMA NumeralIs ==
  ASSUME NEW n, NEW b
  PROVE  Numeral(n, b) = [i \in 1..Length(n, b) |->
                            Digit[((n \div b^(Length(n, b) - i)) % b) + 1]]
BY Zenon DEF Numeral, Length, IsLength

\* A number below a power of the base has a number of digits.
LEMMA LengthExists ==
  ASSUME NEW n \in Nat, NEW b \in Bases, NEW top \in Tops, PowersOf(b, top), n < b^top
  PROVE  \E k \in 1..top : IsLength(k, n, b)
<1> top \in Nat /\ 1 <= top /\ top <= 64
  BY DEF Tops
<1> DEFINE S == {i \in 0..top : (\E k \in 1..top : IsLength(k, n, b)) \/ \A j \in 1..i : n >= b^j}
<1>1. 0 \in S
  OBVIOUS
<1>2. ASSUME NEW i \in 0..(top - 1), i \in S PROVE i + 1 \in S
  <2>1. CASE n < b^(i + 1)
    <3>1. i + 1 \in 1..top /\ (i + 1) - 1 = i
      OBVIOUS
    <3> QED BY <1>2, <2>1, <3>1 DEF IsLength
  <2>2. CASE ~(n < b^(i + 1))
    <3>1. b^(i + 1) \in Nat
      BY PowersPositive
    <3>2. n >= b^(i + 1)
      BY <2>2, <3>1
    <3>3. \A j \in 1..(i + 1) : j \in 1..i \/ j = i + 1
      OBVIOUS
    <3> QED BY <1>2, <3>2, <3>3
  <2> QED BY <2>1, <2>2
<1> HIDE DEF S
<1>3. \A i \in 0..top : i \in S
  <2>1. 0 \in Nat /\ top \in Nat
    OBVIOUS
  <2> QED BY <2>1, <1>1, <1>2, Along
<1>4. top \in S
  BY <1>3
<1>5. ~(n >= b^top)
  BY PowersPositive
<1> QED BY <1>4, <1>5 DEF S

\* And only one.
LEMMA LengthIs ==
  ASSUME NEW n \in Nat, NEW b \in Bases, NEW top \in Tops, PowersOf(b, top),
         NEW k \in 1..top, n < b^k, k = 1 \/ b^(k - 1) <= n
  PROVE  Length(n, b) = k
<1> top \in Nat /\ 1 <= top /\ top <= 64
  BY DEF Tops
<1>1. IsLength(k, n, b)
  <2>1. ASSUME NEW j \in 1..(k - 1) PROVE n >= b^j
    <3>1. k - 1 \in j..top /\ j \in 0..top /\ k # 1
      OBVIOUS
    <3>2. b^j <= b^(k - 1) /\ b^j \in Nat /\ b^(k - 1) \in Nat
      BY <3>1, PowersGrow, PowersPositive
    <3> QED BY <3>1, <3>2
  <2> QED BY <2>1 DEF IsLength
<1>2. ASSUME NEW j \in 1..64, IsLength(j, n, b) PROVE j = k
  <2>1. b^k \in Nat
    BY PowersPositive
  <2>2. ~(k < j)
    <3> SUFFICES ASSUME k < j PROVE FALSE
      OBVIOUS
    <3>1. k \in 1..(j - 1)
      OBVIOUS
    <3>2. n >= b^k
      BY <1>2, <3>1 DEF IsLength
    <3> QED BY <2>1, <3>2
  <2>3. ~(j < k)
    <3> SUFFICES ASSUME j < k PROVE FALSE
      OBVIOUS
    <3>1. j \in 1..(k - 1) /\ j \in 0..top
      OBVIOUS
    <3>2. n >= b^j /\ n < b^j /\ b^j \in Nat
      BY <1>1, <1>2, <3>1, PowersPositive DEF IsLength
    <3> QED BY <3>2
  <2> QED BY <2>2, <2>3
<1>3. k \in 1..64
  OBVIOUS
<1>4. Length(n, b) \in 1..64 /\ IsLength(Length(n, b), n, b)
  BY <1>1, <1>3, Zenon DEF Length
<1> QED BY <1>2, <1>4

\* The number of digits is that of the smallest power above the number.
LEMMA LengthFits ==
  ASSUME NEW n \in Nat, NEW b \in Bases, NEW top \in Tops, PowersOf(b, top), n < b^top
  PROVE  /\ Length(n, b) \in 1..top /\ n < b^Length(n, b)
         /\ Length(n, b) = 1 \/ b^(Length(n, b) - 1) <= n
<1> top \in Nat /\ 1 <= top /\ top <= 64
  BY DEF Tops
<1>1. PICK k \in 1..top : IsLength(k, n, b)
  BY LengthExists
<1>2. n < b^k
  BY <1>1 DEF IsLength
<1>3. k = 1 \/ b^(k - 1) <= n
  <2> SUFFICES ASSUME k # 1 PROVE b^(k - 1) <= n
    OBVIOUS
  <2>1. k - 1 \in 1..(k - 1) /\ k - 1 \in 0..top
    OBVIOUS
  <2>2. n >= b^(k - 1) /\ b^(k - 1) \in Nat
    BY <1>1, <2>1, PowersPositive DEF IsLength
  <2> QED BY <2>2
<1>4. Length(n, b) = k
  BY <1>2, <1>3, LengthIs
<1> QED BY <1>2, <1>3, <1>4

\* At least one digit and at most top, and no leading zero.
Canonical(s, from, to, b, top) ==
  /\ from < to /\ to - from <= top
  /\ DigitsIn(s, from, to, b)
  /\ DigitValue[s[from]] = 0 => to = from + 1

\* Digits without a leading zero are what is printed of their number.
LEMMA DigitsArePrinted ==
  ASSUME NEW f, NEW s, NEW from \in Nat, NEW to \in Nat, NEW b \in Bases, NEW top \in Tops,
         PowersOf(b, top), Canonical(s, from, to, b, top), Counts(f, s, from, to, b),
         NEW n, n = f[to]
  PROVE  /\ Length(n, b) = to - from
         /\ \A i \in 1..(to - from) : Numeral(n, b)[i] = s[from + (i - 1)]
<1> top \in Nat /\ 1 <= top /\ top <= 64
  BY DEF Tops
<1> DEFINE k == to - from
<1> USE DEF Canonical
<1>0. \A m \in 0..(to - from) : f[to - m] = f[to] \div b^m
  <2>1. Numbered(f, s, from, to, b, top)
    BY DEF Numbered
  <2> HIDE DEF Canonical
  <2> QED BY <2>1, Quotients
<1>1. k \in 1..top /\ to \in from..to /\ to \in (from + 1)..to /\ to - (from + 1) = k - 1
  OBVIOUS
<1>2. n \in Nat /\ n < b^k
  BY <1>1, CountsNat, CountsBelow
<1>3. k = 1 \/ b^(k - 1) <= n
  <2> SUFFICES ASSUME k # 1 PROVE b^(k - 1) <= n
    OBVIOUS
  <2>1. DigitValue[s[from]] # 0
    OBVIOUS
  <2>2. b^(to - (from + 1)) <= f[to]
    <3>1. to - from <= top /\ top \in Nat
      OBVIOUS
    <3> HIDE DEF k
    <3> QED BY <1>1, <2>1, <3>1, CountsAbove
  <2> QED BY <1>1, <2>2
<1>4. Length(n, b) = k
  <2> HIDE DEF k
  <2> QED BY <1>1, <1>2, <1>3, LengthIs
<1>5. ASSUME NEW i \in 1..k PROVE Digit[((n \div b^(k - i)) % b) + 1] = s[from + (i - 1)]
  <2> DEFINE j == from + (i - 1)
  <2>1. k - i \in 0..k /\ to - (k - i) = j + 1 /\ j \in from..(to - 1) /\ j + 1 \in from..to /\ j \in from..to
    OBVIOUS
  <2>2. f[to - (k - i)] = n \div b^(k - i)
    <3>1. from <= to /\ to - from <= top /\ top \in Nat
      OBVIOUS
    <3>2. k - i \in 0..(to - from)
      OBVIOUS
    <3>4. f[to - (k - i)] = f[to] \div b^(k - i)
      <4> HIDE DEF k, j
      <4> QED BY <3>2, <1>0
    <3> QED BY <3>4
  <2> HIDE DEF j, k
  <2>3. f[j + 1] = f[j] * b + DigitValue[s[j]] /\ DigitValue[s[j]] \in 0..15 /\ DigitValue[s[j]] < b
        /\ Digit[DigitValue[s[j]] + 1] = s[j] /\ f[j] \in Nat
    BY <2>1, CountsNat, DigitValues DEF Counts, DigitsIn
  <2>4. f[j + 1] % b = DigitValue[s[j]]
    BY <2>3 DEF Bases
  <2>5. Digit[((n \div b^(k - i)) % b) + 1] = s[j]
    BY <2>1, <2>2, <2>3, <2>4
  <2> QED BY <2>5 DEF j
<1>6. Numeral(n, b) = [i \in 1..k |-> Digit[((n \div b^(k - i)) % b) + 1]]
  BY <1>4, NumeralIs, Zenon
<1> QED BY <1>4, <1>5, <1>6

\* The characters of a numeral are digits of the base, and the first is 0 only if it is
\* alone.
LEMMA NumeralDigits ==
  ASSUME NEW n \in Nat, NEW b \in Bases, NEW top \in Tops, PowersOf(b, top), n < b^top,
         NEW len, len = Length(n, b)
  PROVE  /\ len \in 1..top
         /\ DOMAIN Numeral(n, b) = 1..len
         /\ \A i \in 1..len : /\ Numeral(n, b)[i] \in Range(Digit)
                              /\ DigitValue[Numeral(n, b)[i]] = (n \div b^(len - i)) % b
                              /\ DigitValue[Numeral(n, b)[i]] < b
         /\ DigitValue[Numeral(n, b)[1]] = 0 => len = 1
         /\ n # 0 => DigitValue[Numeral(n, b)[1]] # 0
<1> top \in Nat /\ 1 <= top /\ top <= 64
  BY DEF Tops
<1>1. len \in 1..top /\ n < b^len /\ (len = 1 \/ b^(len - 1) <= n)
  BY LengthFits
<1>2. Numeral(n, b) = [i \in 1..len |-> Digit[((n \div b^(len - i)) % b) + 1]]
  BY NumeralIs
<1>3. ASSUME NEW i \in 1..len
      PROVE  /\ Numeral(n, b)[i] \in Range(Digit)
             /\ DigitValue[Numeral(n, b)[i]] = (n \div b^(len - i)) % b
             /\ DigitValue[Numeral(n, b)[i]] < b
  <2> DEFINE p == b^(len - i)
             v == (n \div p) % b
  <2>1. p \in Nat \ {0}
    <3>1. len - i \in 0..top
      BY <1>1
    <3> QED BY <3>1, PowersPositive
  <2> HIDE DEF p
  <2>2. n \div p \in Nat
    BY <2>1, DivisionOf
  <2>3. v \in 0..15 /\ v < b
    BY <2>2 DEF Bases
  <2>4. Numeral(n, b)[i] = Digit[v + 1]
    BY <1>2 DEF p
  <2> HIDE DEF v
  <2>5. Digit[v + 1] \in Range(Digit) /\ DigitValue[Digit[v + 1]] = v
    BY <2>3, DigitValues
  <2> QED BY <2>3, <2>4, <2>5 DEF v, p
<1>4. DOMAIN Numeral(n, b) = 1..len
  BY <1>2
<1> DEFINE p == b^(len - 1)
           q == n \div p
<1>5. p \in Nat \ {0} /\ b^len = b * p
  <2>1. len - 1 \in 0..top
    BY <1>1
  <2> QED BY <1>1, <2>1, PowersPositive
<1>6. 1 \in 1..len /\ DigitValue[Numeral(n, b)[1]] = q % b
  BY <1>1, <1>3
<1> HIDE DEF p
<1>7. q \in Nat /\ n % p \in Nat /\ n % p < p /\ n = q * p + (n % p)
  BY <1>5, DivisionOf
<1> HIDE DEF q
<1>8. q < b
  <2> SUFFICES ASSUME b <= q PROVE FALSE
    BY <1>7 DEF Bases
  <2>1. b * p <= q * p
    BY <1>5, <1>7, SMT DEF Bases
  <2> QED BY <1>1, <1>5, <1>7, <2>1 DEF Bases
<1>9. q % b = q
  BY <1>7, <1>8 DEF Bases
<1>10. q = 0 => n < p
  BY <1>5, <1>7
<1>11. q = 0 => len = 1
  BY <1>1, <1>5, <1>10 DEF p
<1>12. q = 0 => n = 0
  <2> SUFFICES ASSUME q = 0 PROVE n = 0
    OBVIOUS
  <2>1. p = b^0 /\ b^0 = 1
    BY <1>11 DEF p, PowersOf
  <2> QED BY <2>1, <1>10
<1> QED BY <1>1, <1>3, <1>4, <1>6, <1>9, <1>11, <1>12

\* The slots hold the digits that are printed of n.
Spells(s, from, to, n, b) ==
  /\ to - from = Length(n, b)
  /\ \A i \in from..(to - 1) : s[i] = Numeral(n, b)[(i - from) + 1]

\* The number of the printed digits is the number that was printed.
LEMMA NumeralCounts ==
  ASSUME NEW n \in Nat, NEW b \in Bases, NEW top \in Tops, PowersOf(b, top), n < b^top,
         NEW f, NEW s, NEW from \in Nat, NEW to \in Nat, Spells(s, from, to, n, b),
         Counts(f, s, from, to, b)
  PROVE  f[to] = n
<1> to - from = Length(n, b) /\ \A i \in from..(to - 1) : s[i] = Numeral(n, b)[(i - from) + 1]
  BY DEF Spells
<1> top \in Nat /\ 1 <= top /\ top <= 64
  BY DEF Tops
<1>d. \A j \in 1..Length(n, b) :
        DigitValue[Numeral(n, b)[j]] = (n \div b^(Length(n, b) - j)) % b
  <2> DEFINE len == Length(n, b)
  <2>1. len = Length(n, b)
    OBVIOUS
  <2> HIDE DEF len
  <2>2. \A j \in 1..len : DigitValue[Numeral(n, b)[j]] = (n \div b^(len - j)) % b
    <3> SUFFICES ASSUME NEW j \in 1..len
                 PROVE  DigitValue[Numeral(n, b)[j]] = (n \div b^(len - j)) % b
      OBVIOUS
    <3> QED BY <2>1, NumeralDigits
  <2> QED BY <2>2 DEF len
<1> DEFINE len == Length(n, b)
           S == {i \in from..to : f[i] = n \div b^(to - i)}
<1>0. len \in 1..top /\ len = to - from /\ n < b^len
  BY LengthFits
<1>1. from \in S
  <2>1. b^len \in Nat \ {0}
    <3>1. len \in 0..top
      BY <1>0
    <3> HIDE DEF len
    <3> QED BY <3>1, PowersPositive
  <2> HIDE DEF len
  <2>2. n = 0 * b^len + n
    BY <2>1
  <2>3. n \div b^len = 0
    BY <1>0, <2>1, <2>2, QuotientIs
  <2> QED BY <1>0, <2>3 DEF Counts
<1>2. ASSUME NEW i \in from..(to - 1), i \in S PROVE i + 1 \in S
  <2> DEFINE k == to - (i + 1)
             q == n \div b^k
  <2>1. /\ k \in 0..top /\ k + 1 \in 1..top /\ (k + 1) - 1 = k /\ to - i = k + 1
        /\ (i - from) + 1 \in 1..(to - from) /\ (to - from) - ((i - from) + 1) = k
    BY <1>0
  <2>2. b^k \in Nat \ {0} /\ b^(k + 1) = b * b^k
    <3> HIDE DEF k
    <3> QED BY <2>1, PowersPositive
  <2>3. DigitValue[s[i]] = q % b
    <3>1. s[i] = Numeral(n, b)[(i - from) + 1]
      OBVIOUS
    <3>2. DigitValue[Numeral(n, b)[(i - from) + 1]] = (n \div b^(len - ((i - from) + 1))) % b
      <4>1. (i - from) + 1 \in 1..len
        BY <2>1, <1>0
      <4>2. \A j \in 1..Length(n, b) :
              DigitValue[Numeral(n, b)[j]] = (n \div b^(Length(n, b) - j)) % b
        BY <1>d
      <4> QED BY <4>1, <4>2
    <3> QED BY <3>1, <3>2, <2>1, <1>0
  <2>4. q \in Nat
    <3> HIDE DEF k
    <3> QED BY <2>2, DivisionOf
  <2>5. f[i] = q \div b
    <3>1. f[i] = n \div b^(k + 1)
      BY <1>2, <2>1
    <3>2. n \div (b * b^k) = (n \div b^k) \div b
      <4> HIDE DEF k
      <4> QED BY <2>2, QuotientTwice DEF Bases
    <3> QED BY <3>1, <3>2, <2>2
  <2>6. f[i + 1] = f[i] * b + DigitValue[s[i]]
    BY DEF Counts
  <2> HIDE DEF q
  <2>7. f[i + 1] = q
    BY <2>3, <2>4, <2>5, <2>6 DEF Bases
  <2> QED BY <2>7 DEF q
<1> HIDE DEF S
<1>3. \A i \in from..to : i \in S
  BY <1>1, <1>2, Along
<1>4. f[to] = n \div b^0
  <2>1. to \in from..to /\ to - to = 0
    BY <1>0
  <2>2. f[to] = n \div b^(to - to)
    BY <2>1, <1>3 DEF S
  <2> QED BY <2>1, <2>2
<1> QED BY <1>4 DEF PowersOf

-----------------------------------------------------------------------------
(* Displays *)

Display1 == [stack : [Slot -> Chars], index : 0..DISP_STACK_SIZE, exp_entry : BOOLEAN,
             ival : Nat, error : BOOLEAN]

Terminated(d) ==
  /\ d.index \in 1..DISP_MAX_LEN
  /\ \A i \in Slot : d.stack[i] = NUL <=> i >= d.index

IsTop(top, c) ==
  /\ top < DISP_MAX_LEN
  /\ PowersOf(Base(c), top)
  /\ 2^c.width <= Base(c)^top
  /\ c.format = "hex" => top = c.width \div 4 /\ Base(c)^top = 2^c.width
Top(c) == CHOOSE top \in 1..64 : IsTop(top, c)

\* What SizesAssumption says of one setting.
LEMMA SettingsFacts ==
  ASSUME NEW c \in Configs
  PROVE  /\ c.mode \in {"int", "float"} /\ c.format \in {"dec", "hex"} /\ c.width \in Nat
         /\ c.unsigned \in BOOLEAN /\ c.digits \in Nat \ {0}
         /\ Base(c) \in Bases
         /\ c.format = "dec" => Base(c) = 10
         /\ DISP_MAX_LEN \in Nat /\ DISP_MAX_LEN >= 7 /\ DISP_STACK_SIZE = DISP_MAX_LEN + 1
         /\ c.digits + 3 + (2 + EXP_DIGITS) <= DISP_MAX_LEN
<1>1. c \in [mode : {"int", "float"}, format : {"dec", "hex"}, width : Nat,
             unsigned : BOOLEAN, digits : Nat \ {0}]
  BY SizesAssumption
<1>2. c.digits + 3 + (2 + EXP_DIGITS) <= DISP_MAX_LEN /\ EXP_DIGITS \in Nat \ {0}
      /\ DISP_STACK_SIZE \in Nat
  BY SizesAssumption
<1>3. Base(c) \in Bases /\ (c.format = "dec" => Base(c) = 10)
  BY <1>1 DEF Base, Bases
<1>4. c.digits \in Nat \ {0}
  BY <1>1
<1>5. DISP_MAX_LEN \in Int /\ DISP_STACK_SIZE = DISP_MAX_LEN + 1
  BY <1>2 DEF DISP_MAX_LEN
<1>6. DISP_MAX_LEN \in Nat /\ DISP_MAX_LEN >= 7
  BY <1>2, <1>4, <1>5
<1> QED BY <1>1, <1>2, <1>3, <1>5, <1>6

\* What PowersAssumption says of one setting.
LEMMA WordFacts ==
  ASSUME NEW c \in Configs
  PROVE  /\ 2^c.width \in Nat /\ 2^(c.width - 1) \in Nat /\ 2^c.width = 2 * 2^(c.width - 1)
         /\ Base(c) <= 2^(c.width - 1)
         /\ Top(c) \in Tops /\ IsTop(Top(c), c)
<1>1. /\ 2^(c.width - 1) \in Nat /\ 2^c.width = 2 * 2^(c.width - 1)
      /\ Base(c) <= 2^(c.width - 1)
      /\ \E top \in 1..64 : IsTop(top, c)
  BY PowersAssumption DEF IsTop
<1>2. Top(c) \in Tops /\ IsTop(Top(c), c)
  BY <1>1, Zenon DEF Top, Tops
<1> QED BY <1>1, <1>2

\* On a terminated display the text is what is below the index.
LEMMA TextOf ==
  ASSUME NEW d \in Display1, Terminated(d), DISP_MAX_LEN \in Nat
  PROVE  strlen(d) = d.index /\ Text(d) = [i \in 1..d.index |-> d.stack[i - 1]]
<1>1. d.index \in Slot /\ d.stack[d.index] = NUL /\ \A i \in 0..(d.index - 1) : d.stack[i] # NUL
  BY DEF Terminated, Slot
<1>2. ASSUME NEW n \in Slot, d.stack[n] = NUL, \A i \in 0..(n - 1) : d.stack[i] # NUL
      PROVE  n = d.index
  <2>1. n >= d.index
    BY <1>2 DEF Terminated
  <2>2. ~(d.index < n)
    <3> SUFFICES ASSUME d.index < n PROVE FALSE
      OBVIOUS
    <3>1. d.index \in 0..(n - 1)
      BY <1>1 DEF Slot
    <3> QED BY <1>1, <1>2, <3>1
  <2> QED BY <1>1, <2>1, <2>2 DEF Slot
<1>3. strlen(d) = d.index
  BY <1>1, <1>2 DEF strlen
<1> QED BY <1>3 DEF Text

-----------------------------------------------------------------------------
(* Integers on the display *)

NatShown(d, from, n, c) ==
  /\ Canonical(d.stack, from, d.index, Base(c), Top(c))
  /\ Magnitude(d, from, d.index, Base(c)) = n

IntShown(d, n, c) ==
  /\ Terminated(d) /\ n \in Int
  /\ \/ n \in Nat /\ NatShown(d, 0, n, c)
     \/ /\ -n \in Nat \ {0}
        /\ d.stack[0] = "-"
        /\ NatShown(d, 1, -n, c)

\* A number that is shown has the digits, the length and so the size that the slots give
\* it.
LEMMA NatShownFacts ==
  ASSUME NEW c \in Configs, NEW d \in Display1, Terminated(d), NEW from \in {0, 1}, NEW n,
         NatShown(d, from, n, c)
  PROVE  /\ n \in Nat
         /\ Length(n, Base(c)) = d.index - from
         /\ \A i \in 1..(d.index - from) : Numeral(n, Base(c))[i] = d.stack[from + (i - 1)]
         /\ n < Base(c)^(d.index - from)
         /\ DigitValue[d.stack[from]] # 0 => Base(c)^(d.index - (from + 1)) <= n
         /\ DigitValue[d.stack[from]] = 0 => n = 0
<1> DEFINE s == d.stack
           to == d.index
           b == Base(c)
           top == Top(c)
<1>1. b \in Bases /\ top \in Tops /\ PowersOf(b, top) /\ from \in Nat /\ to \in Nat
  BY SettingsFacts, WordFacts DEF IsTop, Terminated
<1>t. top \in Nat
  BY <1>1 DEF Tops
<1>2. from < to /\ to - from <= top /\ DigitsIn(s, from, to, b)
      /\ (DigitValue[s[from]] = 0 => to = from + 1) /\ Magnitude(d, from, to, b) = n
      /\ Canonical(s, from, to, b, top)
  BY DEF NatShown, Canonical
<1>3. PICK f : Counts(f, s, from, to, b) /\ n = f[to]
  <2> HIDE DEF b
  <2> QED BY <1>1, <1>2, MagnitudeCounts
<1> HIDE DEF s, to, b, top
<1>4. to \in from..to /\ to \in (from + 1)..to /\ from \in from..(to - 1) /\ top \in Nat
  BY <1>1, <1>2, <1>t
<1>5. n \in Nat /\ n < b^(to - from)
  BY <1>1, <1>2, <1>3, <1>4, CountsNat, CountsBelow
<1>6. Length(n, b) = to - from /\ \A i \in 1..(to - from) : Numeral(n, b)[i] = s[from + (i - 1)]
  BY <1>1, <1>2, <1>3, DigitsArePrinted, SMTT(60)
<1>7. DigitValue[s[from]] # 0 => b^(to - (from + 1)) <= n
  BY <1>1, <1>2, <1>3, <1>4, CountsAbove
<1>8. DigitValue[s[from]] = 0 => n = 0
  <2> SUFFICES ASSUME DigitValue[s[from]] = 0 PROVE n = 0
    OBVIOUS
  <2>1. f[from + 1] = f[from] * b + 0 /\ f[from] = 0 /\ to = from + 1
    BY <1>2, <1>3, <1>4 DEF Counts
  <2> QED BY <2>1, <1>1, <1>3 DEF Bases
<1> QED BY <1>5, <1>6, <1>7, <1>8 DEF s, to, b

\* What is printed of a word's number, as a sequence.
LEMMA PrintedFacts ==
  ASSUME NEW n \in Int, NEW b \in Bases, NEW top \in Tops, PowersOf(b, top),
         n < b^top, -n < b^top
  PROVE  /\ n \in Nat => /\ Len(Printed(n, b)) = Length(n, b)
                         /\ Length(n, b) \in 1..top
                         /\ \A i \in 1..Length(n, b) : Printed(n, b)[i] = Numeral(n, b)[i]
         /\ n \notin Nat => /\ Len(Printed(n, b)) = Length(-n, b) + 1
                            /\ Length(-n, b) \in 1..top
                            /\ Printed(n, b)[1] = "-"
                            /\ \A i \in 1..Length(-n, b) : Printed(n, b)[i + 1] = Numeral(-n, b)[i]
         /\ Printed(n, b) \in Seq(Chars \ {NUL})
<1> DEFINE m == IF n < 0 THEN -n ELSE n
           len == Length(m, b)
           num == Numeral(m, b)
<1>1. m \in Nat /\ m < b^top
  OBVIOUS
<1> HIDE DEF m
<1>2. len \in 1..top /\ DOMAIN num = 1..len /\ \A i \in 1..len : num[i] \in Range(Digit)
  BY <1>1, NumeralDigits
<1>3. num = [i \in 1..len |-> num[i]]
  BY NumeralIs
<1> HIDE DEF len, num
<1>4. \A i \in 1..len : num[i] \in Chars \ {NUL}
  BY <1>2, Signs DEF Chars
<1>5. num \in Seq(Chars \ {NUL}) /\ Len(num) = len
  <2>1. top \in Nat /\ len \in Nat
    BY <1>2 DEF Tops
  <2> QED BY <1>3, <1>4, <2>1
<1>6. CASE n \in Nat
  <2>1. Printed(n, b) = num /\ m = n
    BY <1>6 DEF Printed, num, m
  <2> QED BY <2>1, <1>2, <1>5, <1>6 DEF len, num
<1>7. CASE n \notin Nat
  <2>1. Printed(n, b) = <<"-">> \o num /\ m = -n
    BY <1>7 DEF Printed, num, m
  <2>2. <<"-">> \in Seq(Chars \ {NUL}) /\ Len(<<"-">>) = 1 /\ <<"-">>[1] = "-"
    BY DEF Chars, NUL
  <2>3. /\ <<"-">> \o num \in Seq(Chars \ {NUL})
        /\ Len(<<"-">> \o num) = 1 + len
        /\ (<<"-">> \o num)[1] = "-"
        /\ \A i \in 1..len : (<<"-">> \o num)[i + 1] = num[i]
    <3>1. len \in Nat
      BY <1>5
    <3> QED BY <1>5, <2>2, <3>1, ConcatProperties
  <2>4. len + 1 = 1 + len
    BY <1>5
  <2> QED BY <2>1, <2>3, <2>4, <1>2, <1>7 DEF len, num
<1> QED BY <1>6, <1>7

\* strtoll reads the number that is shown.
LEMMA IntRead ==
  ASSUME NEW c \in Configs, NEW d \in Display1, NEW n, IntShown(d, n, c)
  PROVE  DisplayNumber(d, c) = n /\ n \in Int
<1>0. DISP_MAX_LEN \in Nat /\ Terminated(d) /\ strlen(d) = d.index
  <2>1. DISP_MAX_LEN \in Nat /\ Terminated(d)
    BY SettingsFacts DEF IntShown
  <2> QED BY <2>1, TextOf
<1>1. CASE n \in Nat /\ NatShown(d, 0, n, c)
  <2>1. d.stack[0] \in Range(Digit)
    <3>1. 0 \in 0..(d.index - 1)
      BY <1>0 DEF Terminated
    <3> QED BY <1>1, <3>1 DEF NatShown, Canonical, DigitsIn
  <2>2. d.stack[0] # "-"
    BY <2>1, Signs
  <2> QED BY <1>0, <1>1, <2>2 DEF DisplayNumber, NatShown
<1>2. CASE -n \in Nat \ {0} /\ d.stack[0] = "-" /\ NatShown(d, 1, -n, c)
  <2>1. Magnitude(d, 1, d.index, Base(c)) = -n
    BY <1>2 DEF NatShown
  <2>2. DisplayNumber(d, c) = -(-n) /\ -n \in Nat
    BY <1>0, <1>2, <2>1 DEF DisplayNumber
  <2>3. n \in Int
    BY DEF IntShown
  <2> QED BY <2>2, <2>3
<1> QED BY <1>1, <1>2 DEF IntShown

\* sprintf of the number that is shown gives the text.
LEMMA IntText ==
  ASSUME NEW c \in Configs, NEW d \in Display1, NEW n, IntShown(d, n, c)
  PROVE  Text(d) = Printed(n, Base(c)) /\ n < Base(c)^Top(c) /\ -n < Base(c)^Top(c)
<1> DEFINE b == Base(c)
           top == Top(c)
           Fits(m, k) == m \in Nat /\ k \in 1..top /\ m < b^k
<1>0. /\ DISP_MAX_LEN \in Nat /\ Terminated(d) /\ n \in Int
      /\ b \in Bases /\ top \in Tops /\ PowersOf(b, top) /\ top \in Nat
      /\ d.index \in Nat
  BY SettingsFacts, WordFacts DEF IntShown, IsTop, Tops, Terminated
<1>1. Text(d) = [i \in 1..d.index |-> d.stack[i - 1]]
  BY <1>0, TextOf
<1>2. ASSUME NEW m \in Nat, NEW k \in 1..top, m < b^k PROVE m < b^top /\ -m < b^top
  <2> HIDE DEF b, top
  <2>1. k \in 0..top /\ top \in k..top
    BY <1>0
  <2>2. b^k <= b^top /\ b^k \in Nat \ {0} /\ b^top \in Nat \ {0}
    BY <1>0, <2>1, PowersGrow, PowersPositive
  <2> QED BY <1>2, <2>2
<1>3. CASE n \in Nat /\ NatShown(d, 0, n, c)
  <2>1. /\ Length(n, b) = d.index - 0 /\ \A i \in 1..(d.index - 0) : Numeral(n, b)[i] = d.stack[0 + (i - 1)]
        /\ n < b^(d.index - 0)
    <3> HIDE DEF b
    <3> QED BY <1>0, <1>3, NatShownFacts DEF b
  <2>2. d.index - 0 = d.index /\ d.index \in 1..top
    BY <1>0, <1>3 DEF NatShown, Canonical
  <2>3. n < b^top /\ -n < b^top
    BY <1>2, <1>3, <2>1, <2>2
  <2> HIDE DEF b, top
  <2>4. /\ Len(Printed(n, b)) = d.index /\ Printed(n, b) \in Seq(Chars \ {NUL})
        /\ \A i \in 1..d.index : Printed(n, b)[i] = Numeral(n, b)[i]
    BY <1>0, <1>3, <2>1, <2>2, <2>3, PrintedFacts
  <2>5. \A i \in 1..d.index : Printed(n, b)[i] = d.stack[i - 1]
    <3> SUFFICES ASSUME NEW i \in 1..d.index PROVE Printed(n, b)[i] = d.stack[i - 1]
      OBVIOUS
    <3>1. 0 + (i - 1) = i - 1
      OBVIOUS
    <3> QED BY <2>1, <2>2, <2>4, <3>1
  <2>6. Printed(n, b) = [i \in 1..d.index |-> Printed(n, b)[i]]
    BY <2>4
  <2> QED BY <1>1, <2>3, <2>5, <2>6 DEF b, top
<1>4. CASE -n \in Nat \ {0} /\ d.stack[0] = "-" /\ NatShown(d, 1, -n, c)
  <2>1. /\ Length(-n, b) = d.index - 1
        /\ \A i \in 1..(d.index - 1) : Numeral(-n, b)[i] = d.stack[1 + (i - 1)]
        /\ -n < b^(d.index - 1)
    <3> HIDE DEF b
    <3> QED BY <1>0, <1>4, NatShownFacts DEF b
  <2>2. d.index - 1 \in 1..top /\ n \notin Nat
    BY <1>0, <1>4 DEF NatShown, Canonical
  <2>3. n < b^top /\ -n < b^top
    <3>1. -n < b^top /\ -(-n) < b^top
      BY <1>2, <1>4, <2>1, <2>2
    <3>2. -(-n) = n
      BY <1>0
    <3> QED BY <3>1, <3>2
  <2> HIDE DEF b, top
  <2>4. /\ Len(Printed(n, b)) = d.index /\ Printed(n, b) \in Seq(Chars \ {NUL})
        /\ Printed(n, b)[1] = "-"
        /\ \A i \in 1..(d.index - 1) : Printed(n, b)[i + 1] = Numeral(-n, b)[i]
    <3>1. (d.index - 1) + 1 = d.index
      BY <1>0
    <3> QED BY <1>0, <2>1, <2>2, <2>3, <3>1, PrintedFacts, SMTT(60)
  <2>5. \A i \in 1..d.index : Printed(n, b)[i] = d.stack[i - 1]
    <3> SUFFICES ASSUME NEW i \in 1..d.index PROVE Printed(n, b)[i] = d.stack[i - 1]
      OBVIOUS
    <3>1. CASE i = 1
      BY <1>4, <2>4, <3>1
    <3>2. CASE i # 1
      <4>1. i - 1 \in 1..(d.index - 1) /\ (i - 1) + 1 = i /\ 1 + ((i - 1) - 1) = i - 1
        BY <1>0, <3>2
      <4> QED BY <2>1, <2>4, <4>1
    <3> QED BY <3>1, <3>2
  <2>6. Printed(n, b) = [i \in 1..d.index |-> Printed(n, b)[i]]
    BY <2>4
  <2> QED BY <1>1, <2>3, <2>5, <2>6 DEF b, top
<1> QED BY <1>3, <1>4 DEF IntShown

-----------------------------------------------------------------------------
(* Writing a text *)

\* The display that display_set_text gives to update_display.
Written(d, text) ==
  [d EXCEPT !.stack = [i \in Slot |-> IF i < DISP_MAX_LEN /\ i < Len(text) THEN text[i + 1] ELSE NUL],
            !.index = IF Len(text) < DISP_MAX_LEN THEN Len(text) ELSE DISP_MAX_LEN,
            !.exp_entry = FALSE]

Texts == Seq(Chars \ {NUL}) \ {<<>>}

\* display_set_text leaves a terminated display, with the text on it if it fits.
LEMMA WrittenFacts ==
  ASSUME NEW c \in Configs, NEW d \in Display1, NEW text \in Texts, NEW e, e = Written(d, text)
  PROVE  /\ e \in Display1 /\ Terminated(e)
         /\ ~e.exp_entry /\ e.error = d.error /\ e.ival = d.ival
         /\ Len(text) \in Nat \ {0}
         /\ Len(text) <= DISP_MAX_LEN =>
              /\ e.index = Len(text)
              /\ \A i \in 0..(Len(text) - 1) : e.stack[i] = text[i + 1]
<1>1. DISP_MAX_LEN \in Nat /\ DISP_MAX_LEN >= 7 /\ DISP_STACK_SIZE = DISP_MAX_LEN + 1
  BY SettingsFacts
<1>2. text \in Seq(Chars \ {NUL}) /\ text # <<>>
  BY DEF Texts
<1>3. /\ Len(text) \in Nat \ {0} /\ DOMAIN text = 1..Len(text)
      /\ \A i \in 1..Len(text) : text[i] \in Chars /\ text[i] # NUL
  BY <1>2, EmptySeq
<1>4. NUL \in Chars
  BY DEF Chars
<1> DEFINE s == [i \in Slot |-> IF i < DISP_MAX_LEN /\ i < Len(text) THEN text[i + 1] ELSE NUL]
           k == IF Len(text) < DISP_MAX_LEN THEN Len(text) ELSE DISP_MAX_LEN
<1>5. \A i \in Slot : i \in Nat /\ i <= DISP_MAX_LEN
  BY <1>1 DEF Slot
<1>6. ASSUME NEW i \in Slot
      PROVE  /\ s[i] = IF i < DISP_MAX_LEN /\ i < Len(text) THEN text[i + 1] ELSE NUL
             /\ s[i] \in Chars
             /\ s[i] = NUL <=> i >= k
  <2>1. i \in Nat /\ i <= DISP_MAX_LEN
    BY <1>5
  <2>2. i < Len(text) => text[i + 1] \in Chars /\ text[i + 1] # NUL
    BY <1>3, <2>1
  <2> QED BY <1>1, <1>3, <1>4, <2>1, <2>2
<1>7. s \in [Slot -> Chars]
  BY <1>6
<1>8. k \in 1..DISP_MAX_LEN /\ k \in 0..DISP_STACK_SIZE
  BY <1>1, <1>3
<1>9. e = [d EXCEPT !.stack = s, !.index = k, !.exp_entry = FALSE]
  BY DEF Written
<1> HIDE DEF s, k
<1>10. /\ e \in Display1 /\ e.stack = s /\ e.index = k /\ ~e.exp_entry
       /\ e.error = d.error /\ e.ival = d.ival
  BY <1>7, <1>8, <1>9 DEF Display1
<1>11. Terminated(e)
  BY <1>6, <1>8, <1>10 DEF Terminated
<1>12. ASSUME Len(text) <= DISP_MAX_LEN
       PROVE  /\ k = Len(text) /\ \A i \in 0..(Len(text) - 1) : s[i] = text[i + 1]
  <2>1. k = Len(text)
    <3>1. CASE Len(text) < DISP_MAX_LEN
      BY <3>1 DEF k
    <3>2. CASE ~(Len(text) < DISP_MAX_LEN)
      <4>1. Len(text) = DISP_MAX_LEN
        <5> DEFINE len == Len(text)
                   max == DISP_MAX_LEN
        <5>1. len \in Int /\ max \in Int /\ len <= max /\ ~(len < max)
          BY <1>1, <1>3, <1>12, <3>2
        <5> HIDE DEF len, max
        <5>2. len = max
          BY <5>1
        <5> QED BY <5>2 DEF len, max
      <4> QED BY <3>2, <4>1 DEF k
    <3> QED BY <3>1, <3>2
  <2>2. \A i \in 0..(Len(text) - 1) : i \in Slot /\ i < DISP_MAX_LEN /\ i < Len(text)
    BY <1>1, <1>3, <1>12 DEF Slot
  <2> QED BY <2>1, <2>2, <1>6
<1> QED BY <1>3, <1>10, <1>11, <1>12

\* A printed number is shown.
LEMMA IntWritten ==
  ASSUME NEW c \in Configs, NEW d \in Display1, NEW n \in Int,
         n < Base(c)^Top(c), -n < Base(c)^Top(c), NEW e, e = Written(d, Printed(n, Base(c)))
  PROVE  e \in Display1 /\ IntShown(e, n, c) /\ ~e.exp_entry /\ e.error = d.error
<1> DEFINE b == Base(c)
           top == Top(c)
           text == Printed(n, b)
           m == IF n < 0 THEN -n ELSE n
           len == Length(m, b)
           num == Numeral(m, b)
           from == IF n < 0 THEN 1 ELSE 0
<1>0. /\ DISP_MAX_LEN \in Nat /\ b \in Bases /\ top \in Tops /\ PowersOf(b, top)
      /\ top < DISP_MAX_LEN /\ top \in Nat
  BY SettingsFacts, WordFacts DEF IsTop, Tops
<1>1. n < b^top /\ -n < b^top
  OBVIOUS
<1>2. e = Written(d, text)
  OBVIOUS
<1> HIDE DEF b, top
<1>3. m \in Nat /\ m < b^top /\ (n < 0 <=> n \notin Nat) /\ (n < 0 => m # 0)
      /\ (n < 0 => n = -m /\ m = -n) /\ (~(n < 0) => n = m)
  BY <1>1
<1>4. /\ len \in 1..top /\ Len(text) = from + len /\ text \in Seq(Chars \ {NUL})
      /\ \A i \in 1..len : text[from + i] = num[i]
      /\ n < 0 => text[1] = "-"
  <2>1. CASE n < 0
    <3>1. n \notin Nat /\ m = -n /\ from = 1
      BY <2>1, <1>3
    <3>2. /\ Len(text) = Length(-n, b) + 1 /\ Length(-n, b) \in 1..top /\ text[1] = "-"
          /\ \A i \in 1..Length(-n, b) : text[i + 1] = Numeral(-n, b)[i]
          /\ text \in Seq(Chars \ {NUL})
      BY <1>0, <1>1, <3>1, PrintedFacts
    <3> HIDE DEF m, text, from
    <3>3. len \in Nat /\ \A i \in 1..len : i + 1 = from + i
      BY <3>1, <3>2, <1>0
    <3> QED BY <3>1, <3>2, <3>3
  <2>2. CASE ~(n < 0)
    <3>1. n \in Nat /\ m = n /\ from = 0
      BY <2>2, <1>3
    <3>2. /\ Len(text) = Length(n, b) /\ Length(n, b) \in 1..top
          /\ \A i \in 1..Length(n, b) : text[i] = Numeral(n, b)[i]
          /\ text \in Seq(Chars \ {NUL})
      BY <1>0, <1>1, <3>1, PrintedFacts
    <3> HIDE DEF m, text, from
    <3>3. len \in Nat /\ len = 0 + len /\ \A i \in 1..len : i = from + i
      BY <3>1, <3>2, <1>0
    <3> QED BY <2>2, <3>1, <3>2, <3>3
  <2> QED BY <2>1, <2>2
<1>5. /\ \A i \in 1..len : num[i] \in Range(Digit) /\ DigitValue[num[i]] < b
      /\ DigitValue[num[1]] = 0 => len = 1
  <2> HIDE DEF m
  <2> QED BY <1>0, <1>3, NumeralDigits
<1>6. from \in {0, 1} /\ (n < 0 => from = 1) /\ (~(n < 0) => from = 0)
  OBVIOUS
<1> HIDE DEF from, len, num, text, m
<1>7. /\ e \in Display1 /\ Terminated(e) /\ ~e.exp_entry /\ e.error = d.error
      /\ e.index = from + len
      /\ \A i \in 0..((from + len) - 1) : e.stack[i] = text[i + 1]
  <2>1. Len(text) \in Nat /\ Len(text) # 0 /\ Len(text) <= DISP_MAX_LEN
    BY <1>0, <1>4, <1>6
  <2>2. text \in Texts
    BY <1>4, <2>1, EmptySeq DEF Texts
  <2>3. /\ e \in Display1 /\ Terminated(e) /\ ~e.exp_entry /\ e.error = d.error
        /\ e.index = Len(text)
        /\ \A i \in 0..(Len(text) - 1) : e.stack[i] = text[i + 1]
    BY <1>2, <2>1, <2>2, WrittenFacts
  <2> QED BY <1>4, <2>3
<1>8. /\ from \in Nat /\ e.index \in Nat /\ e.index - from = len /\ from < e.index /\ len \in Nat
      /\ e.index - from <= top
  BY <1>0, <1>4, <1>6, <1>7
<1>9. \A i \in from..(e.index - 1) : e.stack[i] = num[(i - from) + 1] /\ (i - from) + 1 \in 1..len
  <2> SUFFICES ASSUME NEW i \in from..(e.index - 1)
               PROVE  e.stack[i] = num[(i - from) + 1] /\ (i - from) + 1 \in 1..len
    OBVIOUS
  <2>1. i \in 0..((from + len) - 1) /\ (i - from) + 1 \in 1..len /\ from + ((i - from) + 1) = i + 1
    BY <1>7, <1>8
  <2> QED BY <2>1, <1>4, <1>7
<1>10. Canonical(e.stack, from, e.index, b, top)
  <2>1. DigitsIn(e.stack, from, e.index, b)
    BY <1>5, <1>9 DEF DigitsIn
  <2>2. e.stack[from] = num[1]
    <3>1. from \in from..(e.index - 1) /\ (from - from) + 1 = 1
      BY <1>8
    <3> QED BY <1>9, <3>1
  <2> QED BY <1>5, <1>8, <2>1, <2>2 DEF Canonical
<1>11. Magnitude(e, from, e.index, b) = m
  <2>1. PICK f : Counts(f, e.stack, from, e.index, b) /\ Magnitude(e, from, e.index, b) = f[e.index]
    BY <1>8, MagnitudeCounts
  <2>2. Spells(e.stack, from, e.index, m, b)
    BY <1>8, <1>9 DEF len, num, Spells
  <2>3. f[e.index] = m
    BY <1>0, <1>3, <1>8, <2>1, <2>2, NumeralCounts
  <2> QED BY <2>1, <2>3
<1>12. NatShown(e, from, m, c)
  BY <1>10, <1>11 DEF NatShown, b, top
<1>13. n < 0 => e.stack[0] = "-"
  <2> SUFFICES ASSUME n < 0 PROVE e.stack[0] = "-"
    OBVIOUS
  <2>1. 0 \in 0..((from + len) - 1) /\ 0 + 1 = 1
    BY <1>6, <1>8
  <2> QED BY <1>4, <1>7, <2>1
<1> QED BY <1>3, <1>6, <1>7, <1>12, <1>13 DEF IntShown

-----------------------------------------------------------------------------
(* The stack of characters *)

Clean(d) ==
  /\ d.index \in 0..DISP_MAX_LEN
  /\ \A i \in Slot : d.stack[i] = NUL <=> i >= d.index

\* e differs from d in the text only, and not below slot n.
SameBelow(e, d, n) ==
  /\ \A i \in 0..(n - 1) : e.stack[i] = d.stack[i]
  /\ e.exp_entry = d.exp_entry /\ e.ival = d.ival /\ e.error = d.error

\* A terminated display is a clean one that is not empty.
LEMMA CleanTerminated ==
  ASSUME NEW d, DISP_MAX_LEN \in Nat
  PROVE  Terminated(d) <=> Clean(d) /\ d.index # 0
BY DEF Terminated, Clean

\* A push below the limit adds the character, and a pop takes it back.
LEMMA PushFacts ==
  ASSUME NEW d \in Display1, DISP_MAX_LEN \in Nat, DISP_STACK_SIZE = DISP_MAX_LEN + 1, Clean(d),
         NEW ch \in Chars \ {NUL}, NEW limit \in Nat, limit <= DISP_MAX_LEN, d.index < limit,
         NEW e, e = disp_stack_push(d, ch, limit)
  PROVE  /\ e \in Display1 /\ Clean(e) /\ e.index = d.index + 1
         /\ e.stack[d.index] = ch /\ SameBelow(e, d, d.index)
         /\ disp_stack_pop(e) = d
<1>1. d.index \in Slot /\ d.index \in Nat /\ d.index + 1 \in 0..DISP_STACK_SIZE /\ d.index + 1 \in 0..DISP_MAX_LEN
  BY DEF Clean, Slot
<1>2. d.stack \in [Slot -> Chars] /\ d.index \in 0..DISP_STACK_SIZE
  BY DEF Display1
<1> DEFINE s == [d.stack EXCEPT ![d.index] = ch]
<1>3. e = [d EXCEPT !.stack = s, !.index = d.index + 1]
  BY <1>1 DEF disp_stack_push, Display1
<1>4. /\ s \in [Slot -> Chars] /\ s[d.index] = ch
      /\ \A i \in Slot : i # d.index => s[i] = d.stack[i]
  BY <1>1, <1>2
<1>5. [s EXCEPT ![d.index] = NUL] = d.stack
  <2>1. d.stack[d.index] = NUL
    BY <1>1 DEF Clean
  <2> QED BY <1>1, <1>2, <2>1
<1> HIDE DEF s
<1>6. /\ e \in Display1 /\ e.stack = s /\ e.index = d.index + 1
      /\ e.exp_entry = d.exp_entry /\ e.ival = d.ival /\ e.error = d.error
  BY <1>1, <1>3, <1>4 DEF Display1
<1>7. Clean(e)
  <2>1. \A i \in Slot : s[i] = NUL <=> i >= d.index + 1
    <3> SUFFICES ASSUME NEW i \in Slot PROVE s[i] = NUL <=> i >= d.index + 1
      OBVIOUS
    <3>1. i \in Nat /\ (d.stack[i] = NUL <=> i >= d.index)
      BY DEF Slot, Clean
    <3>2. CASE i = d.index
      BY <1>1, <1>4, <3>2
    <3>3. CASE i # d.index
      BY <1>1, <1>4, <3>1, <3>3
    <3> QED BY <3>2, <3>3
  <2> QED BY <1>1, <1>6, <2>1 DEF Clean
<1>8. SameBelow(e, d, d.index)
  <2>1. \A i \in 0..(d.index - 1) : i \in Slot /\ i # d.index
    BY <1>1 DEF Slot
  <2> QED BY <1>4, <1>6, <2>1 DEF SameBelow
<1>9. disp_stack_pop(e) = d
  <2>1. e.index > 0 /\ e.index - 1 = d.index
    BY <1>1, <1>6
  <2>2. disp_stack_pop(e) = [e EXCEPT !.stack = [s EXCEPT ![d.index] = NUL], !.index = d.index]
    BY <1>6, <2>1 DEF disp_stack_pop, Display1
  <2>3. disp_stack_pop(e) = [e EXCEPT !.stack = d.stack, !.index = d.index]
    BY <2>2, <1>5
  <2> QED BY <2>3, <1>6, ZenonT(60) DEF Display1
<1> QED BY <1>4, <1>6, <1>7, <1>8, <1>9

\* A pop leaves a clean display, the same below the new index.
LEMMA PopFacts ==
  ASSUME NEW d \in Display1, DISP_MAX_LEN \in Nat, DISP_STACK_SIZE = DISP_MAX_LEN + 1, Clean(d),
         d.index # 0, NEW e, e = disp_stack_pop(d)
  PROVE  /\ e \in Display1 /\ Clean(e) /\ e.index = d.index - 1 /\ SameBelow(e, d, d.index - 1)
<1>1. /\ d.index - 1 \in Slot /\ d.index \in Nat /\ d.index > 0 /\ d.index - 1 \in 0..DISP_STACK_SIZE
      /\ d.index - 1 \in 0..DISP_MAX_LEN
  BY DEF Clean, Slot
<1>2. d.stack \in [Slot -> Chars]
  BY DEF Display1
<1> DEFINE s == [d.stack EXCEPT ![d.index - 1] = NUL]
<1>3. e = [d EXCEPT !.stack = s, !.index = d.index - 1]
  BY <1>1 DEF disp_stack_pop, Display1
<1>4. /\ s \in [Slot -> Chars] /\ s[d.index - 1] = NUL
      /\ \A i \in Slot : i # d.index - 1 => s[i] = d.stack[i]
  BY <1>1, <1>2 DEF Chars
<1> HIDE DEF s
<1>6. /\ e \in Display1 /\ e.stack = s /\ e.index = d.index - 1
      /\ e.exp_entry = d.exp_entry /\ e.ival = d.ival /\ e.error = d.error
  BY <1>1, <1>3, <1>4 DEF Display1
<1>7. Clean(e)
  <2>1. \A i \in Slot : s[i] = NUL <=> i >= d.index - 1
    <3> SUFFICES ASSUME NEW i \in Slot PROVE s[i] = NUL <=> i >= d.index - 1
      OBVIOUS
    <3>1. i \in Nat /\ (d.stack[i] = NUL <=> i >= d.index)
      BY DEF Slot, Clean
    <3>2. CASE i = d.index - 1
      BY <1>1, <1>4, <3>2
    <3>3. CASE i # d.index - 1
      BY <1>1, <1>4, <3>1, <3>3
    <3> QED BY <3>2, <3>3
  <2> QED BY <1>1, <1>6, <2>1 DEF Clean
<1>8. SameBelow(e, d, d.index - 1)
  <2>1. \A i \in 0..((d.index - 1) - 1) : i \in Slot /\ i # d.index - 1
    BY <1>1 DEF Slot
  <2> QED BY <1>4, <1>6, <2>1 DEF SameBelow
<1> QED BY <1>6, <1>7, <1>8

-----------------------------------------------------------------------------
(* update_display, when an integer is shown *)

\* The integer n is shown and stored.
IntStored(d, n, c) ==
  /\ d \in Display1 /\ ~d.error /\ ~d.exp_entry
  /\ IntShown(d, n, c) /\ InRange(n, c)
  /\ d.ival = n % 2^c.width

\* The word of a number in range: the number itself, or 2^width above it.
LEMMA RangeFacts ==
  ASSUME NEW c \in Configs, NEW n \in Int, InRange(n, c)
  PROVE  /\ n < Base(c)^Top(c) /\ -n < Base(c)^Top(c)
         /\ n % 2^c.width \in Nat /\ n % 2^c.width < 2^c.width
         /\ n \in Nat => n < 2^c.width /\ n % 2^c.width = n
         /\ n \notin Nat => SignedDec(c) /\ n % 2^c.width = n + 2^c.width /\ n % 2^c.width >= 2^(c.width - 1)
<1> DEFINE w == 2^c.width
           h == 2^(c.width - 1)
           p == Base(c)^Top(c)
<1>1. w \in Nat /\ h \in Nat /\ w = 2 * h /\ h >= 10 /\ w <= p
  BY WordFacts, SettingsFacts DEF IsTop, Bases
<1>2. p \in Int
  <2>1. Top(c) \in Nat /\ Top(c) \in 1..Top(c) /\ PowersOf(Base(c), Top(c))
    BY WordFacts DEF IsTop, Tops
  <2> QED BY <2>1 DEF PowersOf
<1>3. IF SignedDec(c) THEN -h <= n /\ n < h ELSE 0 <= n /\ n < w
  BY DEF InRange
<1> HIDE DEF w, h, p
<1>4. n < p /\ -n < p
  BY <1>1, <1>2, <1>3
<1>5. n % w \in Nat /\ n % w < w
  BY <1>1
<1>6. n \in Nat => n < w /\ n % w = n
  BY <1>1, <1>3
<1>7. n \notin Nat => SignedDec(c) /\ n % w = n + w /\ n % w >= h
  <2> SUFFICES ASSUME n \notin Nat PROVE SignedDec(c) /\ n % w = n + w /\ n % w >= h
    OBVIOUS
  <2>1. SignedDec(c) /\ -h <= n /\ n < 0
    BY <1>1, <1>3
  <2>2. n % w = n + w
    BY <1>1, <2>1
  <2> QED BY <1>1, <2>1, <2>2
<1> QED BY <1>4, <1>5, <1>6, <1>7 DEF w, h, p

\* What is shown depends on the stack and the index only.
LEMMA IntShownSame ==
  ASSUME NEW c \in Configs, NEW d, NEW e, NEW n, IntShown(d, n, c), e.stack = d.stack, e.index = d.index
  PROVE  IntShown(e, n, c)
<1>1. Terminated(e) /\ n \in Int /\ e.index \in Nat
  BY SettingsFacts DEF IntShown, Terminated
<1>2. ASSUME NEW from \in {0, 1}, NEW m, NatShown(d, from, m, c) PROVE NatShown(e, from, m, c)
  <2>1. from <= d.index /\ from \in Nat
    BY <1>1, <1>2 DEF NatShown, Canonical
  <2>2. SameDigits(d.stack, from, d.index, e.stack, from) /\ e.index = from + (d.index - from)
    <3>1. \A i \in from..(d.index - 1) : from + (i - from) = i
      BY <2>1
    <3>2. e.index = from + (d.index - from)
      BY <1>1, <2>1
    <3> QED BY <3>1, <3>2 DEF SameDigits
  <2>3. Magnitude(d, from, d.index, Base(c)) = Magnitude(e, from, e.index, Base(c))
    BY <1>1, <2>1, <2>2, MagnitudeSame
  <2> QED BY <1>2, <2>3 DEF NatShown
<1> QED BY <1>1, <1>2 DEF IntShown

\* update_display stores the number shown when it is in range.
LEMMA UpdateStored ==
  ASSUME NEW c \in Configs, c.mode = "int", NEW e \in Display1, NEW n, IntShown(e, n, c), InRange(n, c),
         ~e.error, ~e.exp_entry
  PROVE  /\ update_display(e, c) = [e EXCEPT !.ival = n % 2^c.width]
         /\ IntStored(update_display(e, c), n, c)
<1>1. DisplayNumber(e, c) = n /\ n \in Int
  BY IntRead
<1>2. update_display(e, c) = [e EXCEPT !.ival = n % 2^c.width]
  BY <1>1 DEF update_display
<1>3. n % 2^c.width \in Nat
  BY <1>1, RangeFacts
<1> DEFINE f == [e EXCEPT !.ival = n % 2^c.width]
<1>4. f \in Display1 /\ f.stack = e.stack /\ f.index = e.index /\ ~f.error /\ ~f.exp_entry /\ f.ival = n % 2^c.width
  BY <1>3 DEF Display1
<1> HIDE DEF f
<1>5. IntShown(f, n, c)
  BY <1>4, IntShownSame
<1> QED BY <1>2, <1>4, <1>5 DEF IntStored, f

\* A display with its number stored is not changed by reading it again.
LEMMA UpdateAgain ==
  ASSUME NEW c \in Configs, c.mode = "int", NEW d, NEW n, IntStored(d, n, c)
  PROVE  update_display(d, c) = d
<1>1. update_display(d, c) = [d EXCEPT !.ival = n % 2^c.width] /\ d \in Display1 /\ d.ival = n % 2^c.width
  BY UpdateStored DEF IntStored
<1> QED BY <1>1 DEF Display1

\* The number that display_set_val shows.
ShownNumber(v, c) == IF SignedDec(c) THEN SignedWord(v, c) ELSE v

\* display_set_val shows a word as the number it stands for, and stores the word.
LEMMA SetValStored ==
  ASSUME NEW c \in Configs, c.mode = "int", NEW d \in Display1, ~d.error, NEW v \in Nat, v < 2^c.width
  PROVE  /\ IntStored(display_set_val(d, v, c), ShownNumber(v, c), c)
         /\ ShownNumber(v, c) % 2^c.width = v
<1> DEFINE n == ShownNumber(v, c)
           w == 2^c.width
           h == 2^(c.width - 1)
<1>1. w \in Nat /\ h \in Nat /\ w = 2 * h /\ h >= 10
  BY WordFacts, SettingsFacts DEF Bases
<1>2. n \in Int /\ n % w = v /\ InRange(n, c)
  <2>1. CASE SignedDec(c)
    <3>1. n = IF v >= h THEN v - w ELSE v
      BY <2>1 DEF ShownNumber, SignedWord, SignedDec
    <3> HIDE DEF n, w, h
    <3>2. v < w
      BY DEF w
    <3>3. n \in Int /\ -h <= n /\ n < h
      BY <1>1, <3>1, <3>2
    <3>4. n % w = v
      BY <1>1, <3>1, <3>2
    <3> QED BY <2>1, <3>3, <3>4 DEF InRange, w, h
  <2>2. CASE ~SignedDec(c)
    <3>1. n = v
      BY <2>2 DEF ShownNumber
    <3> QED BY <1>1, <2>2, <3>1 DEF InRange
  <2> QED BY <2>1, <2>2
<1> HIDE DEF n
<1>3. display_set_val(d, v, c) = update_display(Written(d, Printed(n, Base(c))), c)
  BY DEF display_set_val, display_set_text, Written, n, ShownNumber
<1> DEFINE e == Written(d, Printed(n, Base(c)))
<1>4. e \in Display1 /\ IntShown(e, n, c) /\ ~e.exp_entry /\ ~e.error
  BY <1>2, RangeFacts, IntWritten
<1> HIDE DEF e
<1>5. IntStored(update_display(e, c), n, c)
  BY <1>2, <1>4, UpdateStored
<1> QED BY <1>2, <1>3, <1>5 DEF e, n

-----------------------------------------------------------------------------
(* Typing an integer *)

\* What reading gives when one more digit is on the display.
LEMMA MagnitudePush ==
  ASSUME NEW d, NEW e, NEW to \in Nat, NEW b, NEW ch,
         SameBelow(e, d, to), e.stack[to] = ch
  PROVE  Magnitude(e, 0, to + 1, b) = Magnitude(d, 0, to, b) * b + DigitValue[ch]
<1>1. PICK f : Counts(f, e.stack, 0, to + 1, b) /\ Magnitude(e, 0, to + 1, b) = f[to + 1]
  BY MagnitudeCounts
<1>2. Counts(f, d.stack, 0, to, b)
  <2>1. \A i \in 0..(to - 1) : i \in 0..((to + 1) - 1)
    OBVIOUS
  <2> QED BY <1>1, <2>1 DEF Counts, SameBelow
<1>3. Magnitude(d, 0, to, b) = f[to]
  BY <1>2, MagnitudeIs
<1>4. f[to + 1] = f[to] * b + DigitValue[ch]
  <2>1. to \in 0..((to + 1) - 1)
    OBVIOUS
  <2> QED BY <1>1, <2>1 DEF Counts
<1> QED BY <1>1, <1>3, <1>4

\* A natural number on the display: its digits begin in slot 0.
LEMMA NatOnDisplay ==
  ASSUME NEW c \in Configs, NEW d \in Display1, NEW n \in Nat, IntShown(d, n, c)
  PROVE  /\ NatShown(d, 0, n, c) /\ Clean(d) /\ d.index \in Nat \ {0} /\ d.stack[0] \in Range(Digit)
         /\ LoneZero(d) <=> n = 0
         /\ n = 0 => d.index = 1
<1>1. DISP_MAX_LEN \in Nat /\ Terminated(d)
  BY SettingsFacts DEF IntShown
<1>2. ~(-n \in Nat \ {0})
  OBVIOUS
<1>3. NatShown(d, 0, n, c)
  BY <1>2 DEF IntShown
<1>4. Clean(d) /\ d.index \in Nat \ {0}
  BY <1>1, CleanTerminated DEF Terminated
<1>5. d.stack[0] \in Range(Digit) /\ DigitValue[d.stack[0]] < Base(c)
  <2>1. 0 \in 0..(d.index - 1)
    BY <1>4
  <2> QED BY <1>3, <2>1 DEF NatShown, Canonical, DigitsIn
<1>6. /\ d.stack[0] # "-"
      /\ d.stack[0] = "0" <=> DigitValue[d.stack[0]] = 0
  <2>1. d.stack[0] # "-"
    BY <1>5, Signs
  <2>2. Digit[DigitValue[d.stack[0]] + 1] = d.stack[0] /\ DigitValue[Digit[0 + 1]] = 0 /\ Digit[0 + 1] = "0"
    BY <1>5, Signs, DigitValues
  <2>3. DigitValue[d.stack[0]] = 0 => d.stack[0] = "0"
    BY <2>2
  <2>4. d.stack[0] = "0" => DigitValue[d.stack[0]] = 0
    BY <2>2
  <2> QED BY <2>1, <2>3, <2>4
<1>7. DigitValue[d.stack[0]] = 0 => d.index = 1
  BY <1>3 DEF NatShown, Canonical
<1>8. DigitValue[d.stack[0]] = 0 <=> n = 0
  <2>1. DigitValue[d.stack[0]] = 0 => n = 0
    BY <1>1, <1>3, NatShownFacts
  <2>2. DigitValue[d.stack[0]] # 0 => Base(c)^(d.index - (0 + 1)) <= n
    BY <1>1, <1>3, NatShownFacts
  <2>3. Base(c)^(d.index - (0 + 1)) \in Nat \ {0}
    <3>1. d.index - (0 + 1) \in 0..Top(c) /\ Top(c) \in Nat
      BY <1>3, <1>4, WordFacts DEF NatShown, Canonical, Tops
    <3> QED BY <3>1, SettingsFacts, WordFacts, PowersPositive DEF IsTop
  <2>4. DigitValue[d.stack[0]] # 0 => n # 0
    BY <2>2, <2>3
  <2> QED BY <2>1, <2>4
<1>9. LoneZero(d) <=> n = 0
  BY <1>6, <1>7, <1>8 DEF LoneZero
<1> QED BY <1>3, <1>4, <1>5, <1>7, <1>8, <1>9

\* The display e comes of d by the digit k behind the number n.
DigitOn(e, d, n, k, c) ==
  /\ e \in Display1 /\ disp_stack_pop(e) = d
  /\ e.error = d.error /\ e.exp_entry = d.exp_entry /\ Terminated(e)
  /\ DisplayNumber(e, c) = n * Base(c) + k
  /\ Magnitude(e, 0, e.index, Base(c)) = n * Base(c) + k
  /\ d.index < Top(c) => IntShown(e, n * Base(c) + k, c)

\* A digit behind the number on the display, perhaps one too many.
LEMMA DigitPushed ==
  ASSUME NEW c \in Configs, NEW d \in Display1, NEW n \in Nat \ {0}, IntShown(d, n, c),
         NEW k \in 0..15, k < Base(c), NEW limit \in Nat, limit <= DISP_MAX_LEN, d.index < limit,
         NEW e, e = disp_stack_push(d, Digit[k + 1], limit)
  PROVE  /\ DigitOn(e, d, n, k, c)
         /\ n * Base(c) + k < 2^c.width => d.index < Top(c)
<1> DEFINE b == Base(c)
           ch == Digit[k + 1]
<1>1. /\ DISP_MAX_LEN \in Nat /\ DISP_STACK_SIZE = DISP_MAX_LEN + 1 /\ b \in Bases
      /\ Top(c) \in Nat /\ PowersOf(b, Top(c)) /\ 2^c.width <= b^Top(c) /\ 2^c.width \in Nat
  BY SettingsFacts, WordFacts DEF IsTop, Tops
<1>2. ch \in Range(Digit) /\ DigitValue[ch] = k /\ ch \in Chars \ {NUL} /\ ch # "-"
  BY DigitValues, Signs DEF Chars
<1>3. NatShown(d, 0, n, c) /\ Clean(d) /\ d.index \in Nat \ {0} /\ d.stack[0] \in Range(Digit)
  BY NatOnDisplay
<1> HIDE DEF ch
<1>4. /\ e \in Display1 /\ Clean(e) /\ e.index = d.index + 1 /\ e.stack[d.index] = ch
      /\ SameBelow(e, d, d.index) /\ disp_stack_pop(e) = d
  BY <1>1, <1>2, <1>3, PushFacts DEF ch
<1>5. Terminated(e) /\ strlen(e) = e.index
  <2>1. e.index # 0
    BY <1>3, <1>4
  <2> QED BY <1>1, <1>4, <2>1, CleanTerminated, TextOf
<1>6. Magnitude(e, 0, e.index, b) = n * b + k
  <2>2. Magnitude(d, 0, d.index, b) = n
    BY <1>3 DEF NatShown
  <2>3. Magnitude(e, 0, d.index + 1, b) = Magnitude(d, 0, d.index, b) * b + DigitValue[ch]
    <3> HIDE DEF b
    <3> QED BY <1>3, <1>4, MagnitudePush
  <2> QED BY <1>2, <1>4, <2>2, <2>3
<1>7. e.stack[0] = d.stack[0]
  <2>1. 0 \in 0..(d.index - 1)
    BY <1>3
  <2> QED BY <1>4, <2>1 DEF SameBelow
<1>8. DisplayNumber(e, c) = n * b + k
  <2>1. e.stack[0] # "-"
    BY <1>3, <1>7, Signs
  <2> QED BY <2>1, <1>5, <1>6 DEF DisplayNumber
<1>9. DigitsIn(e.stack, 0, e.index, b)
  <2> SUFFICES ASSUME NEW i \in 0..(e.index - 1)
               PROVE  e.stack[i] \in Range(Digit) /\ DigitValue[e.stack[i]] < b
    BY DEF DigitsIn
  <2>1. CASE i = d.index
    BY <1>2, <1>4, <2>1
  <2>2. CASE i # d.index
    <3>1. i \in 0..(d.index - 1)
      BY <1>3, <1>4, <2>2
    <3> QED BY <1>3, <1>4, <3>1 DEF SameBelow, NatShown, Canonical, DigitsIn
  <2> QED BY <2>1, <2>2
<1>10. DigitValue[d.stack[0]] # 0
  BY <1>1, <1>3, NatShownFacts, CleanTerminated
<1>11. ASSUME d.index < Top(c) PROVE IntShown(e, n * b + k, c)
  <2>1. Canonical(e.stack, 0, e.index, b, Top(c))
    <3>1. 0 < e.index /\ e.index - 0 <= Top(c)
      BY <1>1, <1>3, <1>4, <1>11
    <3> QED BY <1>7, <1>9, <1>10, <3>1 DEF Canonical
  <2>2. n * b + k \in Nat
    BY <1>1 DEF Bases
  <2> QED BY <1>5, <1>6, <2>1, <2>2 DEF IntShown, NatShown
<1>12. ASSUME n * b + k < 2^c.width PROVE d.index < Top(c)
  <2> SUFFICES ASSUME ~(d.index < Top(c)) PROVE FALSE
    OBVIOUS
  <2>1. d.index = Top(c)
    <3>1. d.index - 0 <= Top(c)
      BY <1>3 DEF NatShown, Canonical
    <3> QED BY <1>1, <1>3, <3>1
  <2>2. b^(Top(c) - 1) <= n
    <3>1. b^(d.index - (0 + 1)) <= n
      BY <1>1, <1>3, <1>10, NatShownFacts, CleanTerminated
    <3> QED BY <2>1, <3>1
  <2>3. b^Top(c) = b * b^(Top(c) - 1) /\ b^(Top(c) - 1) \in Nat
    <3>1. Top(c) \in 1..Top(c) /\ Top(c) - 1 \in 0..Top(c)
      BY <1>1, <1>3, <2>1
    <3> HIDE DEF b
    <3> QED BY <1>1, <3>1, PowersPositive
  <2> DEFINE p == b^Top(c)
             r == b^(Top(c) - 1)
             w == 2^c.width
  <2>4. p = b * r /\ r <= n /\ r \in Nat /\ w <= p /\ n * b + k < w /\ b \in Nat /\ w \in Nat
    <3>1. w <= p /\ w \in Nat
      BY <1>1
    <3> HIDE DEF b
    <3>2. b \in Nat
      BY <1>1 DEF Bases
    <3> QED BY <2>2, <2>3, <3>1, <3>2, <1>12 DEF b
  <2> HIDE DEF b, p, r, w
  <2>5. b * r <= n * b /\ b * r \in Nat /\ n * b \in Nat
    BY <1>1, <2>4 DEF Bases
  <2>6. w <= b * r
    BY <2>4
  <2> DEFINE x == n * b
             y == b * r
  <2>7. y <= x /\ y \in Nat /\ x \in Nat /\ w <= y /\ x + k < w /\ w \in Nat
    BY <2>4, <2>5, <2>6
  <2> HIDE DEF x, y
  <2> QED BY <2>7
<1>13. e.error = d.error /\ e.exp_entry = d.exp_entry
  BY DEF disp_stack_push
<1>14. DigitOn(e, d, n, k, c)
  BY <1>4, <1>5, <1>6, <1>8, <1>11, <1>13 DEF DigitOn
<1> QED BY <1>12, <1>14

\* A single digit on the display.
LEMMA OneDigit ==
  ASSUME NEW c \in Configs, NEW e, Terminated(e), e.index = 1,
         NEW k \in 0..15, k < Base(c), e.stack[0] = Digit[k + 1]
  PROVE  IntShown(e, k, c)
<1>1. /\ Base(c) \in Bases /\ Top(c) \in Nat /\ 1 <= Top(c)
      /\ Digit[k + 1] \in Range(Digit) /\ DigitValue[Digit[k + 1]] = k
  BY SettingsFacts, WordFacts, DigitValues DEF Tops
<1>2. \A i \in 0..(1 - 1) : i = 0
  OBVIOUS
<1>3. Canonical(e.stack, 0, 1, Base(c), Top(c))
  BY <1>1, <1>2 DEF Canonical, DigitsIn
<1>4. PICK f : Counts(f, e.stack, 0, 1, Base(c)) /\ Magnitude(e, 0, 1, Base(c)) = f[1]
  BY MagnitudeCounts
<1>5. f[0] = 0 /\ f[0 + 1] = f[0] * Base(c) + DigitValue[e.stack[0]]
  BY <1>4 DEF Counts
<1>6. f[1] = k
  BY <1>1, <1>5 DEF Bases
<1> QED BY <1>3, <1>4, <1>6 DEF IntShown, NatShown

\* A number below the base is in range.
LEMMA SmallInRange ==
  ASSUME NEW c \in Configs, NEW k \in Nat, k < Base(c)
  PROVE  InRange(k, c) /\ k # 2^(c.width - 1)
<1> DEFINE w == 2^c.width
           h == 2^(c.width - 1)
<1>1. w \in Nat /\ h \in Nat /\ w = 2 * h /\ Base(c) <= h /\ Base(c) \in Nat
  BY WordFacts, SettingsFacts DEF Bases
<1> HIDE DEF w, h
<1>2. -h <= k /\ k < h /\ 0 <= k /\ k < w /\ k # h
  BY <1>1
<1> QED BY <1>2 DEF InRange, w, h

\* Fewer digits of a number that is in range.
LEMMA SmallerInRange ==
  ASSUME NEW c \in Configs, NEW n \in Nat, InRange(n, c), NEW m \in Nat, m <= n
  PROVE  InRange(m, c)
<1> DEFINE w == 2^c.width
           h == 2^(c.width - 1)
<1>1. w \in Nat /\ h \in Nat
  BY WordFacts
<1>2. IF SignedDec(c) THEN -h <= n /\ n < h ELSE 0 <= n /\ n < w
  BY DEF InRange
<1> HIDE DEF w, h
<1>3. IF SignedDec(c) THEN -h <= m /\ m < h ELSE 0 <= m /\ m < w
  BY <1>1, <1>2
<1> QED BY <1>3 DEF InRange, w, h

\* How many characters an integer may have.
LEMMA IntLimit ==
  ASSUME NEW c \in Configs, c.mode = "int", NEW d
  PROVE  /\ CharLimit(d, c) \in Nat /\ CharLimit(d, c) <= DISP_MAX_LEN /\ 0 < CharLimit(d, c)
         /\ Top(c) <= CharLimit(d, c) /\ Top(c) < DISP_MAX_LEN
         /\ CharLimit(d, c) = Top(c) \/ (c.format = "dec" /\ CharLimit(d, c) = DISP_MAX_LEN)
<1>1. /\ DISP_MAX_LEN \in Nat /\ Top(c) \in Nat /\ 1 <= Top(c) /\ Top(c) < DISP_MAX_LEN
      /\ c.format = "hex" => Top(c) = c.width \div 4
      /\ c.format \in {"dec", "hex"}
  BY SettingsFacts, WordFacts DEF IsTop, Tops
<1>2. CASE c.format = "hex"
  <2>1. CharLimit(d, c) = Top(c)
    BY <1>1, <1>2 DEF CharLimit
  <2> QED BY <1>1, <2>1
<1>3. CASE c.format = "dec"
  <2>1. CharLimit(d, c) = DISP_MAX_LEN
    BY <1>3 DEF CharLimit
  <2> QED BY <1>1, <1>3, <2>1
<1> QED BY <1>1, <1>2, <1>3

\* A digit on a display that shows zero replaces it.
LEMMA ZeroReplaced ==
  ASSUME NEW c \in Configs, c.mode = "int", NEW d, IntStored(d, 0, c),
         NEW k \in 1..15, k < Base(c), NEW e, e = Pushed(d, Digit[k + 1], c)
  PROVE  /\ IntStored(update_display(e, c), k, c)
         /\ ~IntMinTyped(e, c)
<1> DEFINE ch == Digit[k + 1]
           room == disp_stack_pop(d)
<1>1. /\ DISP_MAX_LEN \in Nat /\ DISP_STACK_SIZE = DISP_MAX_LEN + 1
      /\ ch \in Chars \ {NUL} /\ ch # "."
  BY SettingsFacts, DigitValues, Signs DEF Chars
<1>2. d \in Display1 /\ Clean(d) /\ d.index = 1 /\ LoneZero(d)
  BY NatOnDisplay DEF IntStored
<1>3. room \in Display1 /\ Clean(room) /\ room.index = 0 /\ SameBelow(room, d, 0)
  <2>1. room.index = d.index - 1 /\ room \in Display1 /\ Clean(room) /\ SameBelow(room, d, d.index - 1)
    BY <1>1, <1>2, PopFacts
  <2> QED BY <1>2, <2>1
<1>4. e = disp_stack_push(room, ch, CharLimit(room, c))
  BY <1>1, <1>2 DEF Pushed
<1> HIDE DEF ch, room
<1>5. CharLimit(room, c) \in Nat /\ CharLimit(room, c) <= DISP_MAX_LEN /\ 0 < CharLimit(room, c)
  BY IntLimit
<1>6. e \in Display1 /\ Clean(e) /\ e.index = 1 /\ e.stack[0] = ch /\ SameBelow(e, room, 0)
  <2>1. /\ e \in Display1 /\ Clean(e) /\ e.index = room.index + 1 /\ e.stack[room.index] = ch
        /\ SameBelow(e, room, room.index)
    BY <1>1, <1>3, <1>4, <1>5, PushFacts
  <2> QED BY <1>3, <2>1
<1>7. IntShown(e, k, c)
  <2>1. Terminated(e)
    BY <1>1, <1>6, CleanTerminated
  <2> QED BY <1>6, <2>1, OneDigit DEF ch
<1>8. InRange(k, c)
  BY SmallInRange
<1>9. ~e.error /\ ~e.exp_entry
  BY <1>3, <1>6 DEF SameBelow, IntStored
<1>10. IntStored(update_display(e, c), k, c)
  BY <1>6, <1>7, <1>8, <1>9, UpdateStored
<1>11. ~IntMinTyped(e, c)
  BY <1>6, <1>7, <1>8, IntRead DEF IntMinTyped
<1> QED BY <1>10, <1>11

\* The text is what is printed of the magnitude of the least integer only if the
\* digits are those of that number.
LEMMA LeastIntegerText ==
  ASSUME NEW c \in Configs, c.format = "dec", NEW e \in Display1, Terminated(e),
         is_equivalent_of_int_min(e, c)
  PROVE  Magnitude(e, 0, e.index, Base(c)) = 2^(c.width - 1)
<1> DEFINE h == 2^(c.width - 1)
           w == 2^c.width
           p == Base(c)^Top(c)
           text == Printed(h, Base(c))
<1>1. Base(c) = 10 /\ 10 \in Bases /\ DISP_MAX_LEN \in Nat
  BY SettingsFacts
<1>2. w \in Nat /\ h \in Nat /\ w = 2 * h /\ 10 <= h /\ w <= p /\ Top(c) \in Tops /\ PowersOf(Base(c), Top(c))
  BY <1>1, WordFacts DEF IsTop
<1>3. p \in Int
  <2>1. Top(c) \in 1..Top(c)
    BY <1>2 DEF Tops
  <2> QED BY <1>2, <2>1 DEF PowersOf
<1>4. h < p /\ -h < p
  <2> HIDE DEF h, w, p
  <2> QED BY <1>2, <1>3
<1>5. /\ Len(text) = Length(h, Base(c))
      /\ \A i \in 1..Length(h, Base(c)) : text[i] = Numeral(h, Base(c))[i]
  BY <1>1, <1>2, <1>4, PrintedFacts, SMTT(60)
<1>6. Text(e) = text /\ Text(e) = [i \in 1..e.index |-> e.stack[i - 1]]
  BY <1>1, TextOf DEF is_equivalent_of_int_min
<1>7. e.index \in Nat \ {0}
  BY <1>1 DEF Terminated
<1> HIDE DEF text, h
<1>8. Len(text) = e.index /\ \A i \in 1..e.index : text[i] = e.stack[i - 1]
  BY <1>6, <1>7
<1>9. Spells(e.stack, 0, e.index, h, Base(c))
  <2>1. e.index - 0 = Length(h, Base(c))
    BY <1>5, <1>7, <1>8
  <2>2. ASSUME NEW i \in 0..(e.index - 1) PROVE e.stack[i] = Numeral(h, Base(c))[(i - 0) + 1]
    <3>1. i + 1 \in 1..e.index /\ (i - 0) + 1 = i + 1 /\ (i + 1) - 1 = i
      BY <1>7
    <3>2. text[i + 1] = e.stack[i] /\ text[i + 1] = Numeral(h, Base(c))[i + 1]
      BY <1>5, <1>8, <3>1
    <3> QED BY <3>1, <3>2
  <2> QED BY <2>1, <2>2 DEF Spells
<1>10. PICK f : Counts(f, e.stack, 0, e.index, Base(c)) /\ Magnitude(e, 0, e.index, Base(c)) = f[e.index]
  BY <1>7, MagnitudeCounts
<1>11. f[e.index] = h
  BY <1>1, <1>2, <1>4, <1>7, <1>9, <1>10, NumeralCounts DEF p
<1> QED BY <1>10, <1>11 DEF h

\* A digit behind a number that is not zero, and reading the number back.
LEMMA DigitBehind ==
  ASSUME NEW c \in Configs, c.mode = "int", NEW d, NEW n \in Nat \ {0}, IntStored(d, n, c),
         NEW k \in 0..15, k < Base(c), NEW longer, longer = n * Base(c) + k,
         NEW e, e = disp_stack_push(d, Digit[k + 1], CharLimit(d, c))
  PROVE  /\ InRange(longer, c) => IntStored(update_display(e, c), longer, c)
         /\ ~InRange(longer, c) => update_display(e, c) = d
         /\ IntMinTyped(e, c) <=> SignedDec(c) /\ longer = 2^(c.width - 1)
<1> DEFINE b == Base(c)
           limit == CharLimit(d, c)
           full == disp_stack_push(d, Digit[k + 1], DISP_MAX_LEN)
<1>1. /\ DISP_MAX_LEN \in Nat /\ b \in Bases /\ Top(c) \in Nat /\ 2^c.width \in Nat
      /\ 2^(c.width - 1) \in Nat /\ 2^c.width = 2 * 2^(c.width - 1) /\ 10 <= 2^(c.width - 1)
      /\ c.format = "dec" => b = 10
  BY SettingsFacts, WordFacts DEF Tops, Bases
<1>2. /\ d \in Display1 /\ ~d.error /\ ~d.exp_entry /\ IntShown(d, n, c) /\ InRange(n, c)
      /\ d.index \in Nat /\ d.index <= Top(c)
  <2>1. IntShown(d, n, c) /\ d \in Display1
    BY DEF IntStored
  <2>2. NatShown(d, 0, n, c) /\ d.index \in Nat
    BY <2>1, NatOnDisplay
  <2>3. d.index <= Top(c)
    BY <1>1, <2>2 DEF NatShown, Canonical
  <2> QED BY <2>1, <2>2, <2>3 DEF IntStored
<1>3. /\ limit \in Nat /\ limit <= DISP_MAX_LEN /\ 0 < limit /\ Top(c) <= limit /\ Top(c) < DISP_MAX_LEN
      /\ limit = Top(c) \/ (c.format = "dec" /\ limit = DISP_MAX_LEN)
  BY IntLimit
<1>4. longer \in Nat
  BY <1>1 DEF Bases
<1>5. InRange(longer, c) => longer < 2^c.width /\ (SignedDec(c) => longer # 2^(c.width - 1))
  BY <1>1, <1>4, RangeFacts DEF InRange
<1> HIDE DEF limit, full

\* With room in the word there is room on the display.
<1>6. longer < 2^c.width => d.index < Top(c)
  <2>1. d.index < DISP_MAX_LEN
    BY <1>1, <1>2, <1>3
  <2>2. n * b + k < 2^c.width => d.index < Top(c)
    BY <1>1, <1>2, <2>1, DigitPushed DEF full
  <2> QED BY <2>2
<1>7. CASE d.index < limit
  <2>1. /\ e \in Display1 /\ disp_stack_pop(e) = d
        /\ ~e.error /\ ~e.exp_entry /\ Terminated(e)
        /\ DisplayNumber(e, c) = longer
        /\ Magnitude(e, 0, e.index, b) = longer
        /\ d.index < Top(c) => IntShown(e, longer, c)
    <3>1. e = disp_stack_push(d, Digit[k + 1], limit)
      BY DEF limit
    <3>2. DigitOn(e, d, n, k, c)
      BY <1>2, <1>3, <1>7, <3>1, DigitPushed
    <3>3. /\ e.error = d.error /\ e.exp_entry = d.exp_entry
          /\ e \in Display1 /\ disp_stack_pop(e) = d /\ Terminated(e)
      BY <3>2 DEF DigitOn
    <3>4. ~e.error /\ ~e.exp_entry
      BY <1>2, <3>3
    <3>5. /\ DisplayNumber(e, c) = longer
          /\ Magnitude(e, 0, e.index, b) = longer
          /\ d.index < Top(c) => IntShown(e, longer, c)
      BY <3>2 DEF DigitOn
    <3> HIDE DEF b
    <3> QED BY <3>3, <3>4, <3>5
  <2>2. ASSUME InRange(longer, c) PROVE IntStored(update_display(e, c), longer, c)
    BY <1>5, <1>6, <2>1, <2>2, UpdateStored
  <2>3. ASSUME ~InRange(longer, c) PROVE c.format = "dec"
    <3> SUFFICES ASSUME c.format # "dec" PROVE FALSE
      OBVIOUS
    <3>1. c.format = "hex" /\ limit = Top(c)
      BY <1>3, SettingsFacts
    <3>2. IntShown(e, longer, c)
      BY <1>7, <2>1, <3>1
    <3>3. longer < 2^c.width
      <4>1. longer < b^Top(c)
        BY <2>1, <3>2, IntText
      <4> QED BY <3>1, <4>1, WordFacts DEF IsTop
    <3>4. ~SignedDec(c)
      BY <3>1 DEF SignedDec
    <3> QED BY <1>4, <2>3, <3>3, <3>4 DEF InRange
  <2>4. ASSUME ~InRange(longer, c) PROVE update_display(e, c) = d
    <3>1. DisplayNumber(d, c) = n
      BY <1>2, IntRead
    <3>2. update_display(e, c) = [d EXCEPT !.ival = DisplayNumber(d, c) % 2^c.width]
      BY <1>2, <2>1, <2>3, <2>4, <3>1 DEF update_display
    <3>3. update_display(d, c) = [d EXCEPT !.ival = DisplayNumber(d, c) % 2^c.width]
      BY <1>2, <3>1 DEF update_display
    <3>4. update_display(d, c) = d
      BY UpdateAgain
    <3> QED BY <3>2, <3>3, <3>4
  <2>5. ASSUME IntMinTyped(e, c) PROVE SignedDec(c) /\ longer = 2^(c.width - 1)
    <3>1. SignedDec(c) /\ is_equivalent_of_int_min(e, c)
      BY <2>5 DEF IntMinTyped
    <3>2. c.format = "dec"
      BY <3>1 DEF SignedDec
    <3>3. Magnitude(e, 0, e.index, b) = 2^(c.width - 1)
      BY <2>1, <3>1, <3>2, LeastIntegerText
    <3> QED BY <2>1, <3>1, <3>3
  <2>6. ASSUME SignedDec(c), longer = 2^(c.width - 1) PROVE IntMinTyped(e, c)
    <3>1. longer < 2^c.width
      <4> DEFINE h == 2^(c.width - 1)
                 w == 2^c.width
      <4>1. h \in Nat /\ w = 2 * h /\ 10 <= h /\ longer = h
        BY <1>1, <2>6
      <4> HIDE DEF h, w
      <4>2. longer < w
        BY <4>1
      <4> QED BY <4>2 DEF w
    <3>2. IntShown(e, longer, c)
      BY <1>6, <2>1, <3>1
    <3>3. Text(e) = Printed(longer, 10)
      <4>1. Text(e) = Printed(longer, b)
        BY <2>1, <3>2, IntText
      <4> QED BY <1>1, <2>6, <4>1 DEF SignedDec
    <3>4. ~InRange(longer, c)
      BY <1>5, <2>6
    <3> QED BY <2>1, <2>6, <3>3, <3>4 DEF IntMinTyped, is_equivalent_of_int_min
  <2> QED BY <2>2, <2>4, <2>5, <2>6
<1>8. CASE ~(d.index < limit)
  <2>1. e = d
    BY <1>8 DEF disp_stack_push, limit
  <2>2. d.index = Top(c) /\ limit = Top(c)
    BY <1>1, <1>2, <1>3, <1>8
  <2>3. ~(longer < 2^c.width)
    BY <1>2, <1>6, <2>2
  <2>4. ~InRange(longer, c)
    BY <1>5, <2>3
  <2>5. update_display(e, c) = d
    BY <2>1, UpdateAgain
  <2>6. ~IntMinTyped(e, c)
    BY <1>2, <2>1, IntRead DEF IntMinTyped
  <2>7. longer # 2^(c.width - 1)
    <3> DEFINE h == 2^(c.width - 1)
               w == 2^c.width
    <3>1. h \in Nat /\ w = 2 * h /\ 10 <= h /\ ~(longer < w)
      BY <1>1, <2>3
    <3> HIDE DEF h, w
    <3>2. longer # h
      BY <1>4, <3>1
    <3> QED BY <3>2 DEF h
  <2> QED BY <2>4, <2>5, <2>6, <2>7
<1> QED BY <1>7, <1>8

\* The number on the display after a digit key.
Added(n, k, c) == IF InRange(n * Base(c) + k, c) THEN n * Base(c) + k ELSE n

\* display_add takes a digit exactly when the longer number is in range, and reports the
\* magnitude of the least integer.
LEMMA AddInt ==
  ASSUME NEW c \in Configs, c.mode = "int", NEW d, NEW n \in Nat, IntStored(d, n, c),
         NEW k \in 0..15, k < Base(c)
  PROVE  /\ IntStored(display_add(d, Digit[k + 1], c), Added(n, k, c), c)
         /\ Added(n, k, c) \in Nat
         /\ display_add_returns(d, Digit[k + 1], c)
              <=> SignedDec(c) /\ n * Base(c) + k = 2^(c.width - 1)
<1> DEFINE ch == Digit[k + 1]
           longer == n * Base(c) + k
           e == Pushed(d, ch, c)
<1>1. Base(c) \in Bases /\ ch \in Range(Digit) /\ DigitValue[ch] = k /\ ch # "."
  BY SettingsFacts, DigitValues, Signs
<1>2. d \in Display1 /\ ~d.exp_entry /\ IntShown(d, n, c) /\ InRange(n, c)
  BY DEF IntStored
<1>3. LoneZero(d) <=> n = 0
  BY <1>2, NatOnDisplay
<1>4. ch = "0" <=> k = 0
  <2>1. DigitValue[Digit[0 + 1]] = 0 /\ Digit[0 + 1] = "0"
    BY DigitValues, Signs
  <2> QED BY <1>1, <2>1
<1>5. Refused(d, ch, c) <=> n = 0 /\ k = 0
  BY <1>3, <1>4 DEF Refused
<1>6. longer \in Nat
  BY <1>1 DEF Bases
<1>7. CASE n = 0 /\ k = 0
  <2>1. longer = 0
    BY <1>1, <1>7 DEF Bases
  <2>2. display_add(d, ch, c) = d /\ ~display_add_returns(d, ch, c)
    BY <1>2, <1>5, <1>7 DEF display_add, display_add_returns
  <2>3. longer # 2^(c.width - 1)
    BY <1>7, <2>1, SmallInRange
  <2>4. Added(n, k, c) = 0
    BY <1>7, <2>1 DEF Added
  <2> QED BY <1>7, <2>2, <2>3, <2>4
<1>8. CASE ~(n = 0 /\ k = 0)
  <2>1. display_add(d, ch, c) = update_display(e, c) /\ (display_add_returns(d, ch, c) <=> IntMinTyped(e, c))
    <3>1. ~Refused(d, ch, c) /\ ~d.exp_entry
      BY <1>2, <1>5, <1>8
    <3>2. display_add(d, ch, c) = update_display(Pushed(d, ch, c), c)
      BY <3>1 DEF display_add
    <3>3. display_add_returns(d, ch, c) <=> IntMinTyped(Pushed(d, ch, c), c)
      BY <3>1 DEF display_add_returns
    <3> QED BY <3>2, <3>3
  <2>2. CASE n = 0
    <3>1. longer = k /\ k \in 1..15
      BY <1>1, <1>8, <2>2 DEF Bases
    <3>2. IntStored(d, 0, c)
      BY <2>2
    <3> HIDE DEF e
    <3>3. IntStored(update_display(e, c), k, c) /\ ~IntMinTyped(e, c)
      BY <3>1, <3>2, ZeroReplaced DEF e
    <3>4. InRange(k, c) /\ k # 2^(c.width - 1)
      BY SmallInRange
    <3>5. Added(n, k, c) = k
      BY <3>1, <3>4 DEF Added
    <3> QED BY <2>1, <3>1, <3>3, <3>4, <3>5
  <2>3. CASE n # 0
    <3>1. e = disp_stack_push(d, ch, CharLimit(d, c))
      BY <1>3, <2>3 DEF Pushed
    <3>2. n \in Nat \ {0}
      BY <2>3
    <3> HIDE DEF e
    <3>3. /\ InRange(longer, c) => IntStored(update_display(e, c), longer, c)
          /\ ~InRange(longer, c) => update_display(e, c) = d
          /\ IntMinTyped(e, c) <=> SignedDec(c) /\ longer = 2^(c.width - 1)
      BY <3>1, <3>2, DigitBehind
    <3>4. CASE InRange(longer, c)
      BY <1>6, <2>1, <3>3, <3>4 DEF Added
    <3>5. CASE ~InRange(longer, c)
      <4>1. Added(n, k, c) = n
        BY <3>5 DEF Added
      <4> QED BY <2>1, <3>3, <3>5, <4>1
    <3> QED BY <3>4, <3>5
  <2> QED BY <2>2, <2>3
<1> QED BY <1>7, <1>8

\* Zero on the display, whatever was there.
LEMMA ZeroShown ==
  ASSUME NEW c \in Configs, NEW e, Terminated(e), e.index = 1, e.stack[0] = "0"
  PROVE  IntShown(e, 0, c)
<1>1. 0 < Base(c) /\ 0 \in 0..15 /\ e.stack[0] = Digit[0 + 1]
  BY SettingsFacts, Signs DEF Bases
<1> QED BY <1>1, OneDigit

\* All digits but the last.
LEMMA DigitPopped ==
  ASSUME NEW c \in Configs, NEW d \in Display1, NEW n \in Nat, IntShown(d, n, c), d.index # 1,
         NEW e, e = disp_stack_pop(d)
  PROVE  /\ e \in Display1 /\ IntShown(e, n \div Base(c), c) /\ n \div Base(c) \in Nat
         /\ n \div Base(c) <= n
         /\ e.error = d.error /\ e.exp_entry = d.exp_entry
         /\ e.stack[0] \in Range(Digit)
<1> DEFINE b == Base(c)
           q == n \div b
<1>1. /\ DISP_MAX_LEN \in Nat /\ DISP_STACK_SIZE = DISP_MAX_LEN + 1 /\ b \in Bases
      /\ Top(c) \in Nat
  BY SettingsFacts, WordFacts DEF Tops
<1>2. /\ NatShown(d, 0, n, c) /\ Clean(d) /\ d.index \in Nat \ {0} /\ d.stack[0] \in Range(Digit)
  BY NatOnDisplay
<1> DEFINE m == d.index - 1
<1>3. m \in Nat \ {0} /\ d.index = m + 1
  BY <1>2
<1>4. e \in Display1 /\ Clean(e) /\ e.index = m /\ SameBelow(e, d, m)
  BY <1>1, <1>2, PopFacts
<1>5. PICK f : Counts(f, d.stack, 0, d.index, b) /\ Magnitude(d, 0, d.index, b) = f[d.index]
  BY <1>2, MagnitudeCounts
<1> HIDE DEF m, b
<1>6. /\ DigitsIn(d.stack, 0, d.index, b) /\ d.index - 0 <= Top(c) /\ f[d.index] = n
      /\ DigitValue[d.stack[0]] # 0
  <2>1. DigitsIn(d.stack, 0, d.index, b) /\ d.index - 0 <= Top(c) /\ f[d.index] = n
        /\ (DigitValue[d.stack[0]] = 0 => d.index = 0 + 1)
    BY <1>5, <1>2 DEF NatShown, Canonical, b
  <2> QED BY <2>1
<1>7. f[m] \in Nat /\ f[m + 1] = f[m] * b + DigitValue[d.stack[m]]
      /\ DigitValue[d.stack[m]] \in Nat /\ DigitValue[d.stack[m]] < b
  <2>1. m \in 0..(d.index - 1) /\ m \in 0..d.index
    BY <1>3
  <2>2. d.stack[m] \in Range(Digit) /\ DigitValue[d.stack[m]] < b
    BY <1>6, <2>1 DEF DigitsIn
  <2>3. \A i \in 0..d.index : f[i] \in Nat
    BY <1>1, <1>2, <1>5, <1>6, CountsNat
  <2> QED BY <1>5, <2>1, <2>2, <2>3, DigitValues DEF Counts
<1>8. q = f[m] /\ q \in Nat /\ q <= n
  <2>1. n = f[m] * b + DigitValue[d.stack[m]] /\ b \in Nat \ {0}
    BY <1>1, <1>3, <1>6, <1>7 DEF Bases
  <2>2. q = f[m]
    BY <1>7, <2>1, QuotientIs DEF b
  <2> HIDE DEF q
  <2>3. q * b + DigitValue[d.stack[m]] = n
    BY <2>1, <2>2
  <2>4. q <= n
    <3>1. q \in Nat /\ DigitValue[d.stack[m]] \in Nat
      BY <1>7, <2>2
    <3>2. q <= q * b
      BY <1>1, <3>1 DEF Bases
    <3> QED BY <1>1, <2>3, <3>1, <3>2 DEF Bases
  <2> QED BY <1>7, <2>2, <2>4
<1>9. Magnitude(e, 0, m, b) = q
  <2>1. Counts(f, e.stack, 0, m, b)
    <3>1. \A i \in 0..(m - 1) : i \in 0..(d.index - 1)
      BY <1>3
    <3> QED BY <1>4, <1>5, <3>1 DEF Counts, SameBelow
  <2> QED BY <1>3, <1>8, <2>1, MagnitudeIs
<1>10. Canonical(e.stack, 0, m, b, Top(c)) /\ e.stack[0] = d.stack[0]
  <2>1. ASSUME NEW i \in 0..(m - 1) PROVE i \in 0..(d.index - 1) /\ e.stack[i] = d.stack[i]
    BY <1>3, <1>4 DEF SameBelow
  <2>2. DigitsIn(e.stack, 0, m, b)
    BY <1>6, <2>1 DEF DigitsIn
  <2>3. e.stack[0] = d.stack[0]
    <3>1. 0 \in 0..(m - 1)
      BY <1>3
    <3> QED BY <2>1, <3>1
  <2>4. 0 < m /\ m - 0 <= Top(c)
    BY <1>1, <1>3, <1>6
  <2> QED BY <1>6, <2>2, <2>3, <2>4 DEF Canonical
<1>11. Terminated(e)
  <2>1. e.index # 0
    BY <1>3, <1>4
  <2> QED BY <1>1, <1>4, <2>1, CleanTerminated
<1>12. IntShown(e, q, c)
  BY <1>4, <1>8, <1>9, <1>10, <1>11 DEF IntShown, NatShown, b
<1> QED BY <1>2, <1>4, <1>8, <1>10, <1>12 DEF SameBelow, b

\* display_remove divides the number by the base.
LEMMA RemoveInt ==
  ASSUME NEW c \in Configs, c.mode = "int", NEW d, NEW n \in Nat, IntStored(d, n, c)
  PROVE  IntStored(display_remove(d, c), n \div Base(c), c) /\ n \div Base(c) \in Nat
<1>1. d \in Display1 /\ ~d.error /\ ~d.exp_entry /\ IntShown(d, n, c) /\ InRange(n, c)
  BY DEF IntStored
<1>2. NatShown(d, 0, n, c) /\ d.index \in Nat \ {0} /\ Terminated(d)
  BY <1>1, NatOnDisplay DEF IntShown
<1>b. Base(c) \in Nat \ {0} /\ Base(c) \in Bases
  BY SettingsFacts DEF Bases
<1>3. CASE d.index = 1
  <2> DEFINE e == [d EXCEPT !.stack[0] = "0"]
  <2>1. display_remove(d, c) = update_display(e, c)
    BY <1>1, <1>3 DEF display_remove
  <2>2. n \div Base(c) = 0
    <3>1. n < Base(c)
      <4>1. n < Base(c)^(d.index - 0)
        BY <1>1, <1>2, NatShownFacts
      <4>2. 1 \in 1..Top(c) /\ PowersOf(Base(c), Top(c)) /\ Top(c) \in Tops
        BY WordFacts DEF IsTop, Tops
      <4>3. Base(c)^1 = Base(c) * Base(c)^(1 - 1) /\ Base(c)^0 = 1
        BY <4>2 DEF PowersOf
      <4>4. Base(c)^1 = Base(c)
        BY <1>b, <4>3
      <4>5. d.index - 0 = 1
        BY <1>3
      <4> QED BY <4>1, <4>4, <4>5
    <3>2. n = 0 * Base(c) + n
      BY <1>b
    <3> QED BY <1>b, <3>1, <3>2, QuotientIs
  <2>3. /\ e \in Display1 /\ e.index = 1 /\ e.stack[0] = "0" /\ ~e.error /\ ~e.exp_entry
        /\ \A i \in Slot : i # 0 => e.stack[i] = d.stack[i]
    <3>1. 0 \in Slot /\ "0" \in Chars
      BY SettingsFacts, Signs, DigitValues DEF Slot, Chars
    <3> QED BY <1>1, <1>3, <3>1 DEF Display1
  <2> HIDE DEF e
  <2>4. Terminated(e)
    <3>1. \A i \in Slot : e.stack[i] = NUL <=> i >= 1
      <4> SUFFICES ASSUME NEW i \in Slot PROVE e.stack[i] = NUL <=> i >= 1
        OBVIOUS
      <4>1. i \in Nat
        BY DEF Slot
      <4>2. CASE i = 0
        BY <2>3, <4>2 DEF NUL
      <4>3. CASE i # 0
        BY <1>2, <1>3, <2>3, <4>1, <4>3 DEF Terminated
      <4> QED BY <4>2, <4>3
    <3> QED BY <1>2, <1>3, <2>3, <3>1 DEF Terminated
  <2>5. IntShown(e, 0, c)
    BY <2>3, <2>4, ZeroShown
  <2>6. InRange(0, c)
    BY <1>b, SmallInRange
  <2> QED BY <2>1, <2>2, <2>3, <2>5, <2>6, UpdateStored
<1>4. CASE d.index # 1
  <2> DEFINE e == disp_stack_pop(d)
  <2>1. /\ e \in Display1 /\ IntShown(e, n \div Base(c), c) /\ n \div Base(c) \in Nat
        /\ n \div Base(c) <= n
        /\ e.error = d.error /\ e.exp_entry = d.exp_entry
        /\ e.stack[0] \in Range(Digit)
    BY <1>1, <1>4, DigitPopped
  <2>2. display_remove(d, c) = update_display(e, c)
    <3>1. d.index > 1
      BY <1>2, <1>4
    <3>2. e.stack[0] # "-"
      BY <2>1, Signs
    <3>3. d.index # 1 /\ ~d.exp_entry
      BY <1>1, <1>4
    <3> QED BY <3>1, <3>2, <3>3 DEF display_remove
  <2> HIDE DEF e
  <2>3. InRange(n \div Base(c), c)
    BY <1>1, <2>1, SmallerInRange
  <2>4. ~e.error /\ ~e.exp_entry
    BY <1>1, <2>1
  <2> QED BY <2>1, <2>2, <2>3, <2>4, UpdateStored
<1> QED BY <1>3, <1>4

-----------------------------------------------------------------------------
(* The digits of an exponent *)

\* A remainder is known by its size.
LEMMA RemainderIs ==
  ASSUME NEW n \in Nat, NEW p \in Nat \ {0}, NEW q \in Nat, NEW r \in Nat, n = q * p + r, r < p
  PROVE  n % p = r
<1>1. n \div p = q
  BY QuotientIs
<1>2. n = (n \div p) * p + (n % p) /\ n % p \in Nat
  BY DivisionOf
<1>3. n = q * p + (n % p)
  BY <1>1, <1>2
<1> QED BY <1>2, <1>3

\* f numbers all the digits and g all but the first.
CountsBoth(f, g, s, from, first, to, b) ==
  /\ from \in Nat /\ to \in Nat /\ from < to /\ first = from + 1
  /\ Counts(f, s, from, to, b) /\ Counts(g, s, first, to, b)
  /\ DigitsIn(s, from, to, b)

\* The first digit counts for the power of the base behind it.
LEMMA CountsSplit ==
  ASSUME NEW f, NEW g, NEW s, NEW from, NEW first, NEW to, NEW b \in Bases, NEW top \in Nat,
         PowersOf(b, top), CountsBoth(f, g, s, from, first, to, b), to - from = top
  PROVE  f[to] = DigitValue[s[from]] * b^(top - 1) + g[to]
<1>b. /\ from \in Nat /\ to \in Nat /\ from < to /\ first = from + 1 /\ first \in Nat
      /\ Counts(f, s, from, to, b) /\ Counts(g, s, first, to, b)
      /\ DigitsIn(s, from, to, b)
  BY DEF CountsBoth
<1> DEFINE v == DigitValue[s[from]]
           S == {i \in first..to : f[i] = v * b^(i - first) + g[i]}
<1>0. v \in Nat /\ first \in Nat /\ first <= to
  <2>1. from \in from..(to - 1)
    BY <1>b
  <2> QED BY <1>b, <2>1, DigitValues DEF DigitsIn
<1>1. first \in S
  <2>1. from \in from..(to - 1) /\ first - first = 0 /\ first \in first..to
    BY <1>b, <1>0
  <2>2. f[first] = f[from] * b + v /\ f[from] = 0 /\ g[first] = 0 /\ b^0 = 1
    BY <1>b, <2>1 DEF Counts, PowersOf
  <2>3. b^(first - first) = 1
    BY <1>b, <2>1, <2>2
  <2>4. f[first] = v
    BY <1>b, <1>0, <2>2 DEF Bases
  <2> HIDE DEF v
  <2> QED BY <1>b, <1>0, <2>1, <2>2, <2>3, <2>4
<1>2. ASSUME NEW i \in first..(to - 1), i \in S PROVE i + 1 \in S
  <2> DEFINE k == i - first
  <2>1. /\ k + 1 \in 1..top /\ (k + 1) - 1 = k /\ k \in 0..top /\ (i + 1) - first = k + 1
        /\ i \in from..(to - 1) /\ i \in first..(to - 1) /\ i + 1 \in first..to
        /\ i \in first..to
    BY <1>b, <1>0
  <2> HIDE DEF k
  <2>2. b^(k + 1) = b * b^k /\ b^k \in Nat
    BY <1>b, <2>1, PowersPositive
  <2>3. f[i] = v * b^k + g[i]
    BY <1>b, <1>2 DEF k
  <2>4. /\ f[i + 1] = f[i] * b + DigitValue[s[i]] /\ g[i + 1] = g[i] * b + DigitValue[s[i]]
        /\ DigitValue[s[i]] \in Nat
    BY <1>b, <2>1, DigitValues DEF DigitsIn, Counts
  <2>5. g[i] \in Nat
    <3>1. DigitsIn(s, first, to, b)
      <4>1. \A j \in first..(to - 1) : j \in from..(to - 1)
        BY <1>b, <1>0
      <4> QED BY <1>b, <4>1 DEF DigitsIn
    <3> QED BY <1>b, <1>0, <2>1, <3>1, CountsNat
  <2>6. f[i + 1] = v * b^(k + 1) + g[i + 1]
    <3> DEFINE x == b^k
               y == DigitValue[s[i]]
               gi == g[i]
    <3>1. x \in Nat /\ y \in Nat /\ gi \in Nat /\ b \in Nat /\ b^(k + 1) = b * x
          /\ f[i + 1] = (v * x + gi) * b + y /\ g[i + 1] = gi * b + y
      BY <1>b, <2>2, <2>3, <2>4, <2>5 DEF Bases
    <3> HIDE DEF x, y, v, gi
    <3>2. (v * x + gi) * b + y = v * (b * x) + (gi * b + y)
      BY <1>b, <1>0, <3>1, SMT
    <3> QED BY <1>b, <3>1, <3>2
  <2> QED BY <1>b, <2>1, <2>6
<1> HIDE DEF S
<1>3. \A i \in first..to : i \in S
  <2> QED BY <1>b, <1>0, <1>1, <1>2, Along
<1>4. to \in first..to /\ to - first = top - 1
  BY <1>b
<1> QED BY <1>3, <1>4 DEF S

\* A digit pushed in from the right: the first one is lost (add_exponent).
ShiftedLeft(s, t, from, to, ch) ==
  /\ \A i \in from..(to - 2) : t[i] = s[i + 1]
  /\ t[to - 1] = ch

\* The number M with the digit k behind it, cut to size digits.
LastDigits(M, k, b, size) == (M * b + k) % (b^size)

\* The digits of e are those of d after the digit k was typed.
TypedLeft(d, e, from, to, b, size, k) ==
  /\ from \in Nat /\ to \in Nat /\ b \in Bases /\ size \in Nat \ {0} /\ PowersOf(b, size)
  /\ to - from = size /\ DigitsIn(d.stack, from, to, b)
  /\ k \in 0..15 /\ k < b /\ ShiftedLeft(d.stack, e.stack, from, to, Digit[k + 1])

\* Digits moved to the left, with a new last one: the number modulo the power for its
\* slots.
LEMMA LeftNumber ==
  ASSUME NEW d, NEW e, NEW from, NEW to, NEW b, NEW size, NEW k,
         TypedLeft(d, e, from, to, b, size, k)
  PROVE  /\ DigitsIn(e.stack, from, to, b)
         /\ Magnitude(e, from, to, b) = LastDigits(Magnitude(d, from, to, b), k, b, size)
<1> /\ from \in Nat /\ to \in Nat /\ b \in Bases /\ size \in Nat \ {0} /\ PowersOf(b, size)
    /\ to - from = size /\ DigitsIn(d.stack, from, to, b)
    /\ k \in 0..15 /\ k < b /\ ShiftedLeft(d.stack, e.stack, from, to, Digit[k + 1])
  BY DEF TypedLeft
<1> DEFINE m == to - 1
           first == from + 1
           ch == Digit[k + 1]
<1>0. /\ m \in Nat /\ first \in Nat /\ from <= m /\ first <= to /\ m + 1 = to /\ from < to
      /\ to = first + (m - from) /\ from <= to /\ to - first = size - 1
  OBVIOUS
<1>c. ch \in Range(Digit) /\ DigitValue[ch] = k
  BY DigitValues
<1>s. e.stack[m] = ch /\ \A i \in from..(m - 1) : e.stack[i] = d.stack[i + 1]
  <2>1. m - 1 = to - 2
    OBVIOUS
  <2> QED BY <2>1 DEF ShiftedLeft
<1> HIDE DEF m, first, ch
<1>1. PICK f : Counts(f, d.stack, from, to, b) /\ Magnitude(d, from, to, b) = f[to]
  BY <1>0, MagnitudeCounts
<1>2. PICK g : Counts(g, d.stack, first, to, b)
  BY <1>0, MagnitudeCounts
<1>3. PICK h : Counts(h, e.stack, from, to, b) /\ Magnitude(e, from, to, b) = h[to]
  BY <1>0, MagnitudeCounts
<1>4. h[m] = g[to]
  <2>1. Counts(h, e.stack, from, m, b)
    <3>1. \A i \in from..(m - 1) : i \in from..(to - 1)
      BY <1>0
    <3> QED BY <1>3, <3>1 DEF Counts
  <2>2. SameDigits(e.stack, from, m, d.stack, first)
    <3> SUFFICES ASSUME NEW i \in from..(m - 1) PROVE e.stack[i] = d.stack[first + (i - from)]
      BY DEF SameDigits
    <3>1. first + (i - from) = i + 1
      BY DEF first
    <3> QED BY <3>1, <1>s
  <2>3. SameCounts(h, from, m, g, first)
    BY <1>0, <1>2, <2>1, <2>2, CountsSame
  <2>4. m \in from..m
    BY <1>0
  <2> QED BY <1>0, <2>3, <2>4 DEF SameCounts
<1>5. h[to] = h[m] * b + k
  <2>1. m \in from..(to - 1)
    BY <1>0
  <2> QED BY <1>0, <1>3, <1>c, <1>s, <2>1 DEF Counts
<1>6. DigitsIn(d.stack, first, to, b)
  <2>1. \A j \in first..(to - 1) : j \in from..(to - 1)
    BY DEF first
  <2> QED BY <2>1 DEF DigitsIn
<1>7. g[to] \in Nat /\ g[to] < b^(size - 1)
  <2>1. to \in first..to /\ to - first <= size
    BY <1>0
  <2> QED BY <1>0, <1>2, <1>6, <2>1, CountsNat, CountsBelow
<1>8. b^size = b * b^(size - 1) /\ b^(size - 1) \in Nat \ {0} /\ b^size \in Nat \ {0}
  <2>1. size \in 1..size /\ size - 1 \in 0..size /\ size \in 0..size
    OBVIOUS
  <2> QED BY <2>1, PowersPositive
<1>9. f[to] = DigitValue[d.stack[from]] * b^(size - 1) + g[to] /\ DigitValue[d.stack[from]] \in Nat
  <2>1. f[to] = DigitValue[d.stack[from]] * b^(size - 1) + g[to]
    <3>1. CountsBoth(f, g, d.stack, from, first, to, b)
      BY <1>0, <1>1, <1>2 DEF CountsBoth, first
    <3>2. size \in Nat
      OBVIOUS
    <3> QED BY <3>1, <3>2, CountsSplit
  <2>2. from \in from..(to - 1)
    BY <1>0
  <2> QED BY <2>1, <2>2, DigitValues DEF DigitsIn
<1> DEFINE p == b^(size - 1)
           pp == b^size
           v == DigitValue[d.stack[from]]
           r == g[to]
           n == f[to]
<1>10. /\ p \in Nat \ {0} /\ pp = b * p /\ pp \in Nat \ {0} /\ v \in Nat /\ r \in Nat /\ r < p
       /\ n = v * p + r /\ b \in Nat \ {0} /\ k \in Nat
  BY <1>7, <1>8, <1>9 DEF Bases
<1>11. Magnitude(e, from, to, b) = r * b + k /\ Magnitude(d, from, to, b) = n
  BY <1>1, <1>3, <1>4, <1>5
<1> HIDE DEF p, pp, v, r, n
<1>12. r * b + k < pp /\ r * b + k \in Nat
  <2>1. (r + 1) * b <= p * b
    BY <1>10 DEF Bases
  <2>2. (r + 1) * b = r * b + b
    BY <1>10
  <2>3. p * b = pp
    BY <1>10
  <2> QED BY <1>10, <2>1, <2>2, <2>3
<1>13. n * b + k = v * pp + (r * b + k) /\ n * b + k \in Nat
  BY <1>10, SMT
<1>14. (n * b + k) % pp = r * b + k
  BY <1>10, <1>12, <1>13, RemainderIs, ZenonT(60)
<1>15. DigitsIn(e.stack, from, to, b)
  <2> SUFFICES ASSUME NEW i \in from..(to - 1)
               PROVE  e.stack[i] \in Range(Digit) /\ DigitValue[e.stack[i]] < b
    BY DEF DigitsIn
  <2>1. CASE i = m
    BY <1>c, <1>s, <2>1
  <2>2. CASE i # m
    <3>1. i \in from..(m - 1) /\ i + 1 \in from..(to - 1)
      BY <1>0, <2>2
    <3> QED BY <1>s, <3>1 DEF DigitsIn
  <2> QED BY <2>1, <2>2
<1>16. LastDigits(n, k, b, size) = r * b + k
  BY <1>14 DEF LastDigits, pp
<1> QED BY <1>11, <1>15, <1>16

\* The last digit pushed out to the right (remove_exponent).
ShiftedRight(s, t, from, to) ==
  /\ t[from] = "0"
  /\ \A i \in (from + 1)..(to - 1) : t[i] = s[i - 1]

\* Digits moved to the right, the last one dropped: the number divided by the base.
LEMMA RightNumber ==
  ASSUME NEW d, NEW e, NEW from \in Nat, NEW to \in Nat, from < to, NEW b \in Bases,
         DigitsIn(d.stack, from, to, b), ShiftedRight(d.stack, e.stack, from, to)
  PROVE  /\ DigitsIn(e.stack, from, to, b)
         /\ Magnitude(e, from, to, b) = Magnitude(d, from, to, b) \div b
<1> DEFINE m == to - 1
           first == from + 1
<1>0. /\ m \in Nat /\ first \in Nat /\ from <= m /\ first <= to /\ m + 1 = to
      /\ to = first + (m - from) /\ from <= to
  OBVIOUS
<1>c. "0" \in Range(Digit) /\ DigitValue["0"] = 0
  <2>1. Digit[0 + 1] \in Range(Digit) /\ DigitValue[Digit[0 + 1]] = 0 /\ Digit[0 + 1] = "0"
    BY DigitValues, Signs
  <2> QED BY <2>1
<1>s. e.stack[from] = "0" /\ \A i \in first..m : e.stack[i] = d.stack[i - 1]
  BY DEF ShiftedRight
<1> HIDE DEF m, first
<1>1. PICK f : Counts(f, d.stack, from, to, b) /\ Magnitude(d, from, to, b) = f[to]
  BY <1>0, MagnitudeCounts
<1>2. PICK h : Counts(h, e.stack, from, to, b) /\ Magnitude(e, from, to, b) = h[to]
  BY <1>0, MagnitudeCounts
<1>3. Counts(h, e.stack, first, to, b)
  <2>1. from \in from..(to - 1) /\ \A i \in first..(to - 1) : i \in from..(to - 1)
    BY <1>0 DEF first
  <2>2. h[from + 1] = 0 * b + DigitValue["0"]
    BY <1>2, <1>s, <2>1 DEF Counts
  <2>3. h[first] = 0
    BY <1>c, <2>2 DEF first, Bases
  <2> QED BY <1>2, <2>1, <2>3 DEF Counts
<1>4. f[m] = h[to]
  <2>1. Counts(f, d.stack, from, m, b)
    <3>1. \A i \in from..(m - 1) : i \in from..(to - 1)
      BY <1>0
    <3> QED BY <1>1, <3>1 DEF Counts
  <2>2. SameDigits(d.stack, from, m, e.stack, first)
    <3> SUFFICES ASSUME NEW i \in from..(m - 1) PROVE d.stack[i] = e.stack[first + (i - from)]
      BY DEF SameDigits
    <3>1. first + (i - from) = i + 1 /\ i + 1 \in first..m /\ (i + 1) - 1 = i
      BY <1>0 DEF first
    <3>2. e.stack[i + 1] = d.stack[(i + 1) - 1]
      BY <3>1, <1>s
    <3> QED BY <3>1, <3>2
  <2>3. SameCounts(f, from, m, h, first)
    BY <1>0, <1>3, <2>1, <2>2, CountsSame
  <2>4. m \in from..m
    BY <1>0
  <2> QED BY <1>0, <2>3, <2>4 DEF SameCounts
<1>5. f[m] \in Nat /\ f[to] = f[m] * b + DigitValue[d.stack[m]]
      /\ DigitValue[d.stack[m]] \in Nat /\ DigitValue[d.stack[m]] < b /\ f[to] \in Nat
  <2>1. m \in from..(to - 1) /\ m \in from..to /\ to \in from..to
    BY <1>0
  <2>2. \A i \in from..to : f[i] \in Nat
    BY <1>1, CountsNat
  <2>3. DigitValue[d.stack[m]] \in Nat /\ DigitValue[d.stack[m]] < b
    BY <2>1, DigitValues DEF DigitsIn
  <2>4. f[m + 1] = f[m] * b + DigitValue[d.stack[m]]
    BY <1>1, <2>1 DEF Counts
  <2> QED BY <1>0, <2>1, <2>2, <2>3, <2>4
<1>6. f[to] \div b = f[m]
  <2>1. b \in Nat \ {0}
    BY DEF Bases
  <2> QED BY <1>5, <2>1, QuotientIs
<1>7. DigitsIn(e.stack, from, to, b)
  <2> SUFFICES ASSUME NEW i \in from..(to - 1)
               PROVE  e.stack[i] \in Range(Digit) /\ DigitValue[e.stack[i]] < b
    BY DEF DigitsIn
  <2>1. CASE i = from
    BY <1>c, <1>s, <2>1 DEF Bases
  <2>2. CASE i # from
    <3>1. i \in first..m /\ i - 1 \in from..(to - 1)
      BY <1>0, <2>2 DEF first
    <3> QED BY <1>s, <3>1 DEF DigitsIn
  <2> QED BY <2>1, <2>2
<1> QED BY <1>1, <1>2, <1>4, <1>6, <1>7

-----------------------------------------------------------------------------
(* Floating point numbers on the display *)

Decimals == [neg : BOOLEAN, int : Seq(0..9), point : BOOLEAN, frac : Seq(0..9),
             exp : [on : BOOLEAN, neg : BOOLEAN, n : Nat]]
NoExponent == [on |-> FALSE, neg |-> FALSE, n |-> 0]

\* The slots of the parts of m.
From(m)    == IF m.neg THEN 1 ELSE 0
PointAt(m) == From(m) + Len(m.int)
EndOf(m)   == PointAt(m) + (IF m.point THEN 1 + Len(m.frac) ELSE 0)

\* Significant digits: the 0 of "0." does not count.
Count(m) == Len(m.frac) + (IF m.point /\ m.int = <<0>> THEN 0 ELSE Len(m.int))

Readable(m, c) ==
  /\ m \in Decimals
  /\ m.int # <<>>
  /\ m.int[1] = 0 => Len(m.int) = 1
  /\ ~m.point => m.frac = <<>>
  /\ Count(m) <= c.digits
  /\ ~m.exp.on => m.exp = NoExponent

FiguresIn(s, start, q) == \A i \in 1..Len(q) : s[start + (i - 1)] = Digit[q[i] + 1]

MantissaShown(s, m) ==
  /\ m.neg => s[0] = "-"
  /\ FiguresIn(s, From(m), m.int)
  /\ m.point => s[PointAt(m)] = "." /\ FiguresIn(s, PointAt(m) + 1, m.frac)

ExponentShown(d, end, exp) ==
  /\ d.stack[end] = "e"
  /\ d.stack[end + 1] = IF exp.neg THEN "-" ELSE "+"
  /\ DigitsIn(d.stack, end + 2, d.index, 10)
  /\ Magnitude(d, end + 2, d.index, 10) = exp.n

FloatShown(d, m, c) ==
  /\ d \in Display1 /\ ~d.error /\ Terminated(d)
  /\ Readable(m, c)
  /\ d.exp_entry = m.exp.on
  /\ d.index = EndOf(m) + (IF m.exp.on THEN 2 + EXP_DIGITS ELSE 0)
  /\ MantissaShown(d.stack, m)
  /\ m.exp.on => ExponentShown(d, EndOf(m), m.exp)

\* The parts of a readable number lie one behind the other and leave room for an exponent.
LEMMA DecimalFacts ==
  ASSUME NEW c \in Configs, NEW m, Readable(m, c)
  PROVE  /\ From(m) \in Nat /\ From(m) <= 1
         /\ Len(m.int) \in Nat \ {0} /\ Len(m.frac) \in Nat
         /\ PointAt(m) \in Nat \ {0} /\ From(m) < PointAt(m)
         /\ EndOf(m) \in Nat \ {0} /\ PointAt(m) <= EndOf(m)
         /\ Count(m) \in Nat /\ Count(m) <= c.digits /\ c.digits \in Nat \ {0}
         /\ EndOf(m) <= c.digits + 2 + From(m)
         /\ EndOf(m) + 2 + EXP_DIGITS <= DISP_MAX_LEN
         /\ EXP_DIGITS \in Nat \ {0} /\ DISP_MAX_LEN \in Nat /\ DISP_STACK_SIZE = DISP_MAX_LEN + 1
<1>1. c.digits + 3 + (2 + EXP_DIGITS) <= DISP_MAX_LEN /\ EXP_DIGITS \in Nat \ {0} /\ c.digits \in Nat \ {0}
      /\ DISP_MAX_LEN \in Nat /\ DISP_STACK_SIZE = DISP_MAX_LEN + 1
  BY SettingsFacts, SizesAssumption
<1>2. m.int \in Seq(0..9) /\ m.frac \in Seq(0..9) /\ m.neg \in BOOLEAN /\ m.point \in BOOLEAN /\ m.int # <<>>
  BY DEF Readable, Decimals
<1>3. Len(m.int) \in Nat \ {0} /\ Len(m.frac) \in Nat
  BY <1>2, EmptySeq
<1>4. m.int = <<0>> => Len(m.int) = 1
  OBVIOUS
<1> DEFINE n == Len(m.int)
           k == Len(m.frac)
           f == From(m)
           p == PointAt(m)
           e == EndOf(m)
           z == Count(m)
           g == c.digits
<1>5. f \in Nat /\ f <= 1 /\ p = f + n /\ z <= g
  BY DEF From, PointAt, Readable
<1>6. CASE m.point /\ m.int = <<0>>
  <2>1. n = 1 /\ e = p + (1 + k) /\ z = k + 0
    BY <1>4, <1>6 DEF EndOf, Count
  <2> HIDE DEF n, k, f, p, e, z, g
  <2>2. n \in Nat /\ k \in Nat /\ g \in Nat \ {0}
    BY <1>1, <1>3 DEF n, k, g
  <2>3. /\ p \in Nat \ {0} /\ f < p /\ e \in Nat \ {0} /\ p <= e /\ z \in Nat /\ e <= g + 2 + f
        /\ e <= g + 3
    BY <1>5, <2>1, <2>2
  <2>4. e + 2 + EXP_DIGITS <= DISP_MAX_LEN
    BY <1>1, <2>2, <2>3 DEF g
  <2> QED BY <1>1, <1>3, <1>5, <2>3, <2>4 DEF n, k, f, p, e, z, g
<1>7. CASE m.point /\ m.int # <<0>>
  <2>1. e = p + (1 + k) /\ z = k + n
    BY <1>7 DEF EndOf, Count
  <2> HIDE DEF n, k, f, p, e, z, g
  <2>2. n \in Nat \ {0} /\ k \in Nat /\ g \in Nat \ {0}
    BY <1>1, <1>3 DEF n, k, g
  <2>3. /\ p \in Nat \ {0} /\ f < p /\ e \in Nat \ {0} /\ p <= e /\ z \in Nat /\ e <= g + 2 + f
        /\ e <= g + 3
    BY <1>5, <2>1, <2>2
  <2>4. e + 2 + EXP_DIGITS <= DISP_MAX_LEN
    BY <1>1, <2>2, <2>3 DEF g
  <2> QED BY <1>1, <1>3, <1>5, <2>3, <2>4 DEF n, k, f, p, e, z, g
<1>8. CASE ~m.point
  <2>1. e = p + 0 /\ z = k + n
    BY <1>8 DEF EndOf, Count
  <2> HIDE DEF n, k, f, p, e, z, g
  <2>2. n \in Nat \ {0} /\ k \in Nat /\ g \in Nat \ {0}
    BY <1>1, <1>3 DEF n, k, g
  <2>3. /\ p \in Nat \ {0} /\ f < p /\ e \in Nat \ {0} /\ p <= e /\ z \in Nat /\ e <= g + 2 + f
        /\ e <= g + 3
    BY <1>5, <2>1, <2>2
  <2>4. e + 2 + EXP_DIGITS <= DISP_MAX_LEN
    BY <1>1, <2>2, <2>3 DEF g
  <2> QED BY <1>1, <1>3, <1>5, <2>3, <2>4 DEF n, k, f, p, e, z, g
<1> QED BY <1>2, <1>6, <1>7, <1>8

\* The character in each slot.
LEMMA FigureSlots ==
  ASSUME NEW s, NEW start \in Nat, NEW q \in Seq(0..9), FiguresIn(s, start, q)
  PROVE  \A i \in start..(start + Len(q) - 1) :
           /\ s[i] = Digit[q[(i - start) + 1] + 1] /\ (i - start) + 1 \in 1..Len(q)
           /\ s[i] \in Range(Digit) /\ DigitValue[s[i]] < 10
           /\ DigitValue[s[i]] = q[(i - start) + 1]
<1>1. Len(q) \in Nat
  OBVIOUS
<1> SUFFICES ASSUME NEW i \in start..(start + Len(q) - 1)
             PROVE  /\ s[i] = Digit[q[(i - start) + 1] + 1] /\ (i - start) + 1 \in 1..Len(q)
                    /\ s[i] \in Range(Digit) /\ DigitValue[s[i]] < 10
                    /\ DigitValue[s[i]] = q[(i - start) + 1]
  OBVIOUS
<1> DEFINE j == (i - start) + 1
<1>2. j \in 1..Len(q) /\ start + (j - 1) = i
  BY <1>1
<1> HIDE DEF j
<1>3. q[j] \in 0..9
  BY <1>2
<1>4. s[i] = Digit[q[j] + 1]
  BY <1>2 DEF FiguresIn
<1>5. q[j] \in 0..15 /\ q[j] < 10
  BY <1>3
<1>6. s[i] \in Range(Digit) /\ DigitValue[s[i]] = q[j]
  BY <1>4, <1>5, DigitValues
<1> QED BY <1>2, <1>4, <1>5, <1>6 DEF j

\* What is in the slots of a mantissa.
LEMMA SlotFacts ==
  ASSUME NEW c \in Configs, NEW m, Readable(m, c), NEW s, MantissaShown(s, m)
  PROVE  /\ \A i \in From(m)..(PointAt(m) - 1) :
              s[i] \in Range(Digit) /\ DigitValue[s[i]] = m.int[(i - From(m)) + 1]
         /\ m.point => \A i \in (PointAt(m) + 1)..(EndOf(m) - 1) :
              s[i] \in Range(Digit) /\ DigitValue[s[i]] = m.frac[(i - (PointAt(m) + 1)) + 1]
         /\ m.point <=> PointAt(m) < EndOf(m)
         /\ m.point => s[PointAt(m)] = "."
         /\ m.neg <=> s[0] = "-"
         /\ s[From(m)] \in Range(Digit)
         /\ s[From(m)] = "0" <=> m.int = <<0>>
<1>1. /\ From(m) \in Nat /\ From(m) <= 1 /\ Len(m.int) \in Nat \ {0} /\ Len(m.frac) \in Nat
      /\ PointAt(m) \in Nat \ {0} /\ From(m) < PointAt(m)
  BY DecimalFacts
<1>2. m.int \in Seq(0..9) /\ m.frac \in Seq(0..9) /\ m.neg \in BOOLEAN /\ m.point \in BOOLEAN
  BY DEF Readable, Decimals
<1>3. \A i \in From(m)..(PointAt(m) - 1) :
              s[i] \in Range(Digit) /\ DigitValue[s[i]] = m.int[(i - From(m)) + 1]
  <2>1. FiguresIn(s, From(m), m.int) /\ PointAt(m) = From(m) + Len(m.int)
    BY DEF MantissaShown, PointAt
  <2> QED BY <1>1, <1>2, <2>1, FigureSlots
<1>4. m.point => \A i \in (PointAt(m) + 1)..(EndOf(m) - 1) :
              s[i] \in Range(Digit) /\ DigitValue[s[i]] = m.frac[(i - (PointAt(m) + 1)) + 1]
  <2> SUFFICES ASSUME m.point, NEW i \in (PointAt(m) + 1)..(EndOf(m) - 1)
               PROVE  s[i] \in Range(Digit) /\ DigitValue[s[i]] = m.frac[(i - (PointAt(m) + 1)) + 1]
    OBVIOUS
  <2> DEFINE p == PointAt(m) + 1
  <2>1. FiguresIn(s, p, m.frac) /\ p \in Nat /\ EndOf(m) = p + Len(m.frac)
    BY <1>1 DEF MantissaShown, EndOf
  <2> HIDE DEF p
  <2>2. \A j \in p..(p + Len(m.frac) - 1) :
              s[j] \in Range(Digit) /\ DigitValue[s[j]] = m.frac[(j - p) + 1]
    <3> DEFINE q == m.frac
    <3>1. q \in Seq(0..9) /\ FiguresIn(s, p, q)
      BY <1>2, <2>1
    <3> HIDE DEF q
    <3>2. \A j \in p..(p + Len(q) - 1) :
              s[j] \in Range(Digit) /\ DigitValue[s[j]] = q[(j - p) + 1]
      BY <2>1, <3>1, FigureSlots
    <3> QED BY <3>2 DEF q
  <2>3. i \in p..(p + Len(m.frac) - 1)
    BY <2>1 DEF p
  <2> QED BY <2>2, <2>3 DEF p
<1>5. m.point <=> PointAt(m) < EndOf(m)
  BY <1>1, <1>2 DEF EndOf
<1>6. m.point => s[PointAt(m)] = "."
  BY DEF MantissaShown
<1>7. s[From(m)] \in Range(Digit) /\ DigitValue[s[From(m)]] = m.int[1]
  <2>1. From(m) \in From(m)..(PointAt(m) - 1) /\ (From(m) - From(m)) + 1 = 1
    BY <1>1
  <2>2. DigitValue[s[From(m)]] = m.int[(From(m) - From(m)) + 1] /\ s[From(m)] \in Range(Digit)
    BY <1>3, <2>1
  <2> QED BY <2>1, <2>2
<1>8. m.neg <=> s[0] = "-"
  <2>1. ~m.neg => From(m) = 0
    BY DEF From
  <2> QED BY <1>2, <1>7, <2>1, Signs DEF MantissaShown
<1>9. s[From(m)] = "0" <=> m.int = <<0>>
  <2>1. Digit[0 + 1] = "0" /\ DigitValue[Digit[0 + 1]] = 0
    BY Signs, DigitValues
  <2>2. s[From(m)] = "0" <=> m.int[1] = 0
    BY <1>7, <2>1, DigitValues
  <2>3. m.int[1] = 0 <=> m.int = <<0>>
    <3>1. ASSUME m.int[1] = 0 PROVE m.int = <<0>>
      <4>1. Len(m.int) = 1
        BY <3>1 DEF Readable
      <4> QED BY <1>2, <3>1, <4>1
    <3>2. m.int = <<0>> => m.int[1] = 0
      OBVIOUS
    <3> QED BY <3>1, <3>2
  <2> QED BY <2>2, <2>3
<1> QED BY <1>3, <1>4, <1>5, <1>6, <1>7, <1>8, <1>9

\* The mantissa alone: no exponent is being typed.
LEMMA PointFacts ==
  ASSUME NEW c \in Configs, NEW m, NEW d, FloatShown(d, m, c), ~m.exp.on
  PROVE  HasPoint(d) <=> m.point
<1>1. /\ d \in Display1 /\ Terminated(d) /\ Readable(m, c) /\ MantissaShown(d.stack, m)
      /\ d.index = EndOf(m)
  <2>1. d.index = EndOf(m) + 0
    BY DEF FloatShown
  <2>2. Readable(m, c)
    BY DEF FloatShown
  <2> QED BY <2>1, <2>2, DecimalFacts DEF FloatShown
<1>2. /\ From(m) \in Nat /\ From(m) <= 1 /\ PointAt(m) \in Nat \ {0} /\ From(m) < PointAt(m)
      /\ EndOf(m) \in Nat \ {0} /\ PointAt(m) <= EndOf(m) /\ DISP_MAX_LEN \in Nat
  BY <1>1, DecimalFacts
<1>3. HasPoint(d) <=> \E i \in 1..d.index : d.stack[i - 1] = "."
  <2>1. Text(d) = [i \in 1..d.index |-> d.stack[i - 1]]
    BY <1>1, <1>2, TextOf
  <2> QED BY <2>1 DEF HasPoint, Range
<1>4. /\ \A i \in From(m)..(PointAt(m) - 1) : d.stack[i] \in Range(Digit)
      /\ m.point <=> PointAt(m) < EndOf(m)
      /\ m.point => d.stack[PointAt(m)] = "."
      /\ m.neg <=> d.stack[0] = "-"
  BY <1>1, SlotFacts
<1>5. ASSUME m.point PROVE HasPoint(d)
  <2>1. PointAt(m) + 1 \in 1..d.index /\ (PointAt(m) + 1) - 1 = PointAt(m)
    BY <1>1, <1>2, <1>4, <1>5
  <2>2. d.stack[(PointAt(m) + 1) - 1] = "."
    BY <1>4, <1>5, <2>1
  <2> QED BY <1>3, <2>1, <2>2
<1>6. ASSUME ~m.point, HasPoint(d) PROVE FALSE
  <2>1. PICK i \in 1..d.index : d.stack[i - 1] = "."
    BY <1>3, <1>6
  <2>2. d.index = PointAt(m)
    BY <1>1, <1>2, <1>4, <1>6
  <2>3. CASE i - 1 \in From(m)..(PointAt(m) - 1)
    BY <1>4, <2>1, <2>3, Signs
  <2>4. CASE i - 1 \notin From(m)..(PointAt(m) - 1)
    <3>1. From(m) = 1 /\ i - 1 = 0
      BY <1>2, <2>2, <2>4
    <3>2. m.neg
      BY <3>1 DEF From
    <3> QED BY <1>4, <2>1, <3>1, <3>2
  <2> QED BY <2>3, <2>4
<1> QED BY <1>5, <1>6

\* LoneZero recognises the mantissa 0.
LEMMA LoneZeroFacts ==
  ASSUME NEW c \in Configs, NEW m, NEW d, FloatShown(d, m, c)
  PROVE  LoneZero(d) <=> ~m.exp.on /\ ~m.point /\ m.int = <<0>>
<1>1. /\ d \in Display1 /\ Readable(m, c) /\ MantissaShown(d.stack, m) /\ m.exp.on \in BOOLEAN
  BY DEF FloatShown, Readable, Decimals
<1>2. /\ From(m) \in Nat /\ From(m) <= 1 /\ PointAt(m) \in Nat \ {0} /\ From(m) < PointAt(m)
      /\ EndOf(m) \in Nat \ {0} /\ PointAt(m) <= EndOf(m) /\ EXP_DIGITS \in Nat \ {0}
      /\ Len(m.int) \in Nat \ {0} /\ PointAt(m) = From(m) + Len(m.int)
  BY <1>1, DecimalFacts DEF PointAt
<1>3. /\ m.point <=> PointAt(m) < EndOf(m)
      /\ m.neg <=> d.stack[0] = "-"
      /\ d.stack[From(m)] = "0" <=> m.int = <<0>>
      /\ ~m.neg <=> From(m) = 0
      /\ m.neg <=> From(m) = 1
  <2>1. m.neg \in BOOLEAN
    BY <1>1 DEF Readable, Decimals
  <2> QED BY <1>1, <2>1, SlotFacts DEF From
<1>4. d.index = IF m.exp.on THEN EndOf(m) + (2 + EXP_DIGITS) ELSE EndOf(m)
  BY <1>2 DEF FloatShown
<1>5. m.int = <<0>> => Len(m.int) = 1
  OBVIOUS
<1>6. ASSUME LoneZero(d) PROVE ~m.exp.on /\ ~m.point /\ m.int = <<0>>
  <2>1. (d.index = 1 /\ d.stack[0] = "0") \/ (d.index = 2 /\ d.stack[0] = "-" /\ d.stack[1] = "0")
    BY <1>6 DEF LoneZero
  <2>2. ~m.exp.on
    BY <1>2, <1>4, <2>1
  <2>3. d.index = EndOf(m)
    BY <1>4, <2>2
  <2>4. CASE d.index = 1 /\ d.stack[0] = "0"
    <3>1. From(m) = 0 /\ PointAt(m) = 1
      BY <1>2, <2>3, <2>4
    <3> QED BY <1>2, <1>3, <2>2, <2>3, <2>4, <3>1
  <2>5. CASE d.index = 2 /\ d.stack[0] = "-" /\ d.stack[1] = "0"
    <3>1. From(m) = 1 /\ PointAt(m) = 2
      BY <1>2, <1>3, <2>3, <2>5
    <3> QED BY <1>2, <1>3, <2>2, <2>3, <2>5, <3>1
  <2> QED BY <2>1, <2>4, <2>5
<1>7. ASSUME ~m.exp.on, ~m.point, m.int = << 0 >> PROVE LoneZero(d)
  <2>1. d.index = PointAt(m) /\ PointAt(m) = From(m) + 1 /\ d.stack[From(m)] = "0"
    BY <1>2, <1>3, <1>4, <1>5, <1>7
  <2>2. CASE From(m) = 0
    BY <2>1, <2>2 DEF LoneZero
  <2>3. CASE From(m) = 1
    BY <1>3, <2>1, <2>3 DEF LoneZero
  <2> QED BY <1>2, <2>2, <2>3
<1> QED BY <1>6, <1>7

\* There is room on the display for exactly the digits that count.
LEMMA RoomFacts ==
  ASSUME NEW c \in Configs, c.mode = "float", NEW m, NEW d, FloatShown(d, m, c), ~m.exp.on,
         NEW limit, limit = CharLimit(d, c)
  PROVE  /\ limit \in Nat /\ limit <= DISP_MAX_LEN
         /\ d.index < limit <=> Count(m) < c.digits
<1>1. /\ d \in Display1 /\ Readable(m, c) /\ MantissaShown(d.stack, m)
      /\ c.digits \in Nat \ {0} /\ c.digits + 3 + (2 + EXP_DIGITS) <= DISP_MAX_LEN
  BY SettingsFacts DEF FloatShown
<1>2. /\ From(m) \in Nat /\ From(m) <= 1 /\ PointAt(m) \in Nat \ {0} /\ EndOf(m) \in Nat \ {0}
      /\ EXP_DIGITS \in Nat \ {0} /\ DISP_MAX_LEN \in Nat
      /\ Len(m.int) \in Nat \ {0} /\ PointAt(m) = From(m) + Len(m.int) /\ Len(m.frac) \in Nat
  BY <1>1, DecimalFacts DEF PointAt
<1>3. /\ m.neg <=> d.stack[0] = "-"
      /\ d.stack[From(m)] = "0" <=> m.int = <<0>>
      /\ From(m) = IF d.stack[0] = "-" THEN 1 ELSE 0
      /\ HasPoint(d) <=> m.point
      /\ ~m.point => m.frac = <<>>
  <2>1. m.neg \in BOOLEAN
    BY <1>1 DEF Readable, Decimals
  <2> QED BY <1>1, <2>1, SlotFacts, PointFacts DEF From, Readable
<1>4. d.index = EndOf(m)
  BY <1>2 DEF FloatShown
<1>5. limit = c.digits + From(m) + (IF m.point THEN (IF m.int = <<0>> THEN 2 ELSE 1) ELSE 0)
  BY <1>3 DEF CharLimit, FloatLimit
<1> DEFINE n == Len(m.int)
           k == Len(m.frac)
           f == From(m)
           e == EndOf(m)
           z == Count(m)
           g == c.digits
<1>6. CASE m.point /\ m.int = <<0>>
  <2>1. n = 1 /\ e = (f + n) + (1 + k) /\ z = k + 0 /\ limit = g + f + 2
    BY <1>2, <1>5, <1>6 DEF EndOf, Count
  <2> HIDE DEF n, k, f, e, z, g
  <2>2. n \in Nat /\ k \in Nat /\ g \in Nat \ {0} /\ f \in Nat /\ f <= 1 /\ g + 3 + (2 + EXP_DIGITS) <= DISP_MAX_LEN
    BY <1>1, <1>2 DEF n, k, g, f
  <2>3. limit \in Nat /\ limit <= DISP_MAX_LEN /\ (e < limit <=> z < g)
    BY <1>2, <2>1, <2>2
  <2> QED BY <1>4, <2>3 DEF e, z, g
<1>7. CASE m.point /\ m.int # <<0>>
  <2>1. e = (f + n) + (1 + k) /\ z = k + n /\ limit = g + f + 1
    BY <1>2, <1>5, <1>7 DEF EndOf, Count
  <2> HIDE DEF n, k, f, e, z, g
  <2>2. n \in Nat /\ k \in Nat /\ g \in Nat \ {0} /\ f \in Nat /\ f <= 1 /\ g + 3 + (2 + EXP_DIGITS) <= DISP_MAX_LEN
    BY <1>1, <1>2 DEF n, k, g, f
  <2>3. limit \in Nat /\ limit <= DISP_MAX_LEN /\ (e < limit <=> z < g)
    BY <1>2, <2>1, <2>2
  <2> QED BY <1>4, <2>3 DEF e, z, g
<1>8. CASE ~m.point
  <2>1. e = (f + n) + 0 /\ z = k + n /\ limit = g + f + 0 /\ k = 0
    BY <1>2, <1>3, <1>5, <1>8 DEF EndOf, Count
  <2> HIDE DEF n, k, f, e, z, g
  <2>2. n \in Nat /\ k \in Nat /\ g \in Nat \ {0} /\ f \in Nat /\ f <= 1 /\ g + 3 + (2 + EXP_DIGITS) <= DISP_MAX_LEN
    BY <1>1, <1>2 DEF n, k, g, f
  <2>3. limit \in Nat /\ limit <= DISP_MAX_LEN /\ (e < limit <=> z < g)
    BY <1>2, <2>1, <2>2
  <2> QED BY <1>4, <2>3 DEF e, z, g
<1> QED BY <1>6, <1>7, <1>8

\* The suffix that EXP adds.
LEMMA SuffixFacts ==
  ASSUME EXP_DIGITS \in Nat \ {0}
  PROVE  /\ ExpSuffix \in Seq({"e", "+", "0"}) /\ Len(ExpSuffix) = 2 + EXP_DIGITS
         /\ ExpSuffix[1] = "e" /\ ExpSuffix[2] = "+"
         /\ \A i \in 3..(2 + EXP_DIGITS) : ExpSuffix[i] = "0"
<1> DEFINE head == <<"e", "+">>
           zeros == [i \in 1..EXP_DIGITS |-> "0"]
<1> DEFINE S == {"e", "+", "0"}
<1>1. head \in Seq(S) /\ Len(head) = 2 /\ head[1] = "e" /\ head[2] = "+"
  OBVIOUS
<1>2. zeros \in Seq(S) /\ Len(zeros) = EXP_DIGITS /\ \A i \in 1..EXP_DIGITS : zeros[i] = "0"
  OBVIOUS
<1>3. ExpSuffix = head \o zeros
  BY DEF ExpSuffix
<1> HIDE DEF head, zeros, S
<1> DEFINE all == head \o zeros
<1>4. /\ all \in Seq(S) /\ Len(all) = 2 + EXP_DIGITS
      /\ \A i \in 1..(2 + EXP_DIGITS) : all[i] = IF i <= 2 THEN head[i] ELSE zeros[i - 2]
  <2>1. /\ all \in Seq(S) /\ Len(all) = Len(head) + Len(zeros)
        /\ \A i \in 1..(Len(head) + Len(zeros)) :
             all[i] = IF i <= Len(head) THEN head[i] ELSE zeros[i - Len(head)]
    BY <1>1, <1>2, ConcatProperties, ZenonT(60)
  <2> QED BY <1>1, <1>2, <2>1
<1> HIDE DEF all
<1>5. ASSUME NEW i \in 3..(2 + EXP_DIGITS) PROVE all[i] = "0"
  <2>1. i \in 1..(2 + EXP_DIGITS) /\ ~(i <= 2) /\ i - 2 \in 1..EXP_DIGITS
    OBVIOUS
  <2> QED BY <1>2, <1>4, <2>1
<1>6. all[1] = "e" /\ all[2] = "+"
  <2>1. 1 \in 1..(2 + EXP_DIGITS) /\ 2 \in 1..(2 + EXP_DIGITS)
    OBVIOUS
  <2> QED BY <1>1, <1>4, <2>1
<1> QED BY <1>3, <1>4, <1>5, <1>6 DEF all, S

\* The slot of the point, as EnteredDecimal finds it.
PointIn(d, first, end) ==
  CHOOSE i \in first..end : /\ d.stack[i] = "." \/ i = end
                            /\ \A j \in first..(i - 1) : d.stack[j] # "."

\* EnteredDecimal finds the point where the mantissa has it.
LEMMA PointFound ==
  ASSUME NEW c \in Configs, NEW m, NEW d, Readable(m, c), MantissaShown(d.stack, m)
  PROVE  PointIn(d, From(m), EndOf(m)) = PointAt(m)
<1> DEFINE first == From(m)
           end == EndOf(m)
           p == PointAt(m)
           Found(i) == /\ d.stack[i] = "." \/ i = end
                       /\ \A j \in first..(i - 1) : d.stack[j] # "."
<1>1. first \in Nat /\ p \in Nat /\ end \in Nat /\ first < p /\ p <= end
  BY DecimalFacts
<1>2. /\ \A i \in first..(p - 1) : d.stack[i] # "."
      /\ m.point <=> p < end
      /\ m.point => d.stack[p] = "."
  BY SlotFacts, Signs
<1> HIDE DEF first, end, p
<1>3. p \in first..end /\ Found(p)
  BY <1>1, <1>2
<1>4. ASSUME NEW i \in first..end, Found(i) PROVE i = p
  <2>1. i \in Nat
    BY <1>1
  <2>2. CASE i < p
    <3>1. i \in first..(p - 1) /\ i # end
      BY <1>1, <2>1, <2>2
    <3> QED BY <1>2, <1>4, <3>1
  <2>3. CASE p < i
    <3>1. p \in first..(i - 1) /\ p < end
      BY <1>1, <2>1, <2>3
    <3> QED BY <1>2, <1>4, <3>1
  <2> QED BY <1>1, <2>1, <2>2, <2>3
<1>5. (CHOOSE i \in first..end : Found(i)) = p
  <2> HIDE DEF Found
  <2> QED BY <1>3, <1>4
<1> QED BY <1>5 DEF PointIn, first, end, p

ValuesIn(d, from, to) == [i \in 1..(to - from) |-> DigitValue[d.stack[from + i - 1]]]

DecimalOf(d) ==
  LET end   == IF d.exp_entry THEN d.index - Len(ExpSuffix) ELSE d.index
      first == IF d.stack[0] = "-" THEN 1 ELSE 0
      point == PointIn(d, first, end)
  IN [neg   |-> first = 1,
      int   |-> ValuesIn(d, first, point),
      point |-> point < end,
      frac  |-> ValuesIn(d, point + 1, end),
      exp   |-> [on  |-> d.exp_entry,
                 neg |-> d.exp_entry /\ d.stack[end + 1] = "-",
                 n   |-> IF d.exp_entry
                         THEN Magnitude(d, end + 2, d.index, 10)
                         ELSE 0]]

\* The number read from the display is the number shown.
LEMMA DecimalRead ==
  ASSUME NEW c \in Configs, NEW m, NEW d, FloatShown(d, m, c)
  PROVE  DecimalOf(d) = m
<1>1. /\ d \in Display1 /\ Readable(m, c) /\ MantissaShown(d.stack, m) /\ d.exp_entry = m.exp.on
      /\ m \in Decimals
  BY DEF FloatShown, Readable
<1>2. /\ From(m) \in Nat /\ PointAt(m) \in Nat \ {0} /\ EndOf(m) \in Nat \ {0}
      /\ From(m) < PointAt(m) /\ PointAt(m) <= EndOf(m)
      /\ EXP_DIGITS \in Nat \ {0}
      /\ Len(m.int) \in Nat /\ PointAt(m) = From(m) + Len(m.int) /\ Len(m.frac) \in Nat
      /\ m.point => EndOf(m) = PointAt(m) + (1 + Len(m.frac))
      /\ ~m.point => EndOf(m) = PointAt(m)
  <2>1. /\ From(m) \in Nat /\ PointAt(m) \in Nat \ {0} /\ EndOf(m) \in Nat \ {0}
        /\ From(m) < PointAt(m) /\ PointAt(m) <= EndOf(m)
        /\ Len(m.int) \in Nat /\ Len(m.frac) \in Nat
    BY <1>1, DecimalFacts
  <2>2. EXP_DIGITS \in Nat \ {0}
    BY SizesAssumption
  <2>3. PointAt(m) = From(m) + Len(m.int)
    BY DEF PointAt
  <2>4. ASSUME m.point PROVE EndOf(m) = PointAt(m) + (1 + Len(m.frac))
    BY <2>4 DEF EndOf
  <2>5. ASSUME ~m.point PROVE EndOf(m) = PointAt(m)
    <3>1. EndOf(m) = PointAt(m) + 0
      BY <2>5 DEF EndOf
    <3> QED BY <2>1, <3>1
  <2> QED BY <2>1, <2>2, <2>3, <2>4, <2>5
<1>3. /\ m.neg \in BOOLEAN /\ m.int \in Seq(0..9) /\ m.point \in BOOLEAN /\ m.frac \in Seq(0..9)
      /\ m.exp \in [on : BOOLEAN, neg : BOOLEAN, n : Nat]
      /\ m = [neg |-> m.neg, int |-> m.int, point |-> m.point, frac |-> m.frac, exp |-> m.exp]
  BY <1>1 DEF Decimals
<1>4. /\ \A i \in From(m)..(PointAt(m) - 1) : DigitValue[d.stack[i]] = m.int[(i - From(m)) + 1]
      /\ m.point => \A i \in (PointAt(m) + 1)..(EndOf(m) - 1) :
              DigitValue[d.stack[i]] = m.frac[(i - (PointAt(m) + 1)) + 1]
      /\ m.point <=> PointAt(m) < EndOf(m)
      /\ m.neg <=> d.stack[0] = "-"
  BY <1>1, SlotFacts
<1> DEFINE end == IF d.exp_entry THEN d.index - Len(ExpSuffix) ELSE d.index
           first == IF d.stack[0] = "-" THEN 1 ELSE 0
           point == PointIn(d, first, end)
<1>5. end = EndOf(m) /\ first = From(m)
  <2>1. first = From(m)
    BY <1>3, <1>4 DEF From
  <2>2. CASE m.exp.on
    <3>1. d.index = EndOf(m) + (2 + EXP_DIGITS)
      BY <2>2 DEF FloatShown
    <3> QED BY <1>1, <1>2, <2>1, <2>2, <3>1, SuffixFacts
  <2>3. CASE ~m.exp.on
    <3>1. d.index = EndOf(m) + 0
      BY <2>3 DEF FloatShown
    <3> QED BY <1>1, <1>2, <2>1, <2>3, <3>1
  <2> QED BY <2>2, <2>3
<1>6. point = PointAt(m)
  BY <1>1, <1>5, PointFound
<1>7. DecimalOf(d) = [neg   |-> first = 1,
                      int   |-> ValuesIn(d, first, point),
                      point |-> point < end,
                      frac  |-> ValuesIn(d, point + 1, end),
                      exp   |-> [on  |-> d.exp_entry,
                                 neg |-> d.exp_entry /\ d.stack[end + 1] = "-",
                                 n   |-> IF d.exp_entry THEN Magnitude(d, end + 2, d.index, 10) ELSE 0]]
  BY DEF DecimalOf
<1>8. (first = 1) = m.neg
  BY <1>3, <1>4
<1> HIDE DEF end, first, point
<1>9. (point < end) = m.point
  <2>1. point < end <=> m.point
    BY <1>4, <1>5, <1>6
  <2> QED BY <1>3, <2>1
<1>10. ValuesIn(d, first, point) = m.int
  <2>1. point - first = Len(m.int)
    BY <1>2, <1>5, <1>6
  <2>2. ASSUME NEW i \in 1..Len(m.int) PROVE DigitValue[d.stack[first + i - 1]] = m.int[i]
    <3> DEFINE j == first + i - 1
    <3>1. /\ j \in From(m)..(PointAt(m) - 1)
          /\ (j - From(m)) + 1 = i
      BY <1>2, <1>5, SMTT(60)
    <3> HIDE DEF j
    <3>2. DigitValue[d.stack[j]] = m.int[(j - From(m)) + 1]
      BY <1>4, <3>1
    <3> QED BY <3>1, <3>2 DEF j
  <2>3. ValuesIn(d, first, point) = [i \in 1..Len(m.int) |-> m.int[i]]
    BY <2>1, <2>2 DEF ValuesIn
  <2> QED BY <1>3, <2>3
<1>11. ValuesIn(d, point + 1, end) = m.frac
  <2>1. CASE m.point
    <3> DEFINE p == PointAt(m) + 1
    <3>0. end - p = Len(m.frac) /\ p \in Nat /\ EndOf(m) = p + Len(m.frac)
      <4>1. EndOf(m) = PointAt(m) + (1 + Len(m.frac)) /\ PointAt(m) \in Nat /\ Len(m.frac) \in Nat
        BY <1>2, <2>1
      <4> QED BY <1>5, <4>1
    <3>a. \A i \in p..(EndOf(m) - 1) : DigitValue[d.stack[i]] = m.frac[(i - p) + 1]
      BY <1>4, <2>1
    <3> HIDE DEF p
    <3>2. ASSUME NEW i \in 1..Len(m.frac) PROVE DigitValue[d.stack[p + i - 1]] = m.frac[i]
      <4> DEFINE j == p + i - 1
      <4>1. j \in p..(EndOf(m) - 1) /\ (j - p) + 1 = i
        BY <1>2, <3>0
      <4> HIDE DEF j
      <4>2. DigitValue[d.stack[j]] = m.frac[(j - p) + 1]
        BY <3>a, <4>1
      <4> QED BY <4>1, <4>2 DEF j
    <3>3. ValuesIn(d, p, end) = [i \in 1..Len(m.frac) |-> m.frac[i]]
      BY <3>0, <3>2 DEF ValuesIn
    <3> QED BY <1>3, <1>6, <3>3 DEF p
  <2>2. CASE ~m.point
    <3>1. m.frac = <<>>
      BY <1>1, <2>2 DEF Readable
    <3>2. 1..(end - (point + 1)) = {}
      BY <1>2, <1>5, <1>6, <2>2
    <3> QED BY <3>1, <3>2 DEF ValuesIn
  <2> QED BY <1>3, <2>1, <2>2
<1>12. m.exp = [on  |-> d.exp_entry,
                neg |-> d.exp_entry /\ d.stack[end + 1] = "-",
                n   |-> IF d.exp_entry THEN Magnitude(d, end + 2, d.index, 10) ELSE 0]
  <2>1. CASE m.exp.on
    <3>1. ExponentShown(d, end, m.exp)
      BY <1>5, <2>1 DEF FloatShown
    <3>2. (d.stack[end + 1] = "-") = m.exp.neg
      BY <1>3, <3>1 DEF ExponentShown
    <3>3. Magnitude(d, end + 2, d.index, 10) = m.exp.n
      BY <3>1 DEF ExponentShown
    <3> QED BY <1>1, <1>3, <2>1, <3>2, <3>3
  <2>2. CASE ~m.exp.on
    <3>1. m.exp = NoExponent
      BY <1>1, <2>2 DEF Readable
    <3>2. d.exp_entry = FALSE
      BY <1>1, <3>1 DEF NoExponent
    <3>3. (d.exp_entry /\ d.stack[end + 1] = "-") = FALSE
      BY <3>2
    <3>4. (IF d.exp_entry THEN Magnitude(d, end + 2, d.index, 10) ELSE 0) = 0
      BY <3>2
    <3> QED BY <3>1, <3>2, <3>3, <3>4, Zenon DEF NoExponent
  <2> QED BY <2>1, <2>2
<1> QED BY <1>3, <1>7, <1>8, <1>9, <1>10, <1>11, <1>12

\* The characters of q begin in slot start.
OnStack(s, start, q) == \A i \in 1..Len(q) : s[start + (i - 1)] = q[i]

\* Texts on the stack one behind the other are there joined.
LEMMA OnStackJoined ==
  ASSUME NEW S, NEW s, NEW start \in Nat, NEW q \in Seq(S), NEW r \in Seq(S),
         OnStack(s, start, q), OnStack(s, start + Len(q), r)
  PROVE  q \o r \in Seq(S) /\ Len(q \o r) = Len(q) + Len(r) /\ OnStack(s, start, q \o r)
<1> DEFINE all == q \o r
           n == Len(q)
           k == Len(r)
<1>1. /\ all \in Seq(S) /\ Len(all) = n + k /\ n \in Nat /\ k \in Nat
      /\ \A i \in 1..(n + k) : all[i] = IF i <= n THEN q[i] ELSE r[i - n]
  BY ConcatProperties
<1>2. \A i \in 1..n : s[start + (i - 1)] = q[i]
  BY DEF OnStack
<1>3. \A i \in 1..k : s[(start + n) + (i - 1)] = r[i]
  BY DEF OnStack
<1> HIDE DEF all, n, k
<1>4. ASSUME NEW i \in 1..(n + k) PROVE s[start + (i - 1)] = all[i]
  <2>1. CASE i <= n
    <3>1. i \in 1..n
      BY <1>1, <2>1
    <3> QED BY <1>1, <1>2, <2>1, <3>1
  <2>2. CASE ~(i <= n)
    <3>1. i - n \in 1..k /\ (start + n) + ((i - n) - 1) = start + (i - 1)
      BY <1>1, <2>2
    <3>2. s[(start + n) + ((i - n) - 1)] = r[i - n]
      BY <1>3, <3>1
    <3> QED BY <1>1, <2>2, <3>1, <3>2
  <2> QED BY <2>1, <2>2
<1> QED BY <1>1, <1>4 DEF OnStack, all, n, k

\* The slots of figures hold their characters.
LEMMA FiguresOnStack ==
  ASSUME NEW s, NEW start \in Nat, NEW q \in Seq(0..9), FiguresIn(s, start, q)
  PROVE  Characters(q) \in Seq(Chars) /\ Len(Characters(q)) = Len(q) /\ OnStack(s, start, Characters(q))
<1>1. \A i \in 1..Len(q) : Digit[q[i] + 1] \in Chars
  <2> SUFFICES ASSUME NEW i \in 1..Len(q) PROVE Digit[q[i] + 1] \in Chars
    OBVIOUS
  <2>1. q[i] \in 0..9
    OBVIOUS
  <2>2. q[i] \in 0..15
    BY <2>1
  <2> QED BY <2>2, DigitValues DEF Chars
<1>2. Len(q) \in Nat
  OBVIOUS
<1>3. Characters(q) \in Seq(Chars) /\ Len(Characters(q)) = Len(q)
  BY <1>1, <1>2 DEF Characters
<1>4. \A i \in 1..Len(q) : Characters(q)[i] = Digit[q[i] + 1]
  BY DEF Characters
<1> QED BY <1>3, <1>4 DEF OnStack, FiguresIn

\* An exponent is printed with all its digits.
ExponentDigits(n) == [i \in 1..EXP_DIGITS |-> Digit[((n \div 10^(EXP_DIGITS - i)) % 10) + 1]]

\* The slots of an exponent hold the digits of its number, leading zeros included.
LEMMA ExponentOnStack ==
  ASSUME EXP_DIGITS \in Nat \ {0}, NEW d, NEW from \in Nat, NEW to \in Nat, to - from = EXP_DIGITS,
         DigitsIn(d.stack, from, to, 10), NEW n, n = Magnitude(d, from, to, 10)
  PROVE  /\ ExponentDigits(n) \in Seq(Chars) /\ Len(ExponentDigits(n)) = EXP_DIGITS
         /\ OnStack(d.stack, from, ExponentDigits(n))
<1> DEFINE size == EXP_DIGITS
           s == d.stack
           q == ExponentDigits(n)
<1>0. PowersOf(10, size) /\ 10 \in Bases /\ size \in Nat \ {0} /\ to - from = size /\ from <= to
  BY PowersAssumption DEF Bases
<1>1. PICK f : Counts(f, s, from, to, 10) /\ n = f[to]
  BY <1>0, MagnitudeCounts
<1>5. DigitsIn(s, from, to, 10)
  OBVIOUS
<1>6. q = [i \in 1..size |-> Digit[((n \div 10^(size - i)) % 10) + 1]]
  BY DEF ExponentDigits
<1> HIDE DEF size, s, q
<1>2. ASSUME NEW i \in 1..size
      PROVE  s[from + (i - 1)] \in Range(Digit) /\ s[from + (i - 1)] = q[i]
  <2> DEFINE j == from + (i - 1)
             v == DigitValue[s[j]]
  <2>1. /\ j \in from..(to - 1) /\ j + 1 = to - (size - i) /\ size - i \in 0..(to - from)
        /\ j \in from..to /\ j + 1 \in from..to
    BY <1>0
  <2>2. s[j] \in Range(Digit) /\ v \in Nat /\ v < 10 /\ Digit[v + 1] = s[j]
    BY <2>1, <1>5, DigitValues DEF DigitsIn
  <2>3. f[j + 1] = f[j] * 10 + v
    BY <2>1, <1>1 DEF Counts
  <2>4. f[j] \in Nat /\ f[j + 1] \in Nat
    BY <2>1, <1>0, <1>1, <1>5, CountsNat
  <2>5. f[j + 1] = n \div 10^(size - i)
    <3>1. \A k \in 0..(to - from) : f[to - k] = f[to] \div 10^k
      <4>1. to - from <= size /\ size \in Nat
        BY <1>0
      <4> DEFINE b == 10
      <4>2. b \in Bases /\ PowersOf(b, size) /\ Counts(f, s, from, to, b) /\ DigitsIn(s, from, to, b)
        BY <1>0, <1>1, <1>5
      <4> HIDE DEF j, v, b
      <4>3. Numbered(f, s, from, to, b, size)
        BY <1>0, <4>1, <4>2 DEF Numbered
      <4>4. \A k \in 0..(to - from) : f[to - k] = f[to] \div b^k
        BY <4>3, Quotients
      <4> QED BY <4>4 DEF b
    <3>2. f[to - (size - i)] = f[to] \div 10^(size - i)
      BY <2>1, <3>1
    <3> QED BY <1>1, <2>1, <3>2
  <2> HIDE DEF j, v
  <2>6. (f[j + 1]) % 10 = v
    <3> DEFINE x == f[j + 1]
               y == f[j]
    <3>1. x \in Nat /\ y \in Nat /\ v \in Nat /\ v < 10 /\ x = y * 10 + v
      BY <2>2, <2>3, <2>4
    <3> HIDE DEF x, y
    <3>2. x % 10 = v
      BY <3>1, RemainderIs
    <3> QED BY <3>2 DEF x
  <2>7. q[i] = Digit[v + 1]
    BY <1>6, <2>5, <2>6
  <2> QED BY <2>2, <2>7 DEF j
<1>3. \A i \in 1..size : q[i] \in Chars
  BY <1>2 DEF Chars
<1>4. q \in Seq(Chars) /\ Len(q) = size
  <2>1. q = [i \in 1..size |-> q[i]]
    BY <1>6
  <2> QED BY <1>0, <1>3, <2>1
<1> QED BY <1>2, <1>4 DEF OnStack, size, s, q

\* The text on the display is the number shown, written out.
LEMMA FloatText ==
  ASSUME NEW c \in Configs, NEW m, NEW d, FloatShown(d, m, c)
  PROVE  Text(d) = Rendered(m)
<1> DEFINE s == d.stack
           sign == IF m.neg THEN <<"-">> ELSE <<>>
           dot == IF m.point THEN <<".">> ELSE <<>>
           head == <<"e", IF m.exp.neg THEN "-" ELSE "+">>
           exp == IF m.exp.on THEN head \o ExponentDigits(m.exp.n) ELSE <<>>
           int == Characters(m.int)
           frac == Characters(m.frac)
<1>1. /\ d \in Display1 /\ Terminated(d) /\ Readable(m, c) /\ MantissaShown(s, m)
      /\ m.int \in Seq(0..9) /\ m.frac \in Seq(0..9) /\ m.neg \in BOOLEAN /\ m.point \in BOOLEAN
      /\ m.exp.on \in BOOLEAN /\ (~m.point => m.frac = <<>>)
  BY DEF FloatShown, Readable, Decimals
<1>2. /\ From(m) \in Nat /\ PointAt(m) \in Nat \ {0} /\ EndOf(m) \in Nat \ {0}
      /\ Len(m.int) \in Nat /\ PointAt(m) = From(m) + Len(m.int) /\ Len(m.frac) \in Nat
      /\ EXP_DIGITS \in Nat \ {0} /\ DISP_MAX_LEN \in Nat
  BY <1>1, DecimalFacts DEF PointAt
<1>3. "-" \in Chars /\ "." \in Chars /\ "e" \in Chars /\ "+" \in Chars
  BY DEF Chars
<1>4. sign \in Seq(Chars) /\ Len(sign) = From(m) /\ OnStack(s, 0, sign)
  <2>1. CASE m.neg
    <3>1. sign = <<"-">> /\ From(m) = 1 /\ s[0] = "-"
      BY <1>1, <2>1 DEF From, MantissaShown
    <3>2. sign \in Seq(Chars) /\ Len(sign) = 1 /\ sign[1] = "-"
      BY <1>3, <3>1
    <3> HIDE DEF sign, s
    <3>3. \A i \in 1..1 : i = 1 /\ 0 + (i - 1) = 0
      OBVIOUS
    <3> QED BY <3>1, <3>2, <3>3 DEF OnStack
  <2>2. CASE ~m.neg
    <3>1. sign = <<>> /\ From(m) = 0
      BY <1>1, <2>2 DEF From
    <3>2. sign \in Seq(Chars) /\ Len(sign) = 0
      BY <3>1
    <3> QED BY <3>1, <3>2 DEF OnStack
  <2> QED BY <1>1, <2>1, <2>2
<1>5. int \in Seq(Chars) /\ Len(int) = Len(m.int) /\ OnStack(s, From(m), int)
  BY <1>1, <1>2, FiguresOnStack DEF MantissaShown
<1>6. dot \in Seq(Chars) /\ Len(dot) = (IF m.point THEN 1 ELSE 0) /\ OnStack(s, PointAt(m), dot)
  <2>1. CASE m.point
    <3>1. dot = <<".">> /\ s[PointAt(m)] = "."
      BY <1>1, <2>1 DEF MantissaShown
    <3>2. dot \in Seq(Chars) /\ Len(dot) = 1 /\ dot[1] = "."
      BY <1>3, <3>1
    <3> HIDE DEF dot, s
    <3>3. \A i \in 1..1 : i = 1 /\ PointAt(m) + (i - 1) = PointAt(m)
      BY <1>2
    <3> QED BY <2>1, <3>1, <3>2, <3>3 DEF OnStack
  <2>2. CASE ~m.point
    <3>1. dot = <<>>
      BY <1>1, <2>2
    <3>2. dot \in Seq(Chars) /\ Len(dot) = 0
      BY <3>1
    <3> QED BY <2>2, <3>1, <3>2 DEF OnStack
  <2> QED BY <1>1, <2>1, <2>2
<1>7. frac \in Seq(Chars) /\ Len(frac) = Len(m.frac) /\ OnStack(s, PointAt(m) + Len(dot), frac)
  <2>1. CASE m.point
    <3>1. Len(dot) = 1 /\ FiguresIn(s, PointAt(m) + 1, m.frac) /\ PointAt(m) + 1 \in Nat
      BY <1>1, <1>2, <1>6, <2>1 DEF MantissaShown
    <3> QED BY <1>1, <3>1, FiguresOnStack
  <2>2. CASE ~m.point
    <3>1. m.frac = <<>> /\ FiguresIn(s, 0, m.frac)
      BY <1>1, <2>2 DEF FiguresIn
    <3>2. frac \in Seq(Chars) /\ Len(frac) = Len(m.frac) /\ Len(m.frac) = 0
      BY <1>1, <3>1, FiguresOnStack
    <3> QED BY <3>2 DEF OnStack
  <2> QED BY <1>1, <2>1, <2>2
<1>8. /\ EndOf(m) = PointAt(m) + Len(dot) + Len(frac)
      /\ d.index = IF m.exp.on THEN EndOf(m) + (2 + EXP_DIGITS) ELSE EndOf(m)
  <2>1. ~m.point => Len(m.frac) = 0
    BY <1>1
  <2>2. m.exp.on => d.index = EndOf(m) + (2 + EXP_DIGITS)
    BY DEF FloatShown
  <2>3. ~m.exp.on => d.index = EndOf(m) + 0
    BY DEF FloatShown
  <2>4. m.point => EndOf(m) = PointAt(m) + (1 + Len(m.frac))
    BY DEF EndOf
  <2>5. ~m.point => EndOf(m) = PointAt(m) + 0
    BY DEF EndOf
  <2> DEFINE x == Len(dot)
             y == Len(frac)
  <2>6. (m.point => x = 1) /\ (~m.point => x = 0) /\ y = Len(m.frac) /\ y \in Nat /\ x \in Nat
    BY <1>2, <1>6, <1>7
  <2> HIDE DEF dot, frac, x, y
  <2>7. EndOf(m) = PointAt(m) + x + y
    <3>1. CASE m.point
      <4>1. EndOf(m) = PointAt(m) + (1 + Len(m.frac)) /\ x = 1 /\ y = Len(m.frac)
        BY <2>4, <2>6, <3>1
      <4>2. EndOf(m) = PointAt(m) + (x + y)
        BY <4>1
      <4> DEFINE p == PointAt(m)
      <4>3. p \in Nat /\ x \in Nat /\ y \in Nat
        BY <1>2, <2>6
      <4> HIDE DEF p
      <4>4. p + (x + y) = p + x + y
        BY <4>3
      <4> QED BY <4>2, <4>4 DEF p
    <3>2. CASE ~m.point
      BY <1>2, <2>1, <2>5, <2>6, <3>2
    <3> QED BY <3>1, <3>2
  <2> QED BY <1>1, <1>2, <2>2, <2>3, <2>7 DEF x, y
<1>9. exp \in Seq(Chars) /\ d.index = EndOf(m) + Len(exp) /\ OnStack(s, EndOf(m), exp)
  <2>1. CASE m.exp.on
    <3>1. ExponentShown(d, EndOf(m), m.exp)
      BY <2>1 DEF FloatShown
    <3>2. head \in Seq(Chars) /\ Len(head) = 2 /\ head[1] = "e" /\ head[2] = IF m.exp.neg THEN "-" ELSE "+"
      BY <1>3
    <3>3. OnStack(s, EndOf(m), head)
      <4>1. \A i \in 1..2 : (i = 1 /\ EndOf(m) + (i - 1) = EndOf(m)) \/ (i = 2 /\ EndOf(m) + (i - 1) = EndOf(m) + 1)
        BY <1>2
      <4> HIDE DEF head
      <4> QED BY <3>1, <3>2, <4>1 DEF OnStack, ExponentShown
    <3> DEFINE digits == ExponentDigits(m.exp.n)
               from == EndOf(m) + 2
    <3>4. digits \in Seq(Chars) /\ Len(digits) = EXP_DIGITS /\ OnStack(s, from, digits)
      <4>1. /\ from \in Nat /\ d.index \in Nat /\ d.index - from = EXP_DIGITS
            /\ DigitsIn(d.stack, from, d.index, 10) /\ m.exp.n = Magnitude(d, from, d.index, 10)
        <5>1. d.index = EndOf(m) + (2 + EXP_DIGITS)
          BY <1>8, <2>1
        <5>2. from \in Nat /\ d.index \in Nat /\ d.index - from = EXP_DIGITS
          BY <1>2, <5>1
        <5>3. DigitsIn(d.stack, from, d.index, 10) /\ m.exp.n = Magnitude(d, from, d.index, 10)
          BY <3>1 DEF ExponentShown
        <5> QED BY <5>2, <5>3
      <4> HIDE DEF from
      <4> QED BY <1>2, <4>1, ExponentOnStack
    <3> HIDE DEF head, digits, s
    <3>5. OnStack(s, EndOf(m) + Len(head), digits)
      BY <3>2, <3>4
    <3>6. head \o digits \in Seq(Chars) /\ Len(head \o digits) = Len(head) + Len(digits)
          /\ OnStack(s, EndOf(m), head \o digits)
      BY <1>2, <3>2, <3>3, <3>4, <3>5, OnStackJoined
    <3> QED BY <1>8, <2>1, <3>2, <3>4, <3>6 DEF digits
  <2>2. CASE ~m.exp.on
    <3>1. exp = <<>>
      BY <1>1, <2>2
    <3>2. exp \in Seq(Chars) /\ Len(exp) = 0
      BY <3>1
    <3> QED BY <1>2, <1>8, <2>2, <3>1, <3>2 DEF OnStack
  <2> QED BY <1>1, <2>1, <2>2
<1>10. Rendered(m) = sign \o int \o dot \o frac \o exp
  BY DEF Rendered, ExponentDigits
<1>11. Text(d) = [i \in 1..d.index |-> s[i - 1]]
  BY <1>1, <1>2, TextOf
<1> HIDE DEF s, sign, int, dot, frac, exp
<1> DEFINE a == sign \o int
           b == a \o dot
           g == b \o frac
           all == g \o exp
<1>12. a \in Seq(Chars) /\ Len(a) = PointAt(m) /\ OnStack(s, 0, a)
  <2>1. OnStack(s, 0 + Len(sign), int)
    BY <1>2, <1>4, <1>5
  <2>2. a \in Seq(Chars) /\ Len(a) = Len(sign) + Len(int) /\ OnStack(s, 0, a)
    BY <1>4, <1>5, <2>1, OnStackJoined
  <2> QED BY <1>2, <1>4, <1>5, <2>2
<1> HIDE DEF a
<1>13. b \in Seq(Chars) /\ Len(b) = PointAt(m) + Len(dot) /\ OnStack(s, 0, b)
  <2>1. OnStack(s, 0 + Len(a), dot)
    BY <1>2, <1>6, <1>12
  <2>2. b \in Seq(Chars) /\ Len(b) = Len(a) + Len(dot) /\ OnStack(s, 0, b)
    BY <1>6, <1>12, <2>1, OnStackJoined
  <2> QED BY <1>12, <2>2
<1> HIDE DEF b
<1>14. g \in Seq(Chars) /\ Len(g) = EndOf(m) /\ OnStack(s, 0, g)
  <2>1. OnStack(s, 0 + Len(b), frac)
    BY <1>2, <1>6, <1>7, <1>13
  <2>2. g \in Seq(Chars) /\ Len(g) = Len(b) + Len(frac) /\ OnStack(s, 0, g)
    BY <1>7, <1>13, <2>1, OnStackJoined
  <2> QED BY <1>8, <1>13, <2>2
<1> HIDE DEF g
<1>15. all \in Seq(Chars) /\ Len(all) = d.index /\ OnStack(s, 0, all)
  <2>1. OnStack(s, 0 + Len(g), exp)
    BY <1>2, <1>9, <1>14
  <2>2. all \in Seq(Chars) /\ Len(all) = Len(g) + Len(exp) /\ OnStack(s, 0, all)
    BY <1>9, <1>14, <2>1, OnStackJoined
  <2> QED BY <1>9, <1>14, <2>2
<1>16. Rendered(m) = all
  BY <1>10 DEF a, b, g
<1> HIDE DEF all
<1>17. all = [i \in 1..d.index |-> s[i - 1]]
  <2>1. all = [i \in 1..Len(all) |-> all[i]]
    BY <1>15
  <2>2. ASSUME NEW i \in 1..d.index PROVE all[i] = s[i - 1]
    <3>1. 0 + (i - 1) = i - 1
      OBVIOUS
    <3>2. s[0 + (i - 1)] = all[i]
      BY <1>15 DEF OnStack
    <3> QED BY <3>1, <3>2
  <2> QED BY <1>15, <2>1, <2>2
<1> QED BY <1>11, <1>16, <1>17

\* update_display does nothing in floating point mode.
LEMMA UpdateFloat ==
  ASSUME NEW c, c.mode = "float", NEW d
  PROVE  update_display(d, c) = d
BY DEF update_display

\* Figures moved to other slots are the same figures.
LEMMA FiguresKept ==
  ASSUME NEW s, NEW t, NEW start \in Nat, NEW q \in Seq(0..9), FiguresIn(s, start, q),
         NEW begin \in Nat,
         \A i \in 1..Len(q) : t[begin + (i - 1)] = s[start + (i - 1)]
  PROVE  FiguresIn(t, begin, q)
BY DEF FiguresIn

\* A digit behind the figures is one more figure.
LEMMA FiguresAppended ==
  ASSUME NEW s, NEW start \in Nat, NEW q \in Seq(0..9), FiguresIn(s, start, q),
         NEW k \in 0..9, NEW end, end = start + Len(q), s[end] = Digit[k + 1]
  PROVE  /\ FiguresIn(s, start, Append(q, k))
         /\ Append(q, k) \in Seq(0..9) /\ Len(Append(q, k)) = Len(q) + 1
         /\ q # <<>> => Append(q, k)[1] = q[1]
         /\ Append(q, k) # <<>>
<1> DEFINE r == Append(q, k)
           n == Len(q)
<1>1. n \in Nat /\ r \in Seq(0..9) /\ Len(r) = n + 1 /\ r[n + 1] = k /\ \A i \in 1..n : r[i] = q[i]
  OBVIOUS
<1>2. \A i \in 1..n : s[start + (i - 1)] = Digit[q[i] + 1]
  BY DEF FiguresIn
<1>3. q # <<>> => n # 0
  BY EmptySeq
<1>4. r # <<>>
  BY <1>1, EmptySeq
<1> HIDE DEF r, n
<1>5. ASSUME NEW i \in 1..(n + 1) PROVE s[start + (i - 1)] = Digit[r[i] + 1]
  <2>1. CASE i \in 1..n
    BY <1>1, <1>2, <2>1
  <2>2. CASE i \notin 1..n
    <3>1. i = n + 1 /\ start + (i - 1) = start + n
      BY <1>1, <2>2
    <3> QED BY <1>1, <3>1 DEF n
  <2> QED BY <2>1, <2>2
<1>6. q # <<>> => r[1] = q[1]
  BY <1>1, <1>3
<1> QED BY <1>1, <1>4, <1>5, <1>6 DEF FiguresIn, r, n

\* A mantissa is on the display as long as its slots keep their characters.
SameTo(s, t, n) == \A i \in 0..(n - 1) : t[i] = s[i]

\* The mantissa depends on its own slots only.
LEMMA MantissaKept ==
  ASSUME NEW c \in Configs, NEW m, Readable(m, c), NEW s, MantissaShown(s, m),
         NEW t, SameTo(s, t, EndOf(m))
  PROVE  MantissaShown(t, m)
<1>1. /\ From(m) \in Nat /\ From(m) <= 1 /\ PointAt(m) \in Nat \ {0} /\ EndOf(m) \in Nat \ {0}
      /\ PointAt(m) <= EndOf(m)
      /\ Len(m.int) \in Nat /\ PointAt(m) = From(m) + Len(m.int) /\ Len(m.frac) \in Nat
      /\ m.point => EndOf(m) = (PointAt(m) + 1) + Len(m.frac)
      /\ m.int \in Seq(0..9) /\ m.frac \in Seq(0..9)
  <2>1. /\ From(m) \in Nat /\ From(m) <= 1 /\ PointAt(m) \in Nat \ {0} /\ EndOf(m) \in Nat \ {0}
        /\ PointAt(m) <= EndOf(m) /\ Len(m.int) \in Nat /\ Len(m.frac) \in Nat
    BY DecimalFacts
  <2>2. m.point => EndOf(m) = PointAt(m) + (1 + Len(m.frac))
    BY DEF EndOf
  <2>3. PointAt(m) = From(m) + Len(m.int) /\ m.int \in Seq(0..9) /\ m.frac \in Seq(0..9)
    BY DEF PointAt, Readable, Decimals
  <2>4. m.point => EndOf(m) = (PointAt(m) + 1) + Len(m.frac)
    <3> DEFINE p == PointAt(m)
               k == Len(m.frac)
    <3>1. p \in Nat /\ k \in Nat /\ (m.point => EndOf(m) = p + (1 + k))
      BY <2>1, <2>2
    <3> HIDE DEF p, k
    <3>2. p + (1 + k) = (p + 1) + k
      BY <3>1
    <3> QED BY <3>1, <3>2 DEF p, k
  <2> QED BY <2>1, <2>3, <2>4
<1>2. \A i \in 0..(EndOf(m) - 1) : t[i] = s[i]
  BY DEF SameTo
<1>3. m.neg => t[0] = "-"
  <2>1. 0 \in 0..(EndOf(m) - 1)
    BY <1>1
  <2> QED BY <1>2, <2>1 DEF MantissaShown
<1>4. FiguresIn(t, From(m), m.int)
  <2>1. ASSUME NEW i \in 1..Len(m.int) PROVE t[From(m) + (i - 1)] = s[From(m) + (i - 1)]
    <3>1. From(m) + (i - 1) \in 0..(EndOf(m) - 1)
      BY <1>1
    <3> QED BY <1>2, <3>1
  <2>2. FiguresIn(s, From(m), m.int)
    BY DEF MantissaShown
  <2> QED BY <2>1, <2>2 DEF FiguresIn
<1>5. ASSUME m.point PROVE t[PointAt(m)] = "." /\ FiguresIn(t, PointAt(m) + 1, m.frac)
  <2>1. s[PointAt(m)] = "." /\ FiguresIn(s, PointAt(m) + 1, m.frac)
    BY <1>5 DEF MantissaShown
  <2>2. EndOf(m) = (PointAt(m) + 1) + Len(m.frac)
    BY <1>1, <1>5
  <2>3. PointAt(m) \in 0..(EndOf(m) - 1)
    BY <1>1, <2>2
  <2>4. ASSUME NEW i \in 1..Len(m.frac) PROVE t[(PointAt(m) + 1) + (i - 1)] = s[(PointAt(m) + 1) + (i - 1)]
    <3>1. (PointAt(m) + 1) + (i - 1) \in 0..(EndOf(m) - 1)
      <4> DEFINE p == PointAt(m)
                 k == Len(m.frac)
      <4>1. p \in Nat /\ k \in Nat /\ EndOf(m) = (p + 1) + k /\ i \in 1..k
        BY <1>1, <2>2
      <4> HIDE DEF p, k
      <4>2. (p + 1) + (i - 1) \in 0..(EndOf(m) - 1)
        BY <4>1
      <4> QED BY <4>2 DEF p
    <3> QED BY <1>2, <3>1
  <2>5. FiguresIn(t, PointAt(m) + 1, m.frac)
    BY <2>1, <2>4 DEF FiguresIn
  <2> QED BY <1>2, <2>1, <2>3, <2>5
<1> QED BY <1>3, <1>4, <1>5 DEF MantissaShown

\* WrittenFacts, for a text and a display that are terms.
LEMMA WrittenShort ==
  ASSUME NEW c \in Configs, NEW d \in Display1, NEW text \in Texts
  PROVE  /\ Written(d, text) \in Display1 /\ Terminated(Written(d, text))
         /\ ~Written(d, text).exp_entry /\ Written(d, text).error = d.error
         /\ Len(text) <= DISP_MAX_LEN =>
              /\ Written(d, text).index = Len(text)
              /\ \A i \in 0..(Len(text) - 1) : Written(d, text).stack[i] = text[i + 1]
BY WrittenFacts

\* A new number.
Started(int, point) ==
  [neg |-> FALSE, int |-> int, point |-> point, frac |-> <<>>, exp |-> NoExponent]

\* Where the parts of a number lie that was just started.
LEMMA StartedFacts ==
  ASSUME NEW c \in Configs, NEW k \in 0..9, NEW point \in BOOLEAN, NEW m, m = Started(<<k>>, point)
  PROVE  /\ Readable(m, c) /\ ~m.exp.on
         /\ From(m) = 0 /\ PointAt(m) = 1 /\ EndOf(m) = (IF point THEN 2 ELSE 1)
         /\ ~m.neg /\ m.int = <<k>> /\ m.frac = <<>> /\ m.point = point /\ m.exp = NoExponent
<1>1. /\ m.neg = FALSE /\ m.int = <<k>> /\ m.frac = <<>> /\ m.point = point /\ m.exp = NoExponent
  BY DEF Started
<1>2. <<k>> \in Seq(0..9) /\ <<>> \in Seq(0..9) /\ NoExponent \in [on : BOOLEAN, neg : BOOLEAN, n : Nat]
      /\ NoExponent.on = FALSE
  BY DEF NoExponent
<1>3. m \in Decimals
  BY <1>2 DEF Started, Decimals
<1>4. Len(m.int) = 1 /\ Len(m.frac) = 0 /\ m.int # <<>>
  BY <1>1
<1>5. From(m) = 0
  BY <1>1 DEF From
<1>6. PointAt(m) = 1
  <2>1. PointAt(m) = From(m) + Len(m.int)
    BY DEF PointAt
  <2>2. From(m) + Len(m.int) = 0 + 1
    BY <1>4, <1>5
  <2> QED BY <2>1, <2>2
<1>7. EndOf(m) = (IF point THEN 2 ELSE 1)
  <2>1. m.point => EndOf(m) = 1 + (1 + 0)
    BY <1>4, <1>6 DEF EndOf
  <2>2. ~m.point => EndOf(m) = 1 + 0
    BY <1>4, <1>6 DEF EndOf
  <2> QED BY <1>1, <2>1, <2>2
<1>8. Count(m) = 0 \/ Count(m) = 1
  <2>1. Count(m) = 0 + 0 \/ Count(m) = 0 + 1
    BY <1>4 DEF Count
  <2> QED BY <2>1
<1>9. Count(m) <= c.digits
  BY <1>8, SettingsFacts
<1>10. Readable(m, c)
  BY <1>1, <1>2, <1>3, <1>4, <1>9 DEF Readable
<1> QED BY <1>1, <1>2, <1>5, <1>6, <1>7, <1>10

\* A digit, or a digit and the point, start a number.
LEMMA StartShown ==
  ASSUME NEW c \in Configs, NEW d \in Display1, ~d.error, NEW k \in 0..9, NEW point \in BOOLEAN,
         NEW text, text = (IF point THEN <<Digit[k + 1], ".">> ELSE <<Digit[k + 1]>>),
         NEW e, e = Written(d, text)
  PROVE  FloatShown(e, Started(<<k>>, point), c)
<1> DEFINE m == Started(<<k>>, point)
           ch == Digit[k + 1]
<1>1. ch \in Chars \ {NUL} /\ "." \in Chars \ {NUL}
  <2>1. k \in 0..15
    OBVIOUS
  <2> QED BY <2>1, DigitValues, Signs DEF Chars, NUL
<1>2. /\ text \in Texts /\ Len(text) = (IF point THEN 2 ELSE 1) /\ text[1] = ch
      /\ point => text[2] = "."
  <2> HIDE DEF ch
  <2>1. CASE point
    <3>1. text = <<ch, ".">>
      BY <2>1 DEF ch
    <3> QED BY <1>1, <2>1, <3>1 DEF Texts
  <2>2. CASE ~point
    <3>1. text = <<ch>>
      BY <2>2 DEF ch
    <3> QED BY <1>1, <2>2, <3>1 DEF Texts
  <2> QED BY <2>1, <2>2
<1>3. /\ e \in Display1 /\ Terminated(e) /\ ~e.exp_entry /\ ~e.error
      /\ e.index = Len(text)
      /\ \A i \in 0..(Len(text) - 1) : e.stack[i] = text[i + 1]
  <2>1. Len(text) <= DISP_MAX_LEN
    BY <1>2, SettingsFacts
  <2>2. text \in Texts
    BY <1>2
  <2>3. /\ e \in Display1 /\ Terminated(e)
        /\ ~e.exp_entry /\ e.error = d.error
        /\ Len(text) <= DISP_MAX_LEN =>
             /\ e.index = Len(text)
             /\ \A i \in 0..(Len(text) - 1) : e.stack[i] = text[i + 1]
    BY <2>2, WrittenShort
  <2> QED BY <2>1, <2>3
<1>4. /\ Readable(m, c) /\ ~m.exp.on
      /\ From(m) = 0 /\ PointAt(m) = 1 /\ EndOf(m) = (IF point THEN 2 ELSE 1)
      /\ ~m.neg /\ m.int = <<k>> /\ m.frac = <<>> /\ m.point = point /\ m.exp = NoExponent
  BY StartedFacts, SMTT(60)
<1> HIDE DEF m
<1>5. e.stack[0] = ch /\ (point => e.stack[1] = ".")
  <2>1. 0 \in 0..(Len(text) - 1) /\ (point => 1 \in 0..(Len(text) - 1))
    BY <1>2
  <2>2. e.stack[0] = text[0 + 1] /\ (point => e.stack[1] = text[1 + 1])
    BY <1>3, <2>1
  <2> QED BY <1>2, <2>2
<1>6. MantissaShown(e.stack, m)
  <2>1. FiguresIn(e.stack, 0, <<k>>)
    <3>1. Len(<<k>>) = 1 /\ <<k>>[1] = k
      OBVIOUS
    <3>2. \A i \in 1..1 : i = 1 /\ 0 + (i - 1) = 0
      OBVIOUS
    <3> QED BY <1>5, <3>1, <3>2 DEF FiguresIn, ch
  <2>2. FiguresIn(e.stack, 1 + 1, <<>>)
    BY DEF FiguresIn
  <2> QED BY <1>4, <1>5, <2>1, <2>2 DEF MantissaShown
<1>7. e.index = EndOf(m) + (IF m.exp.on THEN 2 + EXP_DIGITS ELSE 0)
  BY <1>2, <1>3, <1>4
<1>8. e.exp_entry = m.exp.on
  <2>1. m.exp.on = FALSE /\ e.exp_entry = FALSE
    BY <1>3, <1>4 DEF NoExponent, Display1
  <2> QED BY <2>1
<1> QED BY <1>3, <1>4, <1>6, <1>7, <1>8 DEF FloatShown, m

-----------------------------------------------------------------------------
(* Typing digits and the point *)

WithInt(m, int)   == [m EXCEPT !.int = int]
WithFrac(m, frac) == [m EXCEPT !.frac = frac]
WithPoint(m)      == [m EXCEPT !.point = TRUE]

\* The parts of a number with one part changed.
LEMMA WithFacts ==
  ASSUME NEW m \in Decimals, NEW q \in Seq(0..9)
  PROVE  /\ WithInt(m, q) \in Decimals /\ WithFrac(m, q) \in Decimals /\ WithPoint(m) \in Decimals
         /\ WithInt(m, q).neg = m.neg /\ WithInt(m, q).int = q /\ WithInt(m, q).point = m.point
         /\ WithInt(m, q).frac = m.frac /\ WithInt(m, q).exp = m.exp
         /\ WithFrac(m, q).neg = m.neg /\ WithFrac(m, q).int = m.int /\ WithFrac(m, q).point = m.point
         /\ WithFrac(m, q).frac = q /\ WithFrac(m, q).exp = m.exp
         /\ WithPoint(m).neg = m.neg /\ WithPoint(m).int = m.int /\ WithPoint(m).point = TRUE
         /\ WithPoint(m).frac = m.frac /\ WithPoint(m).exp = m.exp
BY DEF WithInt, WithFrac, WithPoint, Decimals

\* A character behind the mantissa: what is shown when the new mantissa is.
LEMMA FloatPushed ==
  ASSUME NEW c \in Configs, NEW m, NEW d, FloatShown(d, m, c), ~m.exp.on,
         NEW ch \in Chars \ {NUL}, NEW limit \in Nat, limit <= DISP_MAX_LEN, d.index < limit,
         NEW e, e = disp_stack_push(d, ch, limit),
         NEW w, Readable(w, c), w.exp = m.exp, EndOf(w) = EndOf(m) + 1,
         SameTo(d.stack, e.stack, EndOf(m)) /\ e.stack[EndOf(m)] = ch => MantissaShown(e.stack, w)
  PROVE  FloatShown(e, w, c) /\ e.index = d.index + 1
<1>1. /\ d \in Display1 /\ Terminated(d) /\ ~d.error /\ Readable(m, c) /\ d.exp_entry = m.exp.on
  BY DEF FloatShown
<1>2. EndOf(m) \in Nat \ {0} /\ DISP_MAX_LEN \in Nat /\ DISP_STACK_SIZE = DISP_MAX_LEN + 1
  BY <1>1, DecimalFacts
<1>3. d.index = EndOf(m)
  <2>1. d.index = EndOf(m) + 0
    BY DEF FloatShown
  <2> QED BY <1>2, <2>1
<1>4. Clean(d)
  BY <1>1, <1>2, CleanTerminated
<1>5. /\ e \in Display1 /\ Clean(e) /\ e.index = d.index + 1
      /\ e.stack[d.index] = ch /\ SameBelow(e, d, d.index)
  BY <1>1, <1>2, <1>4, PushFacts
<1>6. Terminated(e)
  <2>1. e.index # 0
    BY <1>2, <1>3, <1>5
  <2> QED BY <1>2, <1>5, <2>1, CleanTerminated
<1>7. SameTo(d.stack, e.stack, EndOf(m)) /\ e.stack[EndOf(m)] = ch
  BY <1>3, <1>5 DEF SameBelow, SameTo
<1>8. ~e.error /\ e.exp_entry = d.exp_entry
  BY <1>1, <1>5 DEF SameBelow
<1>9. e.index = EndOf(w) + (IF w.exp.on THEN 2 + EXP_DIGITS ELSE 0)
  <2>1. ~w.exp.on
    OBVIOUS
  <2>2. e.index = EndOf(w) /\ EndOf(w) \in Nat
    BY <1>2, <1>3, <1>5
  <2> QED BY <2>1, <2>2
<1> QED BY <1>1, <1>5, <1>6, <1>7, <1>8, <1>9 DEF FloatShown

\* Where the parts of a readable number end, and how its digits count.
LEMMA PartFacts ==
  ASSUME NEW c \in Configs, NEW m, Readable(m, c)
  PROVE  /\ m \in Decimals /\ m.int \in Seq(0..9) /\ m.frac \in Seq(0..9) /\ m.int # <<>>
         /\ m.neg \in BOOLEAN /\ m.point \in BOOLEAN /\ m.exp \in [on : BOOLEAN, neg : BOOLEAN, n : Nat]
         /\ m.point => EndOf(m) = (PointAt(m) + 1) + Len(m.frac)
         /\ ~m.point => EndOf(m) = PointAt(m) /\ m.frac = <<>> /\ Count(m) = Len(m.int)
         /\ PointAt(m) = From(m) + Len(m.int)
         /\ m.point /\ m.int # <<0>> => Count(m) = Len(m.int) + Len(m.frac)
         /\ m.point /\ m.int = <<0>> => Count(m) = Len(m.frac)
         /\ m.int # <<0>> => m.int[1] # 0
<1>1. /\ m \in Decimals /\ m.int \in Seq(0..9) /\ m.frac \in Seq(0..9) /\ m.int # <<>>
      /\ m.neg \in BOOLEAN /\ m.point \in BOOLEAN /\ (~m.point => m.frac = <<>>)
      /\ m.exp \in [on : BOOLEAN, neg : BOOLEAN, n : Nat]
  BY DEF Readable, Decimals
<1> DEFINE p == PointAt(m)
           n == Len(m.int)
           k == Len(m.frac)
<1>2. p \in Nat /\ n \in Nat /\ k \in Nat
  BY DecimalFacts
<1>3. m.point => EndOf(m) = p + (1 + k)
  BY DEF EndOf
<1>4. ~m.point => EndOf(m) = p + 0 /\ Count(m) = k + n
  BY DEF EndOf, Count
<1>5. p = From(m) + n
  BY DEF PointAt
<1>6. /\ m.point /\ m.int # <<0>> => Count(m) = k + n
      /\ m.point /\ m.int = <<0>> => Count(m) = k + 0
  BY DEF Count
<1>7. ~m.point => k = 0
  BY <1>1
<1>8. m.int # <<0>> => m.int[1] # 0
  <2> SUFFICES ASSUME m.int[1] = 0 PROVE m.int = <<0>>
    OBVIOUS
  <2>1. Len(m.int) = 1
    BY DEF Readable
  <2> QED BY <1>1, <2>1
<1> HIDE DEF p, n, k
<1>9. m.point => EndOf(m) = (p + 1) + k
  <2>1. p + (1 + k) = (p + 1) + k
    BY <1>2
  <2> QED BY <1>3, <2>1
<1>10. ~m.point => EndOf(m) = p /\ Count(m) = n
  <2>1. p + 0 = p /\ 0 + n = n
    BY <1>2
  <2> QED BY <1>4, <1>7, <2>1
<1>11. k + n = n + k /\ k + 0 = k
  BY <1>2
<1> QED BY <1>1, <1>5, <1>6, <1>8, <1>9, <1>10, <1>11 DEF p, n, k

\* One more digit after the point.
LEMMA FracAppended ==
  ASSUME NEW c \in Configs, NEW m, Readable(m, c), m.point, NEW k \in 0..9, Count(m) < c.digits,
         NEW w, w = WithFrac(m, Append(m.frac, k))
  PROVE  /\ Readable(w, c) /\ w.exp = m.exp /\ EndOf(w) = EndOf(m) + 1
         /\ \A s, t : MantissaShown(s, m) /\ SameTo(s, t, EndOf(m)) /\ t[EndOf(m)] = Digit[k + 1]
                        => MantissaShown(t, w)
<1> DEFINE q == Append(m.frac, k)
<1>1. /\ m \in Decimals /\ m.frac \in Seq(0..9) /\ m.int # <<>>
      /\ EndOf(m) = (PointAt(m) + 1) + Len(m.frac)
      /\ Count(m) = (IF m.int = <<0>> THEN Len(m.frac) ELSE Len(m.int) + Len(m.frac))
      /\ PointAt(m) \in Nat /\ Len(m.frac) \in Nat /\ Len(m.int) \in Nat /\ c.digits \in Nat
  BY PartFacts, DecimalFacts
<1>2. q \in Seq(0..9) /\ Len(q) = Len(m.frac) + 1
  BY <1>1
<1> HIDE DEF q
<1>3. /\ w \in Decimals /\ w.neg = m.neg /\ w.int = m.int /\ w.point = m.point /\ w.frac = q /\ w.exp = m.exp
  BY <1>1, <1>2, WithFacts DEF q
<1>4. From(w) = From(m) /\ PointAt(w) = PointAt(m)
  BY <1>3 DEF From, PointAt
<1>5. EndOf(w) = EndOf(m) + 1
  <2> DEFINE p == PointAt(m)
             n == Len(m.frac)
  <2>1. EndOf(w) = p + (1 + (n + 1)) /\ EndOf(m) = (p + 1) + n /\ p \in Nat /\ n \in Nat
    BY <1>1, <1>2, <1>3, <1>4 DEF EndOf
  <2> HIDE DEF p, n
  <2> QED BY <2>1
<1>6. Count(w) <= c.digits
  <2> DEFINE n == Len(m.frac)
             j == Len(m.int)
             z == IF m.int = <<0>> THEN 0 ELSE j
  <2>1. Count(w) = (n + 1) + z
    BY <1>2, <1>3 DEF Count
  <2>2. Count(m) = n + z /\ n \in Nat /\ z \in Nat /\ n + z < c.digits /\ c.digits \in Nat
    <3>1. CASE m.int = <<0>>
      <4>1. Count(m) = n /\ n \in Nat /\ z = 0 /\ c.digits \in Nat
        BY <1>1, <3>1
      <4> HIDE DEF n, z
      <4>2. n = n + z
        BY <4>1
      <4> QED BY <4>1, <4>2
    <3>2. CASE m.int # <<0>>
      <4>1. Count(m) = j + n /\ n \in Nat /\ z = j /\ j \in Nat /\ c.digits \in Nat
        BY <1>1, <3>2
      <4> HIDE DEF n, j, z
      <4>2. j + n = n + z
        BY <4>1
      <4> QED BY <4>1, <4>2
    <3> QED BY <3>1, <3>2
  <2> HIDE DEF n, z
  <2> QED BY <2>1, <2>2
<1>7. Readable(w, c)
  BY <1>3, <1>6 DEF Readable
<1>8. ASSUME NEW s, NEW t, MantissaShown(s, m), SameTo(s, t, EndOf(m)), t[EndOf(m)] = Digit[k + 1]
      PROVE  MantissaShown(t, w)
  <2>1. MantissaShown(t, m)
    BY <1>8, MantissaKept
  <2>2. FiguresIn(t, PointAt(m) + 1, m.frac)
    BY <2>1 DEF MantissaShown
  <2>3. FiguresIn(t, PointAt(m) + 1, q)
    <3> DEFINE p == PointAt(m) + 1
    <3>1. p \in Nat /\ EndOf(m) = p + Len(m.frac) /\ FiguresIn(t, p, m.frac)
      BY <1>1, <2>2
    <3> HIDE DEF p
    <3>2. FiguresIn(t, p, Append(m.frac, k))
      BY <1>1, <1>8, <3>1, FiguresAppended
    <3> QED BY <3>2 DEF p, q
  <2> QED BY <1>3, <1>4, <2>1, <2>3 DEF MantissaShown
<1> QED BY <1>3, <1>5, <1>7, <1>8

\* One more digit before the point.
LEMMA IntAppended ==
  ASSUME NEW c \in Configs, NEW m, Readable(m, c), ~m.point, m.int # << 0 >>, NEW k \in 0..9,
         Count(m) < c.digits, NEW w, w = WithInt(m, Append(m.int, k))
  PROVE  /\ Readable(w, c) /\ w.exp = m.exp /\ EndOf(w) = EndOf(m) + 1
         /\ \A s, t : MantissaShown(s, m) /\ SameTo(s, t, EndOf(m)) /\ t[EndOf(m)] = Digit[k + 1]
                        => MantissaShown(t, w)
<1> DEFINE q == Append(m.int, k)
<1>1. /\ m \in Decimals /\ m.int \in Seq(0..9) /\ m.int # <<>> /\ m.frac = <<>> /\ m.int[1] # 0
      /\ EndOf(m) = PointAt(m) /\ PointAt(m) = From(m) + Len(m.int)
      /\ Count(m) = Len(m.int)
      /\ From(m) \in Nat /\ Len(m.int) \in Nat \ {0} /\ c.digits \in Nat
  BY PartFacts, DecimalFacts
<1>2. q \in Seq(0..9) /\ Len(q) = Len(m.int) + 1 /\ q # <<>> /\ q[1] = m.int[1]
  <2>1. Len(m.int) \in Nat \ {0} /\ m.int \in Seq(0..9)
    BY <1>1
  <2>2. q \in Seq(0..9) /\ Len(q) = Len(m.int) + 1 /\ q[1] = m.int[1]
    BY <2>1
  <2> QED BY <2>1, <2>2, EmptySeq
<1> HIDE DEF q
<1>3. /\ w \in Decimals /\ w.neg = m.neg /\ w.int = q /\ w.point = m.point /\ w.frac = m.frac /\ w.exp = m.exp
  <2>1. w = WithInt(m, q)
    BY DEF q
  <2>2. /\ WithInt(m, q) \in Decimals
        /\ WithInt(m, q).neg = m.neg /\ WithInt(m, q).int = q /\ WithInt(m, q).point = m.point
        /\ WithInt(m, q).frac = m.frac /\ WithInt(m, q).exp = m.exp
    <3>1. m \in Decimals /\ q \in Seq(0..9)
      BY <1>1, <1>2
    <3> QED BY <3>1, WithFacts, ZenonT(60)
  <2> QED BY <2>1, <2>2
<1>4. From(w) = From(m)
  BY <1>3 DEF From
<1> DEFINE f == From(m)
           n == Len(m.int)
<1>5. EndOf(w) = EndOf(m) + 1
  <2>1. EndOf(w) = (f + (n + 1)) + 0 /\ EndOf(m) = f + n /\ f \in Nat /\ n \in Nat
    BY <1>1, <1>2, <1>3, <1>4 DEF EndOf, PointAt
  <2> HIDE DEF f, n
  <2> QED BY <2>1
<1>6. Count(w) <= c.digits
  <2>1. Count(w) = 0 + (n + 1)
    <3>1. Len(m.frac) = 0
      BY <1>1
    <3> QED BY <1>2, <1>3, <3>1 DEF Count
  <2>2. n < c.digits /\ n \in Nat /\ c.digits \in Nat
    BY <1>1
  <2> HIDE DEF n
  <2> QED BY <2>1, <2>2
<1>7. Readable(w, c)
  BY <1>1, <1>2, <1>3, <1>6 DEF Readable
<1>8. ASSUME NEW s, NEW t, MantissaShown(s, m), SameTo(s, t, EndOf(m)), t[EndOf(m)] = Digit[k + 1]
      PROVE  MantissaShown(t, w)
  <2>1. MantissaShown(t, m)
    BY <1>8, MantissaKept
  <2>2. FiguresIn(t, From(m), m.int)
    BY <2>1 DEF MantissaShown
  <2>3. FiguresIn(t, From(m), q)
    <3>1. EndOf(m) = From(m) + Len(m.int)
      BY <1>1
    <3>2. FiguresIn(t, From(m), Append(m.int, k))
      BY <1>1, <1>8, <2>2, <3>1, FiguresAppended
    <3> QED BY <3>2 DEF q
  <2> QED BY <1>3, <1>4, <2>1, <2>3 DEF MantissaShown
<1> QED BY <1>3, <1>5, <1>7, <1>8

\* The point.
LEMMA PointAppended ==
  ASSUME NEW c \in Configs, NEW m, Readable(m, c), ~m.point, Count(m) < c.digits,
         NEW w, w = WithPoint(m)
  PROVE  /\ Readable(w, c) /\ w.exp = m.exp /\ EndOf(w) = EndOf(m) + 1
         /\ \A s, t : MantissaShown(s, m) /\ SameTo(s, t, EndOf(m)) /\ t[EndOf(m)] = "."
                        => MantissaShown(t, w)
<1>1. /\ m \in Decimals /\ m.int \in Seq(0..9) /\ m.int # <<>> /\ m.frac = <<>>
      /\ EndOf(m) = PointAt(m) /\ Count(m) = Len(m.int) /\ PointAt(m) \in Nat
      /\ Len(m.int) \in Nat \ {0} /\ c.digits \in Nat
  BY PartFacts, DecimalFacts
<1>2. Len(m.frac) = 0
  BY <1>1
<1>3. /\ w \in Decimals /\ w.neg = m.neg /\ w.int = m.int /\ w.point = TRUE /\ w.frac = m.frac /\ w.exp = m.exp
  <2>1. <<>> \in Seq(0..9)
    OBVIOUS
  <2> QED BY <1>1, <2>1, WithFacts
<1>4. From(w) = From(m) /\ PointAt(w) = PointAt(m)
  BY <1>3 DEF From, PointAt
<1>5. EndOf(w) = EndOf(m) + 1
  <2>1. EndOf(w) = PointAt(m) + (1 + 0)
    BY <1>2, <1>3, <1>4 DEF EndOf
  <2> QED BY <1>1, <2>1
<1>6. Count(w) <= c.digits
  <2>1. Count(w) = 0 + 0 \/ Count(w) = 0 + Len(m.int)
    BY <1>2, <1>3 DEF Count
  <2>2. Len(m.int) < c.digits
    BY <1>1
  <2> QED BY <1>1, <2>1, <2>2
<1>7. Readable(w, c)
  BY <1>1, <1>3, <1>6 DEF Readable
<1>8. ASSUME NEW s, NEW t, MantissaShown(s, m), SameTo(s, t, EndOf(m)), t[EndOf(m)] = "."
      PROVE  MantissaShown(t, w)
  <2>1. MantissaShown(t, m)
    BY <1>8, MantissaKept
  <2>2. FiguresIn(t, PointAt(m) + 1, w.frac)
    BY <1>2, <1>3 DEF FiguresIn
  <2> QED BY <1>1, <1>3, <1>4, <1>8, <2>1, <2>2 DEF MantissaShown
<1> QED BY <1>3, <1>5, <1>7, <1>8

\* CharLimit is on the display and leaves room for one digit.
LEMMA LimitBounds ==
  ASSUME NEW c \in Configs, c.mode = "float", NEW d, NEW limit, limit = CharLimit(d, c)
  PROVE  /\ limit \in Nat /\ limit <= DISP_MAX_LEN
         /\ 0 < limit
         /\ d.stack[0] = "-" => 1 < limit
<1>1. /\ c.digits \in Nat \ {0} /\ c.digits + 3 + (2 + EXP_DIGITS) <= DISP_MAX_LEN
      /\ DISP_MAX_LEN \in Nat /\ EXP_DIGITS \in Nat \ {0}
  BY SettingsFacts, SizesAssumption
<1> DEFINE first == IF d.stack[0] = "-" THEN 1 ELSE 0
           extra == IF HasPoint(d) THEN (IF d.stack[first] = "0" THEN 2 ELSE 1) ELSE 0
<1>2. limit = c.digits + first + extra
  BY DEF CharLimit, FloatLimit
<1>3. first \in 0..1 /\ extra \in 0..2 /\ (d.stack[0] = "-" => first = 1)
  OBVIOUS
<1> HIDE DEF first, extra
<1> QED BY <1>1, <1>2, <1>3

\* A lone zero is replaced by the digit, behind the same sign.
LEMMA ZeroFigure ==
  ASSUME NEW c \in Configs, c.mode = "float", NEW m, NEW d, FloatShown(d, m, c),
         ~m.exp.on, ~m.point, m.int = << 0 >>, NEW k \in 0..9,
         NEW room, room = disp_stack_pop(d),
         NEW e, e = disp_stack_push(room, Digit[k + 1], CharLimit(room, c)),
         NEW w, w = WithInt(m, <<k>>)
  PROVE  FloatShown(e, w, c) /\ e.index = d.index
<1> DEFINE ch == Digit[k + 1]
           f == From(m)
<1>1. /\ d \in Display1 /\ Terminated(d) /\ ~d.error /\ Readable(m, c) /\ d.exp_entry = m.exp.on
      /\ MantissaShown(d.stack, m)
  BY DEF FloatShown
<1>2. /\ m \in Decimals /\ m.frac = <<>> /\ EndOf(m) = f + 1 /\ f \in Nat /\ f <= 1
      /\ DISP_MAX_LEN \in Nat /\ DISP_STACK_SIZE = DISP_MAX_LEN + 1 /\ m.neg \in BOOLEAN
  <2>1. EndOf(m) = f + Len(m.int) /\ Len(m.int) = 1
    <3>1. PointAt(m) = From(m) + Len(m.int) /\ EndOf(m) = PointAt(m)
      BY <1>1, PartFacts
    <3>2. Len(m.int) = 1
      OBVIOUS
    <3> QED BY <3>1, <3>2
  <2> QED BY <1>1, <2>1, PartFacts, DecimalFacts
<1>3. d.index = f + 1
  <2>1. d.index = EndOf(m) + 0
    BY DEF FloatShown
  <2> QED BY <1>2, <2>1
<1>4. /\ room \in Display1 /\ Clean(room) /\ room.index = f /\ SameBelow(room, d, f)
  <2>1. Clean(d) /\ d.index # 0
    BY <1>1, <1>2, CleanTerminated
  <2>2. /\ room \in Display1 /\ Clean(room) /\ room.index = d.index - 1 /\ SameBelow(room, d, d.index - 1)
    BY <1>1, <1>2, <2>1, PopFacts
  <2>3. d.index - 1 = f
    BY <1>2, <1>3
  <2> QED BY <2>2, <2>3
<1>5. f = 1 <=> m.neg
  BY <1>2 DEF From
<1>6. m.neg => room.stack[0] = "-"
  <2> SUFFICES ASSUME m.neg PROVE room.stack[0] = "-"
    OBVIOUS
  <2>1. d.stack[0] = "-" /\ 0 \in 0..(f - 1)
    BY <1>1, <1>5 DEF MantissaShown
  <2> QED BY <1>4, <2>1 DEF SameBelow
<1> DEFINE limit == CharLimit(room, c)
<1>7. limit \in Nat /\ limit <= DISP_MAX_LEN /\ room.index < limit
  <2>1. limit \in Nat /\ limit <= DISP_MAX_LEN /\ 0 < limit /\ (room.stack[0] = "-" => 1 < limit)
    BY LimitBounds
  <2> HIDE DEF limit
  <2>2. CASE m.neg
    BY <1>4, <1>5, <1>6, <2>1, <2>2
  <2>3. CASE ~m.neg
    BY <1>2, <1>4, <1>5, <2>1, <2>3
  <2> QED BY <2>2, <2>3
<1>8. ch \in Chars \ {NUL}
  <2>1. k \in 0..15
    OBVIOUS
  <2> QED BY <2>1, DigitValues, Signs DEF Chars
<1>9. /\ e \in Display1 /\ Clean(e) /\ e.index = f + 1 /\ e.stack[f] = ch /\ SameBelow(e, room, f)
  <2>1. e = disp_stack_push(room, ch, limit)
    OBVIOUS
  <2> HIDE DEF limit, ch
  <2>2. /\ e \in Display1 /\ Clean(e) /\ e.index = room.index + 1 /\ e.stack[room.index] = ch
        /\ SameBelow(e, room, room.index)
    BY <1>2, <1>4, <1>7, <1>8, <2>1, PushFacts
  <2> QED BY <1>4, <2>2
<1> HIDE DEF ch, limit
<1>10. /\ w \in Decimals /\ w.neg = m.neg /\ w.int = <<k>> /\ w.point = m.point /\ w.frac = m.frac /\ w.exp = m.exp
  <2>1. <<k>> \in Seq(0..9)
    OBVIOUS
  <2> QED BY <1>2, <2>1, WithFacts
<1>11. Len(w.int) = 1 /\ w.int # <<>> /\ Len(w.frac) = 0
  <2>1. Len(<<k>>) = 1 /\ <<k>> # <<>> /\ Len(<<>>) = 0
    OBVIOUS
  <2>2. w.frac = <<>>
    BY <1>2, <1>10
  <2> QED BY <1>10, <2>1, <2>2
<1>12. Readable(w, c)
  <2>1. Count(w) = 0 + 1
    BY <1>10, <1>11 DEF Count
  <2>2. Count(w) <= c.digits
    BY <2>1, SettingsFacts
  <2> QED BY <1>1, <1>10, <1>11, <2>2 DEF Readable
<1>13. From(w) = f /\ EndOf(w) = f + 1
  <2>1. From(w) = f
    BY <1>10 DEF From
  <2>2. EndOf(w) = (f + 1) + 0
    BY <1>10, <1>11, <2>1 DEF EndOf, PointAt
  <2> QED BY <1>2, <2>1, <2>2
<1>14. MantissaShown(e.stack, w)
  <2>1. FiguresIn(e.stack, f, <<k>>)
    <3>1. Len(<<k>>) = 1 /\ <<k>>[1] = k
      OBVIOUS
    <3>2. \A i \in 1..1 : i = 1 /\ f + (i - 1) = f
      BY <1>2
    <3> QED BY <1>9, <3>1, <3>2 DEF FiguresIn, ch
  <2>2. ASSUME m.neg PROVE e.stack[0] = "-"
    <3>1. 0 \in 0..(f - 1)
      BY <1>5, <2>2
    <3> QED BY <1>6, <1>9, <2>2, <3>1 DEF SameBelow
  <2> QED BY <1>10, <1>13, <2>1, <2>2 DEF MantissaShown
<1>15. Terminated(e)
  <2>1. e.index # 0
    BY <1>2, <1>9
  <2> QED BY <1>2, <1>9, <2>1, CleanTerminated
<1>16. ~e.error /\ e.exp_entry = w.exp.on
  BY <1>1, <1>4, <1>9, <1>10 DEF SameBelow
<1>17. e.index = EndOf(w) + (IF w.exp.on THEN 2 + EXP_DIGITS ELSE 0)
  <2>1. ~w.exp.on
    BY <1>10
  <2>2. e.index = EndOf(w) /\ EndOf(w) \in Nat
    BY <1>2, <1>9, <1>13
  <2> QED BY <2>1, <2>2
<1>18. ~w.exp.on
  BY <1>10
<1> QED BY <1>3, <1>9, <1>12, <1>14, <1>15, <1>16, <1>17, <1>18 DEF FloatShown

WithFigure(m, k, c) ==
  IF ~m.point /\ m.int = <<0>> THEN WithInt(m, <<k>>)
  ELSE IF Count(m) >= c.digits THEN m
  ELSE IF m.point THEN WithFrac(m, Append(m.frac, k))
  ELSE WithInt(m, Append(m.int, k))

\* A digit key adds a figure unless the number has all its digits, or replaces a lone
\* zero.
LEMMA AddFigure ==
  ASSUME NEW c \in Configs, c.mode = "float", NEW m, NEW d, FloatShown(d, m, c), ~m.exp.on,
         NEW k \in 0..9, NEW e, e = display_add(d, Digit[k + 1], c)
  PROVE  /\ FloatShown(e, WithFigure(m, k, c), c)
         /\ d.index < e.index <=> Count(m) < c.digits /\ ~LoneZero(d)
<1> DEFINE ch == Digit[k + 1]
<1>1. /\ d \in Display1 /\ ~d.error /\ Readable(m, c) /\ d.exp_entry = m.exp.on /\ MantissaShown(d.stack, m)
      /\ d.index \in Nat
  BY DEF FloatShown, Display1
<1>2. /\ ch \in Chars \ {NUL} /\ ch # "." /\ (ch = "0" <=> k = 0)
  <2>1. k \in 0..15
    OBVIOUS
  <2>2. ch \in Range(Digit) /\ DigitValue[ch] = k
    BY <2>1, DigitValues
  <2>3. Digit[0 + 1] = "0" /\ DigitValue[Digit[0 + 1]] = 0
    BY DigitValues, Signs
  <2>4. ch = "0" <=> k = 0
    BY <2>2, <2>3
  <2> QED BY <2>2, <2>4, Signs DEF Chars
<1>3. LoneZero(d) <=> ~m.point /\ m.int = <<0>>
  BY LoneZeroFacts
<1>4. Refused(d, ch, c) <=> LoneZero(d) /\ k = 0
  BY <1>2 DEF Refused
<1>5. e = IF LoneZero(d) /\ k = 0 THEN d ELSE Pushed(d, ch, c)
  <2>1. ~d.exp_entry
    BY <1>1
  <2>2. CASE Refused(d, ch, c)
    BY <1>4, <2>1, <2>2 DEF display_add
  <2>3. CASE ~Refused(d, ch, c)
    <3>1. e = update_display(Pushed(d, ch, c), c)
      BY <2>1, <2>3 DEF display_add
    <3> QED BY <1>4, <2>3, <3>1, UpdateFloat
  <2> QED BY <2>2, <2>3
<1>6. /\ m \in Decimals /\ m.int \in Seq(0..9) /\ m.frac \in Seq(0..9) /\ Count(m) \in Nat /\ c.digits \in Nat
  BY <1>1, PartFacts, DecimalFacts
<1>7. CASE LoneZero(d) /\ k = 0
  <2>1. WithFigure(m, k, c) = m
    <3>1. WithFigure(m, k, c) = WithInt(m, m.int)
      BY <1>3, <1>7 DEF WithFigure
    <3>2. WithInt(m, m.int) = m
      BY <1>6 DEF WithInt, Decimals
    <3> QED BY <3>1, <3>2
  <2>2. e = d
    BY <1>5, <1>7
  <2> QED BY <1>1, <1>7, <2>1, <2>2
<1>8. CASE LoneZero(d) /\ k # 0
  <2>1. e = disp_stack_push(disp_stack_pop(d), ch, CharLimit(disp_stack_pop(d), c))
    BY <1>2, <1>5, <1>8 DEF Pushed
  <2>2. WithFigure(m, k, c) = WithInt(m, <<k>>)
    BY <1>3, <1>8 DEF WithFigure
  <2>3. FloatShown(e, WithInt(m, <<k>>), c) /\ e.index = d.index
    BY <1>3, <1>8, <2>1, ZeroFigure
  <2> QED BY <1>1, <1>8, <2>2, <2>3
<1>9. CASE ~LoneZero(d)
  <2> DEFINE limit == CharLimit(d, c)
  <2>1. e = disp_stack_push(d, ch, limit)
    BY <1>5, <1>9 DEF Pushed
  <2>2. limit \in Nat /\ limit <= DISP_MAX_LEN /\ (d.index < limit <=> Count(m) < c.digits)
    BY RoomFacts
  <2> HIDE DEF limit, ch
  <2>3. CASE ~(Count(m) < c.digits)
    <3>1. e = d
      BY <2>1, <2>2, <2>3 DEF disp_stack_push
    <3>2. WithFigure(m, k, c) = m
      BY <1>3, <1>6, <1>9, <2>3 DEF WithFigure
    <3> QED BY <1>1, <2>3, <3>1, <3>2
  <2>4. CASE Count(m) < c.digits
    <3> DEFINE w == WithFigure(m, k, c)
    <3>1. /\ Readable(w, c) /\ w.exp = m.exp /\ EndOf(w) = EndOf(m) + 1
          /\ \A s, t : MantissaShown(s, m) /\ SameTo(s, t, EndOf(m)) /\ t[EndOf(m)] = Digit[k + 1]
                        => MantissaShown(t, w)
      <4>1. CASE m.point
        <5>1. w = WithFrac(m, Append(m.frac, k))
          BY <1>3, <1>6, <1>9, <2>4, <4>1 DEF WithFigure
        <5> HIDE DEF w
        <5> QED BY <1>1, <2>4, <4>1, <5>1, FracAppended
      <4>2. CASE ~m.point
        <5>1. w = WithInt(m, Append(m.int, k)) /\ m.int # <<0>>
          BY <1>3, <1>6, <1>9, <2>4, <4>2 DEF WithFigure
        <5> HIDE DEF w
        <5> QED BY <1>1, <2>4, <4>2, <5>1, IntAppended
      <4> QED BY <4>1, <4>2
    <3> HIDE DEF w
    <3>2. SameTo(d.stack, e.stack, EndOf(m)) /\ e.stack[EndOf(m)] = ch => MantissaShown(e.stack, w)
      BY <1>1, <3>1 DEF ch
    <3>3. FloatShown(e, w, c) /\ e.index = d.index + 1
      BY <1>2, <2>1, <2>2, <2>4, <3>1, <3>2, FloatPushed
    <3> QED BY <1>1, <1>9, <2>4, <3>3 DEF w
  <2> QED BY <2>3, <2>4
<1> QED BY <1>7, <1>8, <1>9

\* The point is added unless the digits before it fill the display.
LEMMA AddPoint ==
  ASSUME NEW c \in Configs, c.mode = "float", NEW m, NEW d, FloatShown(d, m, c), ~m.exp.on,
         NEW e, e = display_add(d, ".", c)
  PROVE  FloatShown(e, IF Len(m.int) >= c.digits THEN m ELSE WithPoint(m), c)
<1> DEFINE w == IF Len(m.int) >= c.digits THEN m ELSE WithPoint(m)
<1>1. /\ d \in Display1 /\ ~d.error /\ Readable(m, c) /\ d.exp_entry = m.exp.on /\ MantissaShown(d.stack, m)
  BY DEF FloatShown
<1>2. HasPoint(d) <=> m.point
  BY PointFacts
<1>3. "." # "0" /\ "." \in Chars \ {NUL}
  BY Signs DEF Chars, NUL
<1>4. Refused(d, ".", c) <=> m.point
  BY <1>2, <1>3 DEF Refused
<1>5. m \in Decimals /\ Len(m.int) \in Nat /\ c.digits \in Nat
  BY <1>1, PartFacts, DecimalFacts
<1>6. CASE m.point
  <2>1. e = d
    BY <1>1, <1>4, <1>6 DEF display_add
  <2>2. WithPoint(m) = m
    <3>1. m.point = TRUE
      BY <1>5, <1>6 DEF Decimals
    <3> QED BY <1>5, <3>1 DEF WithPoint, Decimals
  <2> QED BY <2>1, <2>2
<1>7. CASE ~m.point
  <2> DEFINE limit == CharLimit(d, c)
  <2>1. e = disp_stack_push(d, ".", limit)
    <3>1. e = update_display(Pushed(d, ".", c), c)
      BY <1>1, <1>4, <1>7 DEF display_add
    <3> QED BY <3>1, UpdateFloat DEF Pushed
  <2>2. limit \in Nat /\ limit <= DISP_MAX_LEN /\ (d.index < limit <=> Count(m) < c.digits)
    BY RoomFacts
  <2>3. Count(m) = Len(m.int)
    BY <1>1, <1>7, PartFacts
  <2> HIDE DEF limit
  <2>4. CASE ~(Count(m) < c.digits)
    <3>1. e = d /\ w = m
      BY <1>5, <2>1, <2>2, <2>3, <2>4 DEF disp_stack_push
    <3> QED BY <3>1
  <2>5. CASE Count(m) < c.digits
    <3>1. w = WithPoint(m)
      BY <1>5, <2>3, <2>5
    <3> HIDE DEF w
    <3>2. /\ Readable(w, c) /\ w.exp = m.exp /\ EndOf(w) = EndOf(m) + 1
          /\ \A s, t : MantissaShown(s, m) /\ SameTo(s, t, EndOf(m)) /\ t[EndOf(m)] = "."
                        => MantissaShown(t, w)
      BY <1>1, <1>7, <2>5, <3>1, PointAppended
    <3>3. SameTo(d.stack, e.stack, EndOf(m)) /\ e.stack[EndOf(m)] = "." => MantissaShown(e.stack, w)
      BY <1>1, <3>2
    <3>4. FloatShown(e, w, c)
      BY <1>3, <2>1, <2>2, <2>5, <3>2, <3>3, FloatPushed
    <3> QED BY <3>4 DEF w
  <2> QED BY <2>4, <2>5
<1> QED BY <1>6, <1>7

-----------------------------------------------------------------------------
(* The exponent *)

WithExponent(m, x) == [m EXCEPT !.exp = x]

\* The exponent is behind the mantissa and no part of it.
LEMMA ExponentApart ==
  ASSUME NEW c \in Configs, NEW m, Readable(m, c),
         NEW x \in [on : BOOLEAN, neg : BOOLEAN, n : Nat], ~x.on => x = NoExponent,
         NEW w, w = WithExponent(m, x)
  PROVE  /\ Readable(w, c) /\ w.exp = x
         /\ From(w) = From(m) /\ PointAt(w) = PointAt(m) /\ EndOf(w) = EndOf(m)
         /\ \A s : MantissaShown(s, m) => MantissaShown(s, w)
<1>1. m \in Decimals
  BY DEF Readable
<1>2. /\ w \in Decimals /\ w.exp = x
      /\ w.neg = m.neg /\ w.int = m.int /\ w.point = m.point /\ w.frac = m.frac
  BY <1>1 DEF WithExponent, Decimals
<1>3. From(w) = From(m)
  BY <1>2 DEF From
<1>4. PointAt(w) = PointAt(m)
  BY <1>2, <1>3 DEF PointAt
<1>5. EndOf(w) = EndOf(m)
  BY <1>2, <1>4 DEF EndOf
<1>6. Count(w) = Count(m)
  BY <1>2 DEF Count
<1>7. Readable(w, c)
  BY <1>2, <1>6 DEF Readable
<1>8. \A s : MantissaShown(s, m) => MantissaShown(s, w)
  BY <1>2, <1>3, <1>4 DEF MantissaShown
<1> QED BY <1>2, <1>3, <1>4, <1>5, <1>7, <1>8

\* Where the exponent is.
LEMMA ExponentSlots ==
  ASSUME NEW c \in Configs, NEW m, NEW d, FloatShown(d, m, c), m.exp.on,
         NEW end, end = EndOf(m), NEW from, from = end + 2
  PROVE  /\ end \in Nat \ {0} /\ from \in Nat /\ d.index \in Nat /\ EXP_DIGITS \in Nat \ {0}
         /\ d.index - from = EXP_DIGITS /\ from < d.index /\ d.index <= DISP_MAX_LEN
         /\ d.index - EXP_DIGITS = from /\ d.index - EXP_DIGITS - 1 = end + 1
         /\ ExpSlots(d) = from..(d.index - 1)
         /\ DISP_MAX_LEN \in Nat
<1>1. Readable(m, c)
  BY DEF FloatShown
<1>2. end \in Nat \ {0} /\ EXP_DIGITS \in Nat \ {0} /\ end + 2 + EXP_DIGITS <= DISP_MAX_LEN /\ DISP_MAX_LEN \in Nat
  BY <1>1, DecimalFacts
<1>3. d.index = end + (2 + EXP_DIGITS)
  BY DEF FloatShown
<1> DEFINE i == d.index
           g == EXP_DIGITS
<1>4. ExpSlots(d) = (i - g)..(i - 1)
  BY DEF ExpSlots
<1>5. i = end + (2 + g) /\ g \in Nat \ {0} /\ end + 2 + g <= DISP_MAX_LEN
  BY <1>2, <1>3
<1> HIDE DEF i, g
<1>6. /\ from \in Nat /\ i \in Nat /\ i - from = g /\ from < i /\ i <= DISP_MAX_LEN
      /\ i - g = from /\ i - g - 1 = end + 1
  <2>1. from = end + 2 /\ end \in Nat /\ DISP_MAX_LEN \in Nat
    BY <1>2
  <2>2. from \in Nat /\ i \in Nat
    BY <1>5, <2>1
  <2>3. i - from = g /\ from < i /\ i <= DISP_MAX_LEN
    BY <1>5, <2>1
  <2>4. i - g = from /\ i - g - 1 = end + 1
    BY <1>5, <2>1
  <2> QED BY <2>2, <2>3, <2>4
<1> QED BY <1>2, <1>4, <1>6 DEF i, g

\* The text behind the "e" is edited.
LEMMA ExponentEdited ==
  ASSUME NEW c \in Configs, NEW m, NEW d, FloatShown(d, m, c), m.exp.on,
         NEW end, end = EndOf(m), NEW from, from = end + 2,
         NEW t \in [Slot -> Chars], NEW e, e = [d EXCEPT !.stack = t],
         NEW x \in [on : BOOLEAN, neg : BOOLEAN, n : Nat], x.on,
         \A i \in Slot : i <= end \/ i >= d.index => t[i] = d.stack[i],
         t[end + 1] = IF x.neg THEN "-" ELSE "+",
         DigitsIn(t, from, d.index, 10), Magnitude(e, from, d.index, 10) = x.n
  PROVE  FloatShown(e, WithExponent(m, x), c)
<1> DEFINE w == WithExponent(m, x)
<1>1. /\ d \in Display1 /\ ~d.error /\ Terminated(d) /\ Readable(m, c) /\ d.exp_entry = m.exp.on
      /\ d.index = EndOf(m) + (IF m.exp.on THEN 2 + EXP_DIGITS ELSE 0)
      /\ MantissaShown(d.stack, m) /\ ExponentShown(d, end, m.exp)
  BY DEF FloatShown
<1>2. /\ end \in Nat \ {0} /\ from \in Nat /\ d.index \in Nat /\ EXP_DIGITS \in Nat \ {0}
      /\ from < d.index /\ d.index <= DISP_MAX_LEN /\ DISP_MAX_LEN \in Nat
  BY ExponentSlots
<1>3. /\ Readable(w, c) /\ w.exp = x /\ EndOf(w) = EndOf(m)
      /\ \A s : MantissaShown(s, m) => MantissaShown(s, w)
  <2>1. ~x.on => x = NoExponent
    OBVIOUS
  <2> QED BY <1>1, <2>1, ExponentApart
<1>4. /\ e \in Display1 /\ e.stack = t /\ e.index = d.index /\ e.exp_entry = d.exp_entry
      /\ e.error = d.error
  BY <1>1 DEF Display1
<1>5. Terminated(e)
  <2> SUFFICES ASSUME NEW i \in Slot PROVE t[i] = NUL <=> i >= d.index
    BY <1>1, <1>4 DEF Terminated
  <2>1. CASE i <= end \/ i >= d.index
    BY <1>1, <2>1 DEF Terminated
  <2>2. CASE i = end + 1
    <3>1. t[i] # NUL
      BY <2>2 DEF NUL
    <3> QED BY <1>2, <2>2, <3>1
  <2>3. CASE i \in from..(d.index - 1)
    <3>1. t[i] \in Range(Digit)
      BY <2>3 DEF DigitsIn
    <3> QED BY <1>2, <2>3, <3>1, Signs
  <2> QED BY <1>2, <2>1, <2>2, <2>3 DEF Slot
<1>6. MantissaShown(t, w)
  <2>1. SameTo(d.stack, t, EndOf(m))
    <3>1. \A i \in 0..(end - 1) : i \in Slot /\ i <= end
      BY <1>2 DEF Slot
    <3> QED BY <3>1 DEF SameTo
  <2>2. MantissaShown(t, m)
    BY <1>1, <2>1, MantissaKept
  <2> QED BY <1>3, <2>2
<1>7. ExponentShown(e, end, x)
  <2>1. t[end] = "e"
    <3>1. end \in Slot /\ end <= end
      BY <1>2 DEF Slot
    <3>2. d.stack[end] = "e"
      BY <1>1 DEF ExponentShown
    <3> QED BY <3>1, <3>2
  <2> QED BY <1>4, <2>1 DEF ExponentShown
<1> HIDE DEF w
<1> QED BY <1>1, <1>3, <1>4, <1>5, <1>6, <1>7 DEF FloatShown, w

\* A digit is pushed into the exponent, and the first one falls out.
LEMMA ExponentDigit ==
  ASSUME NEW c \in Configs, c.mode = "float", NEW m, NEW d, FloatShown(d, m, c), m.exp.on,
         NEW k \in 0..9, NEW e, e = display_add(d, Digit[k + 1], c)
  PROVE  FloatShown(e, WithExponent(m, [m.exp EXCEPT !.n = LastDigits(@, k, 10, EXP_DIGITS)]), c)
<1> DEFINE end == EndOf(m)
           from == end + 2
           to == d.index
           ch == Digit[k + 1]
           t == [i \in Slot |-> IF i \notin ExpSlots(d) THEN d.stack[i]
                                ELSE IF i + 1 \in ExpSlots(d) THEN d.stack[i + 1] ELSE ch]
           e2 == [d EXCEPT !.stack = t]
<1>1. /\ d \in Display1 /\ ~d.error /\ Terminated(d) /\ Readable(m, c) /\ d.exp_entry = m.exp.on
      /\ MantissaShown(d.stack, m) /\ ExponentShown(d, end, m.exp)
      /\ d.stack \in [Slot -> Chars]
  BY DEF FloatShown, Display1
<1>2. /\ end \in Nat \ {0} /\ from \in Nat /\ to \in Nat /\ EXP_DIGITS \in Nat \ {0}
      /\ to - from = EXP_DIGITS /\ from < to /\ to <= DISP_MAX_LEN
      /\ ExpSlots(d) = from..(to - 1) /\ DISP_MAX_LEN \in Nat
  BY ExponentSlots
<1>3. k \in 0..15 /\ k < 10 /\ 10 \in Bases
  BY DEF Bases
<1>4. ch \in Chars \ {NUL} /\ ch # "."
  <2>1. ch \in Range(Digit)
    BY <1>3, DigitValues
  <2> QED BY <2>1, Signs DEF Chars
<1>5. e = e2
  <2>1. e = update_display(add_exponent(d, ch), c)
    BY <1>1 DEF display_add
  <2>2. e = add_exponent(d, ch)
    BY <2>1, UpdateFloat
  <2> QED BY <1>4, <2>2 DEF add_exponent
<1>6. t \in [Slot -> Chars]
  <2> SUFFICES ASSUME NEW i \in Slot, i \in ExpSlots(d), i + 1 \in ExpSlots(d) PROVE i + 1 \in Slot
    BY <1>1, <1>4
  <2> QED BY <1>2 DEF Slot
<1>7. e2.stack = t
  BY <1>1 DEF Display1
<1>8. \A i \in Slot : (i <= end + 1 \/ i >= to) => t[i] = d.stack[i]
  BY <1>2
<1>9. ShiftedLeft(d.stack, t, from, to, ch)
  <2>1. ASSUME NEW i \in from..(to - 2) PROVE t[i] = d.stack[i + 1]
    <3>1. i \in Slot /\ i \in ExpSlots(d) /\ i + 1 \in ExpSlots(d)
      BY <1>2 DEF Slot
    <3> QED BY <3>1
  <2>2. t[to - 1] = ch
    <3>1. to - 1 \in Slot /\ to - 1 \in ExpSlots(d) /\ (to - 1) + 1 \notin ExpSlots(d)
      BY <1>2 DEF Slot
    <3> QED BY <3>1
  <2> QED BY <2>1, <2>2 DEF ShiftedLeft
<1> HIDE DEF t
<1>10. DigitsIn(d.stack, from, to, 10) /\ Magnitude(d, from, to, 10) = m.exp.n
  BY <1>1 DEF ExponentShown
<1>11. PowersOf(10, EXP_DIGITS)
  BY PowersAssumption
<1> HIDE DEF end, from, to
<1>12. /\ DigitsIn(t, from, to, 10)
       /\ Magnitude(e2, from, to, 10) = LastDigits(m.exp.n, k, 10, EXP_DIGITS)
  <2> HIDE DEF e2
  <2>1. ShiftedLeft(d.stack, e2.stack, from, to, Digit[k + 1])
    BY <1>7, <1>9
  <2>2. /\ DigitsIn(e2.stack, from, to, 10)
        /\ Magnitude(e2, from, to, 10) = LastDigits(Magnitude(d, from, to, 10), k, 10, EXP_DIGITS)
    <3>1. TypedLeft(d, e2, from, to, 10, EXP_DIGITS, k)
      BY <1>2, <1>3, <1>10, <1>11, <2>1 DEF TypedLeft
    <3> QED BY <3>1, LeftNumber
  <2> QED BY <1>7, <1>10, <2>2
<1> DEFINE x == [m.exp EXCEPT !.n = LastDigits(m.exp.n, k, 10, EXP_DIGITS)]
<1>13. x \in [on : BOOLEAN, neg : BOOLEAN, n : Nat] /\ x.on /\ x.neg = m.exp.neg
       /\ x.n = LastDigits(m.exp.n, k, 10, EXP_DIGITS)
  <2>1. m.exp \in [on : BOOLEAN, neg : BOOLEAN, n : Nat]
    BY <1>1 DEF Readable, Decimals
  <2>2. 10^EXP_DIGITS \in Nat \ {0}
    <3>1. EXP_DIGITS \in Nat /\ EXP_DIGITS \in 0..EXP_DIGITS
      BY <1>2
    <3>2. \A j \in 0..EXP_DIGITS : 10^j \in Nat \ {0}
      BY <1>3, <1>11, <3>1, PowersPositive
    <3> QED BY <3>1, <3>2
  <2> DEFINE p == 10^EXP_DIGITS
             n == m.exp.n
  <2>3. p \in Nat \ {0} /\ n \in Nat
    BY <2>1, <2>2
  <2> HIDE DEF p, n
  <2>4. (n * 10 + k) % p \in Nat
    BY <2>3
  <2> QED BY <2>1, <2>4 DEF p, n, LastDigits
<1>14. t[end + 1] = IF x.neg THEN "-" ELSE "+"
  <2>1. end + 1 \in Slot /\ end + 1 <= end + 1
    BY <1>2 DEF Slot, from
  <2>2. t[end + 1] = d.stack[end + 1]
    BY <1>8, <2>1
  <2> QED BY <1>1, <1>13, <2>2 DEF ExponentShown
<1>15. \A i \in Slot : (i <= end \/ i >= d.index) => t[i] = d.stack[i]
  BY <1>2, <1>8 DEF Slot, to
<1> HIDE DEF x
<1>16. FloatShown(e2, WithExponent(m, x), c)
  <2> HIDE DEF e2
  <2>1. /\ e2 = [d EXCEPT !.stack = t] /\ end = EndOf(m) /\ from = end + 2
        /\ DigitsIn(t, from, d.index, 10) /\ Magnitude(e2, from, d.index, 10) = x.n
    BY <1>12, <1>13 DEF e2, end, from, to
  <2> QED BY <1>6, <1>13, <1>14, <1>15, <2>1, ExponentEdited
<1> QED BY <1>5, <1>16 DEF x

\* Backspace in the exponent: its last digit falls out to the right.
LEMMA ExponentShortened ==
  ASSUME NEW c \in Configs, c.mode = "float", NEW m, NEW d, FloatShown(d, m, c), m.exp.on,
         NEW e, e = display_remove(d, c)
  PROVE  FloatShown(e, WithExponent(m, [m.exp EXCEPT !.n = @ \div 10]), c)
<1> DEFINE end == EndOf(m)
           from == end + 2
           to == d.index
           t == [i \in Slot |-> IF i \notin ExpSlots(d) THEN d.stack[i]
                                ELSE IF i - 1 \in ExpSlots(d) THEN d.stack[i - 1] ELSE "0"]
           e2 == [d EXCEPT !.stack = t]
<1>1. /\ d \in Display1 /\ ~d.error /\ Terminated(d) /\ Readable(m, c) /\ d.exp_entry = m.exp.on
      /\ MantissaShown(d.stack, m) /\ ExponentShown(d, end, m.exp)
      /\ d.stack \in [Slot -> Chars]
  BY DEF FloatShown, Display1
<1>2. /\ end \in Nat \ {0} /\ from \in Nat /\ to \in Nat
      /\ from < to /\ to <= DISP_MAX_LEN
      /\ ExpSlots(d) = from..(to - 1) /\ DISP_MAX_LEN \in Nat
  BY ExponentSlots
<1>3. 10 \in Bases
  BY DEF Bases
<1>4. "0" \in Chars
  <2>1. Digit[0 + 1] \in Range(Digit)
    BY DigitValues
  <2> QED BY <2>1, Signs DEF Chars
<1>5. e = e2
  <2>1. e = update_display(remove_exponent(d), c)
    BY <1>1 DEF display_remove
  <2>2. e = remove_exponent(d)
    BY <2>1, UpdateFloat
  <2> QED BY <2>2 DEF remove_exponent
<1>6. t \in [Slot -> Chars]
  <2> SUFFICES ASSUME NEW i \in Slot, i \in ExpSlots(d), i - 1 \in ExpSlots(d) PROVE i - 1 \in Slot
    BY <1>1, <1>4
  <2> QED BY <1>2 DEF Slot
<1>7. e2.stack = t
  BY <1>1 DEF Display1
<1>8. \A i \in Slot : (i <= end + 1 \/ i >= to) => t[i] = d.stack[i]
  BY <1>2
<1>9. ShiftedRight(d.stack, t, from, to)
  <2>1. ASSUME NEW i \in (from + 1)..(to - 1) PROVE t[i] = d.stack[i - 1]
    <3>1. i \in Slot /\ i \in ExpSlots(d) /\ i - 1 \in ExpSlots(d)
      BY <1>2 DEF Slot
    <3> QED BY <3>1
  <2>2. t[from] = "0"
    <3>1. from \in Slot /\ from \in ExpSlots(d) /\ from - 1 \notin ExpSlots(d)
      BY <1>2 DEF Slot
    <3> QED BY <3>1
  <2> QED BY <2>1, <2>2 DEF ShiftedRight
<1> HIDE DEF t
<1>10. DigitsIn(d.stack, from, to, 10) /\ Magnitude(d, from, to, 10) = m.exp.n
  BY <1>1 DEF ExponentShown
<1> HIDE DEF end, from, to
<1>12. /\ DigitsIn(t, from, to, 10)
       /\ Magnitude(e2, from, to, 10) = m.exp.n \div 10
  <2> HIDE DEF e2
  <2>1. ShiftedRight(d.stack, e2.stack, from, to)
    BY <1>7, <1>9
  <2>2. /\ DigitsIn(e2.stack, from, to, 10)
        /\ Magnitude(e2, from, to, 10) = Magnitude(d, from, to, 10) \div 10
    BY <1>2, <1>3, <1>10, <2>1, RightNumber
  <2> QED BY <1>7, <1>10, <2>2
<1> DEFINE x == [m.exp EXCEPT !.n = m.exp.n \div 10]
<1>13. x \in [on : BOOLEAN, neg : BOOLEAN, n : Nat] /\ x.on /\ x.neg = m.exp.neg
       /\ x.n = m.exp.n \div 10
  <2>1. m.exp \in [on : BOOLEAN, neg : BOOLEAN, n : Nat]
    BY <1>1 DEF Readable, Decimals
  <2>2. \A n \in Nat : n \div 10 \in Nat
    OBVIOUS
  <2> QED BY <2>1, <2>2
<1>14. t[end + 1] = IF x.neg THEN "-" ELSE "+"
  <2>1. end + 1 \in Slot /\ end + 1 <= end + 1
    BY <1>2 DEF Slot, from
  <2>2. t[end + 1] = d.stack[end + 1]
    BY <1>8, <2>1
  <2> QED BY <1>1, <1>13, <2>2 DEF ExponentShown
<1>15. \A i \in Slot : (i <= end \/ i >= d.index) => t[i] = d.stack[i]
  BY <1>2, <1>8 DEF Slot, to
<1> HIDE DEF x
<1>16. FloatShown(e2, WithExponent(m, x), c)
  <2> HIDE DEF e2
  <2>1. /\ e2 = [d EXCEPT !.stack = t] /\ end = EndOf(m) /\ from = end + 2
        /\ DigitsIn(t, from, d.index, 10) /\ Magnitude(e2, from, d.index, 10) = x.n
    BY <1>12, <1>13 DEF e2, end, from, to
  <2> QED BY <1>6, <1>13, <1>14, <1>15, <2>1, ExponentEdited
<1> QED BY <1>5, <1>16 DEF x

\* The sign of the exponent.
LEMMA ExponentNegated ==
  ASSUME NEW c \in Configs, c.mode = "float", NEW m, NEW d, FloatShown(d, m, c), m.exp.on,
         NEW e, e = disp_toggle_sign(d, c)
  PROVE  FloatShown(e, WithExponent(m, [m.exp EXCEPT !.neg = ~@]), c)
<1> DEFINE end == EndOf(m)
           from == end + 2
           to == d.index
           sign == IF d.stack[end + 1] = "+" THEN "-" ELSE "+"
           t == [d.stack EXCEPT ![end + 1] = sign]
           e2 == [d EXCEPT !.stack = t]
           x == [m.exp EXCEPT !.neg = ~m.exp.neg]
<1>1. /\ d \in Display1 /\ ~d.error /\ Terminated(d) /\ Readable(m, c) /\ d.exp_entry = m.exp.on
      /\ MantissaShown(d.stack, m) /\ ExponentShown(d, end, m.exp)
      /\ d.stack \in [Slot -> Chars]
  BY DEF FloatShown, Display1
<1>2. /\ end \in Nat \ {0} /\ from \in Nat /\ to \in Nat
      /\ from < to /\ to <= DISP_MAX_LEN /\ to - EXP_DIGITS - 1 = end + 1
      /\ DISP_MAX_LEN \in Nat
  BY ExponentSlots
<1>3. m.exp \in [on : BOOLEAN, neg : BOOLEAN, n : Nat]
  BY <1>1 DEF Readable, Decimals
<1>4. e = e2
  <2>1. e = update_display(disp_toggle_exp_sign(d), c)
    BY <1>1 DEF disp_toggle_sign
  <2>2. e = disp_toggle_exp_sign(d)
    BY <2>1, UpdateFloat
  <2>3. e = [d EXCEPT !.stack[d.index - EXP_DIGITS - 1] = IF @ = "+" THEN "-" ELSE "+"]
    BY <2>2 DEF disp_toggle_exp_sign
  <2>4. d.index - EXP_DIGITS - 1 = end + 1
    BY <1>2
  <2>5. e = [d EXCEPT !.stack[end + 1] = IF @ = "+" THEN "-" ELSE "+"]
    BY <2>3, <2>4
  <2> HIDE DEF end, from, to
  <2> QED BY <1>1, <2>5
<1>5. x \in [on : BOOLEAN, neg : BOOLEAN, n : Nat] /\ x.on /\ x.neg = ~m.exp.neg /\ x.n = m.exp.n
  BY <1>3
<1>6. sign = IF x.neg THEN "-" ELSE "+"
  <2>1. d.stack[end + 1] = IF m.exp.neg THEN "-" ELSE "+"
    BY <1>1 DEF ExponentShown
  <2> QED BY <1>3, <1>5, <2>1
<1>7. t \in [Slot -> Chars] /\ t[end + 1] = sign /\ \A i \in Slot : i # end + 1 => t[i] = d.stack[i]
  <2>1. sign \in Chars
    BY DEF Chars
  <2>2. end + 1 \in Slot
    BY <1>2 DEF Slot
  <2> HIDE DEF sign, end
  <2> QED BY <1>1, <2>1, <2>2
<1> HIDE DEF t, sign, x
<1>8. DigitsIn(t, from, to, 10) /\ Magnitude(e2, from, to, 10) = x.n
  <2>1. DigitsIn(d.stack, from, to, 10) /\ Magnitude(d, from, to, 10) = m.exp.n
    BY <1>1 DEF ExponentShown
  <2>2. \A i \in from..(to - 1) : i \in Slot /\ i # end + 1
    BY <1>2 DEF Slot
  <2>3. \A i \in from..(to - 1) : t[i] = d.stack[i]
    BY <1>7, <2>2
  <2>4. DigitsIn(t, from, to, 10)
    BY <2>1, <2>3 DEF DigitsIn
  <2>5. e2.stack = t
    BY <1>1 DEF Display1
  <2> HIDE DEF e2, end, from, to
  <2>6. PICK f : Counts(f, d.stack, from, to, 10) /\ Magnitude(d, from, to, 10) = f[to]
    <3>1. from <= to
      BY <1>2
    <3> QED BY <1>2, <3>1, MagnitudeCounts
  <2>7. Counts(f, e2.stack, from, to, 10)
    BY <2>3, <2>5, <2>6 DEF Counts
  <2>8. Magnitude(e2, from, to, 10) = f[to]
    <3>1. from <= to
      BY <1>2
    <3> QED BY <1>2, <2>7, <3>1, MagnitudeIs
  <2> QED BY <1>5, <2>1, <2>4, <2>6, <2>8
<1>9. \A i \in Slot : (i <= end \/ i >= d.index) => t[i] = d.stack[i]
  <2>1. \A i \in Slot : (i <= end \/ i >= d.index) => i # end + 1
    BY <1>2 DEF Slot
  <2> QED BY <1>7, <2>1
<1>10. t[end + 1] = IF x.neg THEN "-" ELSE "+"
  BY <1>6, <1>7
<1>11. FloatShown(e2, WithExponent(m, x), c)
  <2> HIDE DEF e2, end, from, to
  <2>1. /\ e2 = [d EXCEPT !.stack = t] /\ end = EndOf(m) /\ from = end + 2
        /\ DigitsIn(t, from, d.index, 10) /\ Magnitude(e2, from, d.index, 10) = x.n
    BY <1>8 DEF e2, end, from, to
  <2> QED BY <1>5, <1>7, <1>9, <1>10, <2>1, ExponentEdited
<1> QED BY <1>4, <1>11 DEF x

-----------------------------------------------------------------------------
(* The sign *)

WithSign(m, neg) == [m EXCEPT !.neg = neg]

Moved(s, t, from, to, end) == \A i \in from..(end - 1) : t[to + (i - from)] = s[i]

\* The slots of a point and the figures behind it after all have moved.
LEMMA MovedSlots ==
  ASSUME NEW f \in Nat, NEW g \in Nat, NEW n \in Nat, NEW k \in Nat, NEW p, p = f + n,
         NEW end, end = (p + 1) + k
  PROVE  /\ (g + n) + (1 + k) = g + (end - f)
         /\ p \in f..(end - 1) /\ g + (p - f) = g + n
         /\ \A i \in 1..k : /\ (p + 1) + (i - 1) \in f..(end - 1)
                           /\ g + (((p + 1) + (i - 1)) - f) = ((g + n) + 1) + (i - 1)
OBVIOUS

\* w is m with another sign, t its text.
Resigned(m, neg, w, s, t) ==
  /\ MantissaShown(s, m)
  /\ neg \in BOOLEAN /\ w = WithSign(m, neg)
  /\ neg => t[0] = "-"
  /\ Moved(s, t, From(m), From(w), EndOf(m))

\* The figures of m, moved behind another sign.
LEMMA SignChanged ==
  ASSUME NEW c \in Configs, NEW m, Readable(m, c), NEW neg, NEW w, NEW s, NEW t,
         Resigned(m, neg, w, s, t)
  PROVE  /\ Readable(w, c) /\ w.exp = m.exp
         /\ From(w) = (IF neg THEN 1 ELSE 0)
         /\ EndOf(w) = From(w) + (EndOf(m) - From(m))
         /\ MantissaShown(t, w)
<1> DEFINE f == From(m)
           g == From(w)
<1>r. /\ MantissaShown(s, m) /\ neg \in BOOLEAN /\ w = WithSign(m, neg)
      /\ neg => t[0] = "-"
  BY DEF Resigned
<1>1. m \in Decimals
  BY DEF Readable
<1>2. /\ w \in Decimals /\ w.exp = m.exp
      /\ w.neg = neg /\ w.int = m.int /\ w.point = m.point /\ w.frac = m.frac
  BY <1>r, <1>1 DEF WithSign, Decimals
<1>3. g = IF neg THEN 1 ELSE 0
  BY <1>2 DEF From
<1>m. Moved(s, t, f, g, EndOf(m))
  BY DEF Resigned
<1>4. Count(w) = Count(m)
  BY <1>2 DEF Count
<1>5. Readable(w, c)
  BY <1>2, <1>4 DEF Readable
<1> DEFINE n == Len(m.int)
           k == Len(m.frac)
           p == PointAt(m)
           end == EndOf(m)
<1>6. /\ f \in Nat /\ g \in Nat /\ n \in Nat /\ k \in Nat /\ p = f + n /\ PointAt(w) = g + n
      /\ p \in Nat /\ end \in Nat /\ p <= end
      /\ m.int \in Seq(0..9) /\ m.frac \in Seq(0..9)
  <2>1. PointAt(w) = From(w) + Len(w.int) /\ PointAt(m) = From(m) + Len(m.int)
    BY DEF PointAt
  <2>2. m.int \in Seq(0..9) /\ m.frac \in Seq(0..9)
    BY <1>1 DEF Decimals
  <2>3. From(m) \in Nat /\ PointAt(m) \in Nat /\ EndOf(m) \in Nat /\ PointAt(m) <= EndOf(m)
        /\ Len(m.int) \in Nat /\ Len(m.frac) \in Nat
    BY DecimalFacts
  <2>4. g \in Nat
    BY <1>3
  <2>5. p = f + n /\ PointAt(w) = g + n
    BY <1>2, <2>1
  <2> QED BY <2>2, <2>3, <2>4, <2>5
<1>7. m.point => end = (p + 1) + k
  BY PartFacts
<1>8. Moved(s, t, f, g, end)
  BY <1>m
<1> HIDE DEF f, g
<1>9. EndOf(w) = g + (end - f)
  <2>1. CASE m.point
    <3>1. EndOf(w) = PointAt(w) + (1 + Len(w.frac))
      BY <1>2, <2>1 DEF EndOf
    <3>2. EndOf(w) = (g + n) + (1 + k) /\ end = (p + 1) + k
      BY <1>2, <1>6, <1>7, <2>1, <3>1
    <3> HIDE DEF n, k, p, end
    <3> QED BY <1>6, <3>2, MovedSlots
  <2>2. CASE ~m.point
    <3>1. EndOf(w) = PointAt(w) + 0 /\ end = p + 0
      BY <1>2, <2>2 DEF EndOf
    <3> HIDE DEF n, k, p, end
    <3> QED BY <1>6, <3>1
  <2> QED BY <2>1, <2>2
<1>10. FiguresIn(t, g, m.int)
  <2>1. FiguresIn(s, f, m.int)
    BY <1>r DEF MantissaShown, f
  <2>2. \A i \in 1..n : t[g + (i - 1)] = s[f + (i - 1)]
    <3> SUFFICES ASSUME NEW i \in 1..n PROVE t[g + (i - 1)] = s[f + (i - 1)]
      OBVIOUS
    <3> HIDE DEF n, k, p, end
    <3>1. f + (i - 1) \in f..(end - 1) /\ g + ((f + (i - 1)) - f) = g + (i - 1)
      BY <1>6
    <3> QED BY <1>8, <3>1 DEF Moved
  <2> DEFINE q == m.int
  <2>3. /\ f \in Nat /\ g \in Nat /\ q \in Seq(0..9) /\ FiguresIn(s, f, q)
        /\ \A i \in 1..Len(q) : t[g + (i - 1)] = s[f + (i - 1)]
    BY <1>6, <2>1, <2>2
  <2> HIDE DEF q
  <2>4. FiguresIn(t, g, q)
    BY <2>3, FiguresKept
  <2> QED BY <2>4 DEF q
<1>11. ASSUME m.point PROVE t[PointAt(w)] = "." /\ FiguresIn(t, PointAt(w) + 1, m.frac)
  <2>1. s[p] = "." /\ FiguresIn(s, p + 1, m.frac)
    BY <1>r, <1>11 DEF MantissaShown
  <2>2. t[g + n] = s[p]
    <3>1. end = (p + 1) + k
      BY <1>7, <1>11
    <3> HIDE DEF n, k, p, end
    <3>2. p \in f..(end - 1) /\ g + (p - f) = g + n
      BY <1>6, <3>1, MovedSlots
    <3> QED BY <1>8, <3>2 DEF Moved
  <2>3. \A i \in 1..k : t[((g + n) + 1) + (i - 1)] = s[(p + 1) + (i - 1)]
    <3> SUFFICES ASSUME NEW i \in 1..k PROVE t[((g + n) + 1) + (i - 1)] = s[(p + 1) + (i - 1)]
      OBVIOUS
    <3>1. end = (p + 1) + k
      BY <1>7, <1>11
    <3> HIDE DEF n, k, p, end
    <3>2. (p + 1) + (i - 1) \in f..(end - 1) /\ g + (((p + 1) + (i - 1)) - f) = ((g + n) + 1) + (i - 1)
      BY <1>6, <3>1, MovedSlots
    <3> QED BY <1>8, <3>2 DEF Moved
  <2>4. FiguresIn(t, (g + n) + 1, m.frac)
    <3> DEFINE a == p + 1
               b == (g + n) + 1
               q == m.frac
    <3>1. /\ a \in Nat /\ b \in Nat /\ q \in Seq(0..9) /\ FiguresIn(s, a, q)
          /\ \A i \in 1..Len(q) : t[b + (i - 1)] = s[a + (i - 1)]
      BY <1>6, <2>1, <2>3
    <3> HIDE DEF a, b, q
    <3>2. FiguresIn(t, b, q)
      BY <3>1, FiguresKept
    <3> QED BY <3>2 DEF b, q
  <2> QED BY <1>6, <2>1, <2>2, <2>4
<1>12. MantissaShown(t, w)
  <2>1. FiguresIn(t, From(w), w.int)
    BY <1>2, <1>10 DEF g
  <2> QED BY <1>r, <1>2, <1>11, <2>1 DEF MantissaShown
<1> QED BY <1>2, <1>3, <1>5, <1>9, <1>12 DEF f, g

\* The sign is put in front of the text, or taken off.
LEMMA MantissaNegated ==
  ASSUME NEW c \in Configs, c.mode = "float", NEW m, NEW d, FloatShown(d, m, c), ~m.exp.on,
         NEW e, e = disp_toggle_sign(d, c)
  PROVE  FloatShown(e, [m EXCEPT !.neg = ~@], c)
<1> DEFINE end == EndOf(m)
           w == WithSign(m, ~m.neg)
<1>1. /\ d \in Display1 /\ ~d.error /\ Terminated(d) /\ Readable(m, c) /\ d.exp_entry = m.exp.on
      /\ MantissaShown(d.stack, m)
      /\ d.stack \in [Slot -> Chars]
  BY DEF FloatShown, Display1
<1>2. /\ end \in Nat \ {0} /\ DISP_MAX_LEN \in Nat /\ DISP_STACK_SIZE = DISP_MAX_LEN + 1
      /\ end + 3 <= DISP_MAX_LEN /\ From(m) \in Nat /\ From(m) < end /\ m.neg \in BOOLEAN
  <2>1. /\ end \in Nat \ {0} /\ EXP_DIGITS \in Nat \ {0} /\ end + 2 + EXP_DIGITS <= DISP_MAX_LEN
        /\ DISP_MAX_LEN \in Nat /\ DISP_STACK_SIZE = DISP_MAX_LEN + 1
        /\ From(m) \in Nat /\ PointAt(m) \in Nat /\ From(m) < PointAt(m) /\ PointAt(m) <= end
    BY <1>1, DecimalFacts
  <2>2. m.neg \in BOOLEAN
    BY <1>1, PartFacts
  <2> HIDE DEF end
  <2> QED BY <2>1, <2>2
<1>3. d.index = end
  <2>1. d.index = EndOf(m) + 0
    BY DEF FloatShown
  <2> QED BY <1>2, <2>1
<1>4. m.neg <=> d.stack[0] = "-"
  BY <1>1, SlotFacts
<1>5. w = [m EXCEPT !.neg = ~@]
  BY DEF WithSign
<1>6. \A i \in Slot : d.stack[i] = NUL <=> i >= end
  BY <1>1, <1>3 DEF Terminated
<1> HIDE DEF w
<1>7. CASE ~m.neg
  <2> DEFINE t == [i \in Slot |-> IF i = 0 THEN "-"
                                  ELSE IF i <= d.index THEN d.stack[i - 1] ELSE d.stack[i]]
  <2>1. e = [d EXCEPT !.stack = t, !.index = d.index + 1]
    <3>1. e = update_display([d EXCEPT
           !.stack = [i \in Slot |-> IF i = 0 THEN "-"
                                     ELSE IF i <= d.index THEN @[i - 1] ELSE @[i]],
           !.index = @ + 1], c)
      BY <1>1, <1>4, <1>7 DEF disp_toggle_sign
    <3>2. e = [d EXCEPT
           !.stack = [i \in Slot |-> IF i = 0 THEN "-"
                                     ELSE IF i <= d.index THEN @[i - 1] ELSE @[i]],
           !.index = @ + 1]
      BY <3>1, UpdateFloat
    <3> QED BY <3>2
  <2>2. /\ t[0] = "-"
        /\ \A i \in 0..(end - 1) : t[1 + (i - 0)] = d.stack[i]
        /\ \A i \in Slot : i > end => t[i] = d.stack[i]
    <3>1. 0 \in Slot
      BY <1>2 DEF Slot
    <3>2. \A i \in 0..(end - 1) : /\ 1 + (i - 0) \in Slot /\ 1 + (i - 0) # 0 /\ 1 + (i - 0) <= end
                                  /\ (1 + (i - 0)) - 1 = i
      BY <1>2 DEF Slot
    <3>3. \A i \in Slot : i > end => i # 0 /\ ~(i <= end)
      BY <1>2 DEF Slot
    <3> HIDE DEF end
    <3> QED BY <1>3, <3>1, <3>2, <3>3
  <2>3. t \in [Slot -> Chars]
    <3> SUFFICES ASSUME NEW i \in Slot, i # 0, i <= d.index PROVE i - 1 \in Slot
      BY <1>1 DEF Chars
    <3> QED BY <1>2 DEF Slot
  <2> HIDE DEF t
  <2>4. From(m) = 0 /\ From(w) = 1
    <3>1. w.neg = TRUE
      BY <1>1, <1>7 DEF w, WithSign, Readable, Decimals
    <3> QED BY <1>7, <3>1 DEF From
  <2>5. /\ Readable(w, c) /\ w.exp = m.exp /\ EndOf(w) = 1 + (EndOf(m) - 0) /\ MantissaShown(t, w)
    <3>1. Moved(d.stack, t, From(m), From(w), EndOf(m))
      BY <2>2, <2>4 DEF Moved
    <3>2. Resigned(m, TRUE, w, d.stack, t)
      <4>1. (~m.neg) = TRUE
        BY <1>7, <1>2
      <4>2. w = WithSign(m, ~m.neg)
        BY DEF w
      <4> QED BY <1>1, <2>2, <3>1, <4>1, <4>2 DEF Resigned
    <3>3. /\ Readable(w, c) /\ w.exp = m.exp
          /\ EndOf(w) = From(w) + (EndOf(m) - From(m)) /\ MantissaShown(t, w)
      BY <1>1, <3>2, SignChanged
    <3> QED BY <2>4, <3>3
  <2>6. e.index = end + 1 /\ e.stack = t /\ e \in Display1 /\ e.exp_entry = d.exp_entry /\ e.error = d.error
    <3>1. d.index + 1 \in 0..DISP_STACK_SIZE
      BY <1>2, <1>3
    <3> QED BY <1>1, <1>3, <2>1, <2>3, <3>1 DEF Display1
  <2>7. Terminated(e)
    <3> SUFFICES ASSUME NEW i \in Slot PROVE t[i] = NUL <=> i >= end + 1
      BY <1>2, <2>6 DEF Terminated
    <3>1. CASE i = 0
      BY <1>2, <2>2, <3>1 DEF NUL
    <3>2. CASE i \in 1..end
      <4>1. i - 1 \in 0..(end - 1) /\ 1 + ((i - 1) - 0) = i /\ i - 1 \in Slot /\ ~(i - 1 >= end)
        BY <1>2, <3>2 DEF Slot
      <4>2. t[i] = d.stack[i - 1]
        BY <2>2, <4>1
      <4>3. d.stack[i - 1] # NUL
        BY <1>6, <4>1
      <4> QED BY <1>2, <3>2, <4>2, <4>3
    <3>3. CASE i > end
      <4>1. d.stack[i] = NUL
        BY <1>2, <1>6, <3>3 DEF Slot
      <4> QED BY <1>2, <2>2, <3>3, <4>1 DEF Slot
    <3> QED BY <1>2, <3>1, <3>2, <3>3 DEF Slot
  <2>8. e.index = EndOf(w) + (IF w.exp.on THEN 2 + EXP_DIGITS ELSE 0)
    <3>1. ~w.exp.on
      BY <2>5
    <3>2. e.index = EndOf(w) /\ EndOf(w) \in Nat
      BY <1>2, <2>5, <2>6
    <3> QED BY <3>1, <3>2
  <2>9. FloatShown(e, w, c)
    <3>1. ~w.exp.on /\ ~e.error /\ e.exp_entry = w.exp.on
      BY <1>1, <2>5, <2>6
    <3> QED BY <2>5, <2>6, <2>7, <2>8, <3>1 DEF FloatShown
  <2> QED BY <1>5, <2>9
<1>8. CASE m.neg
  <2> DEFINE t == [i \in Slot |-> IF i < d.index THEN d.stack[i + 1] ELSE d.stack[i]]
  <2>1. e = [d EXCEPT !.stack = t, !.index = d.index - 1]
    <3>1. e = update_display([d EXCEPT
           !.stack = [i \in Slot |-> IF i < d.index THEN @[i + 1] ELSE @[i]],
           !.index = @ - 1], c)
      BY <1>1, <1>4, <1>8 DEF disp_toggle_sign
    <3>2. e = [d EXCEPT
           !.stack = [i \in Slot |-> IF i < d.index THEN @[i + 1] ELSE @[i]],
           !.index = @ - 1]
      BY <3>1, UpdateFloat
    <3> QED BY <3>2
  <2>4. From(m) = 1 /\ From(w) = 0
    <3>1. w.neg = FALSE
      BY <1>1, <1>8 DEF w, WithSign, Readable, Decimals
    <3> QED BY <1>8, <3>1 DEF From
  <2>2. /\ \A i \in 1..(end - 1) : t[0 + (i - 1)] = d.stack[i]
        /\ \A i \in Slot : i < end => t[i] = d.stack[i + 1] /\ i + 1 \in Slot
        /\ \A i \in Slot : i >= end => t[i] = d.stack[i]
    <3>1. \A i \in 1..(end - 1) : /\ 0 + (i - 1) \in Slot /\ 0 + (i - 1) < end
                                  /\ (0 + (i - 1)) + 1 = i
      BY <1>2 DEF Slot
    <3>2. \A i \in Slot : i < end => i + 1 \in Slot
      BY <1>2 DEF Slot
    <3>3. \A i \in Slot : i >= end => ~(i < end)
      BY <1>2 DEF Slot
    <3> HIDE DEF end
    <3> QED BY <1>3, <3>1, <3>2, <3>3
  <2>3. t \in [Slot -> Chars]
    <3> SUFFICES ASSUME NEW i \in Slot, i < d.index PROVE i + 1 \in Slot
      BY <1>1
    <3> QED BY <1>2, <1>3 DEF Slot
  <2> HIDE DEF t
  <2>5. /\ Readable(w, c) /\ w.exp = m.exp /\ EndOf(w) = 0 + (EndOf(m) - 1) /\ MantissaShown(t, w)
    <3>1. Moved(d.stack, t, From(m), From(w), EndOf(m))
      BY <2>2, <2>4 DEF Moved
    <3>2. Resigned(m, FALSE, w, d.stack, t)
      <4>1. (~m.neg) = FALSE
        BY <1>8, <1>2
      <4>2. w = WithSign(m, ~m.neg)
        BY DEF w
      <4> QED BY <1>1, <2>2, <3>1, <4>1, <4>2 DEF Resigned
    <3>3. /\ Readable(w, c) /\ w.exp = m.exp
          /\ EndOf(w) = From(w) + (EndOf(m) - From(m)) /\ MantissaShown(t, w)
      BY <1>1, <3>2, SignChanged, ZenonT(60)
    <3> QED BY <2>4, <3>3
  <2>6. e.index = end - 1 /\ e.stack = t /\ e \in Display1 /\ e.exp_entry = d.exp_entry /\ e.error = d.error
    <3>1. d.index - 1 \in 0..DISP_STACK_SIZE
      BY <1>2, <1>3
    <3> QED BY <1>1, <1>3, <2>1, <2>3, <3>1 DEF Display1
  <2>7. Terminated(e)
    <3> SUFFICES ASSUME NEW i \in Slot PROVE t[i] = NUL <=> i >= end - 1
      <4>1. end - 1 \in 1..DISP_MAX_LEN
        BY <1>2, <2>4
      <4> QED BY <2>6, <4>1 DEF Terminated
    <3>1. CASE i < end
      <4>1. d.stack[i + 1] = NUL <=> i + 1 >= end
        BY <1>6, <2>2, <3>1
      <4> QED BY <1>2, <2>2, <3>1, <4>1 DEF Slot
    <3>3. CASE i >= end
      BY <1>2, <1>6, <2>2, <3>3 DEF Slot
    <3> QED BY <1>2, <3>1, <3>3 DEF Slot
  <2>8. e.index = EndOf(w) + (IF w.exp.on THEN 2 + EXP_DIGITS ELSE 0)
    <3>1. ~w.exp.on
      BY <2>5
    <3>2. e.index = EndOf(w) /\ EndOf(w) \in Nat
      BY <1>2, <2>5, <2>6
    <3> QED BY <3>1, <3>2
  <2>9. FloatShown(e, w, c)
    <3>1. ~w.exp.on /\ ~e.error /\ e.exp_entry = w.exp.on
      BY <1>1, <2>5, <2>6
    <3> QED BY <2>5, <2>6, <2>7, <2>8, <3>1 DEF FloatShown
  <2> QED BY <1>5, <2>9
<1> QED BY <1>7, <1>8

-----------------------------------------------------------------------------
(* Backspace in the mantissa *)

WithoutPoint(m) == [m EXCEPT !.point = FALSE]

\* Figures without the last one.
LEMMA FiguresCut ==
  ASSUME NEW s, NEW start \in Nat, NEW q \in Seq(0..9), q # <<>>, FiguresIn(s, start, q),
         NEW r, r = SubSeq(q, 1, Len(q) - 1)
  PROVE  /\ r \in Seq(0..9) /\ Len(r) = Len(q) - 1 /\ FiguresIn(s, start, r)
         /\ Len(q) # 1 => r # <<>> /\ r[1] = q[1]
<1>1. Len(q) \in Nat \ {0}
  BY EmptySeq
<1>2. r \in Seq(0..9) /\ Len(r) = Len(q) - 1 /\ \A i \in 1..(Len(q) - 1) : r[i] = q[i]
  <2> DEFINE n == Len(q) - 1
             u == SubSeq(q, 1, n)
  <2>1. n \in Nat /\ n \in Int /\ 1 \in Int /\ \A i \in 1..n : q[i] \in 0..9
    BY <1>1
  <2> HIDE DEF n
  <2>2. /\ SubSeq(q, 1, n) \in Seq(0..9)
        /\ Len(SubSeq(q, 1, n)) = IF 1 <= n THEN n - 1 + 1 ELSE 0
        /\ \A i \in 1..(n - 1 + 1) : SubSeq(q, 1, n)[i] = q[1 + i - 1]
    BY <2>1, SubSeqProperties
  <2> HIDE DEF u
  <2>3. u \in Seq(0..9) /\ Len(u) = n
    BY <2>1, <2>2 DEF u
  <2>4. ASSUME NEW i \in 1..n PROVE u[i] = q[i]
    <3>1. i \in 1..(n - 1 + 1) /\ 1 + i - 1 = i
      BY <2>1
    <3> QED BY <2>2, <3>1 DEF u
  <2> QED BY <2>3, <2>4 DEF n, u
<1>3. FiguresIn(s, start, r)
  <2>1. \A i \in 1..Len(r) : i \in 1..Len(q) /\ i \in 1..(Len(q) - 1)
    BY <1>1, <1>2
  <2> QED BY <1>2, <2>1 DEF FiguresIn
<1>4. ASSUME Len(q) # 1 PROVE r # <<>> /\ r[1] = q[1]
  <2>1. 1 \in 1..(Len(q) - 1) /\ Len(r) # 0
    BY <1>1, <1>2, <1>4
  <2> QED BY <1>2, <2>1
<1> QED BY <1>2, <1>3, <1>4

\* More than one figure without the last one begin as before.
LEMMA CutHead ==
  ASSUME NEW q \in Seq(0..9), Len(q) # 1, q # <<>>
  PROVE  SubSeq(q, 1, Len(q) - 1) # <<>> /\ SubSeq(q, 1, Len(q) - 1)[1] = q[1]
<1> DEFINE s == [i \in 0..Len(q) |-> Digit[q[i + 1] + 1]]
           r == SubSeq(q, 1, Len(q) - 1)
<1>1. FiguresIn(s, 0, q)
  <2>1. \A i \in 1..Len(q) : 0 + (i - 1) \in 0..Len(q) /\ (0 + (i - 1)) + 1 = i
    OBVIOUS
  <2> QED BY <2>1 DEF FiguresIn
<1> HIDE DEF s
<1>2. r # <<>> /\ r[1] = q[1]
  BY <1>1, FiguresCut
<1> QED BY <1>2

\* w is m without its last character.
CutTo(m, w, c) ==
  /\ Readable(w, c) /\ w.exp = m.exp /\ w.neg = m.neg
  /\ EndOf(m) = EndOf(w) + 1
  /\ \A s : MantissaShown(s, m) => MantissaShown(s, w)

\* A cut behind the point.
LEMMA FracCut ==
  ASSUME NEW c \in Configs, NEW m, Readable(m, c), m.frac # <<>>
  PROVE  CutTo(m, WithFrac(m, SubSeq(m.frac, 1, Len(m.frac) - 1)), c)
<1> DEFINE r == SubSeq(m.frac, 1, Len(m.frac) - 1)
           w == WithFrac(m, r)
<1>1. /\ m \in Decimals /\ m.frac \in Seq(0..9) /\ m.int \in Seq(0..9) /\ m.point
      /\ EndOf(m) = (PointAt(m) + 1) + Len(m.frac)
      /\ PointAt(m) \in Nat /\ Count(m) \in Nat /\ Count(m) <= c.digits /\ c.digits \in Nat
      /\ Len(m.int) \in Nat
  <2>1. m.point
    BY DEF Readable
  <2> QED BY <2>1, PartFacts, DecimalFacts
<1>2. /\ r \in Seq(0..9) /\ Len(r) = Len(m.frac) - 1 /\ Len(m.frac) \in Nat \ {0} /\ Len(r) \in Nat
      /\ \A s : FiguresIn(s, PointAt(m) + 1, m.frac) => FiguresIn(s, PointAt(m) + 1, r)
  <2> DEFINE q == m.frac
             p == PointAt(m) + 1
  <2>1. q \in Seq(0..9) /\ q # <<>> /\ p \in Nat /\ r = SubSeq(q, 1, Len(q) - 1)
    BY <1>1
  <2>2. Len(q) \in Nat \ {0}
    BY <2>1, EmptySeq
  <2> HIDE DEF q, p, r
  <2>3. ASSUME NEW s, FiguresIn(s, p, q) PROVE FiguresIn(s, p, r)
    BY <2>1, <2>3, FiguresCut
  <2>4. r \in Seq(0..9) /\ Len(r) = Len(q) - 1
    <3> DEFINE s == [i \in p..(p + Len(q)) |-> Digit[q[(i - p) + 1] + 1]]
    <3>1. FiguresIn(s, p, q)
      <4>1. \A i \in 1..Len(q) : p + (i - 1) \in p..(p + Len(q)) /\ ((p + (i - 1)) - p) + 1 = i
        BY <2>1, <2>2
      <4> QED BY <4>1 DEF FiguresIn
    <3> HIDE DEF s
    <3> QED BY <2>1, <3>1, FiguresCut
  <2>5. Len(r) \in Nat
    BY <2>2, <2>4
  <2> QED BY <2>2, <2>3, <2>4, <2>5 DEF q, p
<1> HIDE DEF r
<1>3. /\ w \in Decimals /\ w.exp = m.exp /\ w.neg = m.neg /\ w.int = m.int /\ w.point = m.point
      /\ w.frac = r
  BY <1>1, <1>2, WithFacts
<1> HIDE DEF w
<1>4. From(w) = From(m) /\ PointAt(w) = PointAt(m)
  BY <1>3 DEF From, PointAt
<1>5. EndOf(m) = EndOf(w) + 1
  <2>1. EndOf(w) = PointAt(w) + (1 + Len(w.frac))
    BY <1>1, <1>3 DEF EndOf
  <2> DEFINE p == PointAt(m)
             k == Len(r)
             n == Len(m.frac)
  <2>2. EndOf(w) = p + (1 + k) /\ EndOf(m) = (p + 1) + n /\ k = n - 1 /\ p \in Nat /\ k \in Nat /\ n \in Nat
    BY <1>1, <1>2, <1>3, <1>4, <2>1
  <2> HIDE DEF p, k, n
  <2> QED BY <2>2
<1>6. Count(w) <= c.digits
  <2>1. Count(w) = Len(r) + (IF m.point /\ m.int = <<0>> THEN 0 ELSE Len(m.int))
    BY <1>3 DEF Count
  <2>2. Count(m) = Len(m.frac) + (IF m.point /\ m.int = <<0>> THEN 0 ELSE Len(m.int))
    BY DEF Count
  <2>5. /\ Len(r) \in Nat /\ Len(m.frac) \in Nat /\ Len(r) <= Len(m.frac) /\ Len(m.int) \in Nat
        /\ Count(m) <= c.digits /\ c.digits \in Nat
    BY <1>1, <1>2
  <2>3. CASE m.int = <<0>>
    <3>1. Count(w) = Len(r) + 0 /\ Count(m) = Len(m.frac) + 0
      BY <1>1, <2>1, <2>2, <2>3
    <3> QED BY <2>5, <3>1
  <2>4. CASE m.int # <<0>>
    <3> DEFINE a == Len(r)
               b == Len(m.frac)
               n == Len(m.int)
               z == Count(m)
    <3>1. Count(w) = a + n /\ z = b + n
      BY <2>1, <2>2, <2>4
    <3>2. a \in Nat /\ b \in Nat /\ n \in Nat /\ a <= b /\ z <= c.digits /\ c.digits \in Nat
      BY <2>5
    <3> HIDE DEF a, b, n, z
    <3> QED BY <3>1, <3>2
  <2> QED BY <2>3, <2>4
<1>7. Readable(w, c)
  BY <1>1, <1>3, <1>6 DEF Readable
<1>8. ASSUME NEW s, MantissaShown(s, m) PROVE MantissaShown(s, w)
  <2>1. FiguresIn(s, PointAt(m) + 1, m.frac)
    BY <1>1, <1>8 DEF MantissaShown
  <2>2. FiguresIn(s, PointAt(m) + 1, r)
    BY <1>2, <2>1
  <2> QED BY <1>3, <1>4, <1>8, <2>2 DEF MantissaShown
<1> QED BY <1>3, <1>5, <1>7, <1>8 DEF CutTo, w, r

\* A cut of the point itself.
LEMMA PointCut ==
  ASSUME NEW c \in Configs, NEW m, Readable(m, c), m.frac = <<>>, m.point
  PROVE  CutTo(m, WithoutPoint(m), c)
<1> DEFINE w == WithoutPoint(m)
<1>1. /\ m \in Decimals /\ PointAt(m) \in Nat /\ Count(m) \in Nat /\ Count(m) <= c.digits
      /\ c.digits \in Nat \ {0} /\ Len(m.int) \in Nat
  BY PartFacts, DecimalFacts
<1>2. /\ w \in Decimals /\ w.exp = m.exp /\ w.neg = m.neg /\ w.int = m.int /\ w.point = FALSE
      /\ w.frac = m.frac
  BY <1>1 DEF WithoutPoint, Decimals
<1> HIDE DEF w
<1>3. From(w) = From(m) /\ PointAt(w) = PointAt(m)
  BY <1>2 DEF From, PointAt
<1>4. Len(m.frac) = 0
  OBVIOUS
<1>5. EndOf(m) = EndOf(w) + 1
  <2>1. EndOf(w) = PointAt(m) + 0 /\ EndOf(m) = PointAt(m) + (1 + Len(m.frac))
    BY <1>2, <1>3 DEF EndOf
  <2> QED BY <1>1, <1>4, <2>1
<1>6. Count(w) <= c.digits
  <2>1. Count(w) = 0 + Len(m.int)
    BY <1>2, <1>4 DEF Count
  <2>2. CASE m.int = <<0>>
    <3>1. Len(<<0>>) = 1
      OBVIOUS
    <3>2. Len(m.int) = 1
      BY <2>2, <3>1
    <3> QED BY <1>1, <2>1, <3>2
  <2>3. CASE m.int # <<0>>
    <3>1. Count(m) = 0 + Len(m.int)
      BY <1>4, <2>3 DEF Count
    <3> QED BY <1>1, <2>1, <3>1
  <2> QED BY <2>2, <2>3
<1>7. Readable(w, c)
  BY <1>2, <1>6 DEF Readable
<1>8. ASSUME NEW s, MantissaShown(s, m) PROVE MantissaShown(s, w)
  BY <1>2, <1>3, <1>8 DEF MantissaShown
<1> QED BY <1>2, <1>5, <1>7, <1>8 DEF CutTo, w

\* A cut before the point.
LEMMA IntCut ==
  ASSUME NEW c \in Configs, NEW m, Readable(m, c), m.frac = <<>>, ~m.point, Len(m.int) > 1
  PROVE  CutTo(m, WithInt(m, SubSeq(m.int, 1, Len(m.int) - 1)), c)
<1> DEFINE r == SubSeq(m.int, 1, Len(m.int) - 1)
           w == WithInt(m, r)
<1>1. /\ m \in Decimals /\ m.int \in Seq(0..9) /\ m.int # <<>>
      /\ EndOf(m) = PointAt(m) /\ PointAt(m) = From(m) + Len(m.int)
      /\ From(m) \in Nat /\ Count(m) \in Nat /\ Count(m) <= c.digits /\ c.digits \in Nat
      /\ Count(m) = Len(m.int) /\ Len(m.int) \in Nat /\ Len(m.int) # 1
  <2>1. /\ m \in Decimals /\ m.int \in Seq(0..9) /\ m.int # <<>>
        /\ EndOf(m) = PointAt(m) /\ PointAt(m) = From(m) + Len(m.int) /\ Count(m) = Len(m.int)
    BY PartFacts
  <2>2. From(m) \in Nat /\ Count(m) \in Nat /\ Count(m) <= c.digits /\ c.digits \in Nat \ {0}
    BY DecimalFacts
  <2>3. Len(m.int) \in Nat /\ Len(m.int) # 1
    <3> DEFINE n == Len(m.int)
    <3>1. n \in Nat /\ n > 1
      BY <2>1
    <3> HIDE DEF n
    <3>2. n \in Nat /\ n # 1
      BY <3>1
    <3> QED BY <3>2 DEF n
  <2> QED BY <2>1, <2>2, <2>3
<1>2. /\ r \in Seq(0..9) /\ Len(r) = Len(m.int) - 1 /\ r # <<>> /\ r[1] = m.int[1]
      /\ \A s : FiguresIn(s, From(m), m.int) => FiguresIn(s, From(m), r)
  <2> DEFINE q == m.int
             p == From(m)
  <2>1. q \in Seq(0..9) /\ q # <<>> /\ p \in Nat /\ r = SubSeq(q, 1, Len(q) - 1) /\ Len(q) \in Nat /\ Len(q) # 1
    BY <1>1
  <2> HIDE DEF q, p, r
  <2>3. ASSUME NEW s, FiguresIn(s, p, q) PROVE FiguresIn(s, p, r)
    BY <2>1, <2>3, FiguresCut
  <2>4. r \in Seq(0..9) /\ Len(r) = Len(q) - 1 /\ r # <<>> /\ r[1] = q[1]
    <3> DEFINE s == [i \in p..(p + Len(q)) |-> Digit[q[(i - p) + 1] + 1]]
    <3>1. FiguresIn(s, p, q)
      <4>1. \A i \in 1..Len(q) : p + (i - 1) \in p..(p + Len(q)) /\ ((p + (i - 1)) - p) + 1 = i
        BY <2>1
      <4> QED BY <4>1 DEF FiguresIn
    <3> HIDE DEF s
    <3>2. r \in Seq(0..9) /\ Len(r) = Len(q) - 1
      BY <2>1, <3>1, FiguresCut, ZenonT(60)
    <3>3. r # <<>> /\ r[1] = q[1]
      <4>1. SubSeq(q, 1, Len(q) - 1) # <<>> /\ SubSeq(q, 1, Len(q) - 1)[1] = q[1]
        BY <2>1, CutHead
      <4> QED BY <2>1, <4>1
    <3> QED BY <3>2, <3>3
  <2> QED BY <2>3, <2>4 DEF q, p
<1> HIDE DEF r
<1>3. /\ w \in Decimals /\ w.exp = m.exp /\ w.neg = m.neg /\ w.int = r /\ w.point = m.point
      /\ w.frac = m.frac
  BY <1>1, <1>2, WithFacts, ZenonT(60)
<1> HIDE DEF w
<1>4. From(w) = From(m) /\ EndOf(w) = From(m) + Len(r)
  <2>1. From(w) = From(m) /\ PointAt(w) = From(w) + Len(w.int)
    BY <1>3 DEF From, PointAt
  <2>2. EndOf(w) = PointAt(w) + 0
    BY <1>3 DEF EndOf
  <2>3. PointAt(w) = From(m) + Len(r) /\ PointAt(w) \in Nat
    <3>1. PointAt(w) = From(m) + Len(r) /\ Len(r) \in Nat
      BY <1>1, <1>2, <1>3, <2>1
    <3> QED BY <1>1, <3>1
  <2> QED BY <2>1, <2>2, <2>3
<1>5. EndOf(m) = EndOf(w) + 1
  BY <1>1, <1>2, <1>4
<1>6. Count(w) <= c.digits
  <2>1. Len(<<>>) = 0
    OBVIOUS
  <2>2. Count(w) = 0 + Len(r)
    BY <1>3, <2>1 DEF Count
  <2> QED BY <1>1, <1>2, <2>2
<1>7. Readable(w, c)
  <2>1. m.int[1] # 0
    BY <1>1 DEF Readable
  <2> QED BY <1>2, <1>3, <1>6, <2>1 DEF Readable
<1>8. ASSUME NEW s, MantissaShown(s, m) PROVE MantissaShown(s, w)
  <2>1. FiguresIn(s, From(m), r)
    BY <1>2, <1>8 DEF MantissaShown
  <2> QED BY <1>3, <1>4, <1>8, <2>1 DEF MantissaShown
<1> QED BY <1>3, <1>5, <1>7, <1>8 DEF CutTo, w, r

\* The last character is popped.
LEMMA FloatPopped ==
  ASSUME NEW c \in Configs, c.mode = "float", NEW m, NEW d, FloatShown(d, m, c), ~m.exp.on,
         NEW w, CutTo(m, w, c)
  PROVE  FloatShown(display_remove(d, c), w, c)
<1> DEFINE e == disp_stack_pop(d)
<1>1. /\ d \in Display1 /\ Terminated(d) /\ ~d.error /\ Readable(m, c) /\ d.exp_entry = m.exp.on
      /\ MantissaShown(d.stack, m)
      /\ Readable(w, c) /\ w.exp = m.exp /\ w.neg = m.neg /\ EndOf(m) = EndOf(w) + 1
      /\ MantissaShown(d.stack, w)
  BY DEF FloatShown, CutTo
<1>2. /\ EndOf(w) \in Nat \ {0} /\ From(w) \in Nat /\ From(w) < EndOf(w)
      /\ DISP_MAX_LEN \in Nat /\ DISP_STACK_SIZE = DISP_MAX_LEN + 1
  <2>1. /\ EndOf(w) \in Nat \ {0} /\ From(w) \in Nat /\ PointAt(w) \in Nat /\ From(w) < PointAt(w)
        /\ PointAt(w) <= EndOf(w) /\ DISP_MAX_LEN \in Nat /\ DISP_STACK_SIZE = DISP_MAX_LEN + 1
    BY <1>1, DecimalFacts
  <2> QED BY <2>1
<1>3. d.index = EndOf(w) + 1
  <2>1. d.index = EndOf(m) + 0
    BY DEF FloatShown
  <2> QED BY <1>1, <1>2, <2>1
<1>4. /\ e \in Display1 /\ Clean(e) /\ e.index = EndOf(w) /\ SameBelow(e, d, EndOf(w))
  <2>1. Clean(d) /\ d.index # 0
    BY <1>1, <1>2, CleanTerminated
  <2>2. /\ e \in Display1 /\ Clean(e) /\ e.index = d.index - 1 /\ SameBelow(e, d, d.index - 1)
    BY <1>1, <1>2, <2>1, PopFacts
  <2>3. d.index - 1 = EndOf(w)
    BY <1>2, <1>3
  <2> QED BY <2>2, <2>3
<1> HIDE DEF e
<1>5. MantissaShown(e.stack, w)
  <2>1. SameTo(d.stack, e.stack, EndOf(w))
    BY <1>4 DEF SameBelow, SameTo
  <2> QED BY <1>1, <2>1, MantissaKept
<1>6. display_remove(d, c) = e
  <2>1. ~(e.index = 1 /\ e.stack[0] = "-")
    <3> SUFFICES ASSUME e.index = 1, e.stack[0] = "-" PROVE FALSE
      OBVIOUS
    <3>1. w.neg
      BY <1>1, <1>5, SlotFacts
    <3>2. From(w) = 1
      BY <3>1 DEF From
    <3> QED BY <1>2, <1>4, <3>2
  <2>2. ~d.exp_entry /\ d.index > 1 /\ d.index # 1
    BY <1>1, <1>2, <1>3
  <2>3. display_remove(d, c) = update_display(e, c)
    BY <2>1, <2>2 DEF display_remove, e
  <2> QED BY <2>3, UpdateFloat
<1>7. Terminated(e)
  <2>1. e.index # 0
    BY <1>2, <1>4
  <2> QED BY <1>2, <1>4, <2>1, CleanTerminated
<1>8. ~e.error /\ e.exp_entry = w.exp.on /\ ~w.exp.on
  BY <1>1, <1>4 DEF SameBelow
<1>9. e.index = EndOf(w) + (IF w.exp.on THEN 2 + EXP_DIGITS ELSE 0)
  BY <1>2, <1>4, <1>8
<1>10. FloatShown(e, w, c)
  BY <1>1, <1>4, <1>5, <1>7, <1>8, <1>9 DEF FloatShown
<1> QED BY <1>6, <1>10

Zeroed(m) == [m EXCEPT !.int = <<0>>, !.neg = FALSE]

\* The last digit makes place for a zero, and takes the sign along.
LEMMA FloatZeroed ==
  ASSUME NEW c \in Configs, c.mode = "float", NEW m, NEW d, FloatShown(d, m, c), ~m.exp.on,
         m.frac = <<>>, ~m.point, ~(Len(m.int) > 1)
  PROVE  FloatShown(display_remove(d, c), Zeroed(m), c)
<1> DEFINE w == Zeroed(m)
           popped == disp_stack_pop(d)
           ZeroFirst(e) == [e EXCEPT !.stack[0] = "0"]
<1>1. /\ d \in Display1 /\ Terminated(d) /\ ~d.error /\ Readable(m, c) /\ d.exp_entry = m.exp.on
      /\ MantissaShown(d.stack, m) /\ m \in Decimals
  BY DEF FloatShown, Readable
<1>2. /\ DISP_MAX_LEN \in Nat /\ DISP_STACK_SIZE = DISP_MAX_LEN + 1 /\ c.digits \in Nat \ {0}
      /\ Len(m.int) = 1 /\ From(m) \in {0, 1} /\ EndOf(m) = From(m) + 1
  <2>1. /\ DISP_MAX_LEN \in Nat /\ DISP_STACK_SIZE = DISP_MAX_LEN + 1 /\ c.digits \in Nat \ {0}
        /\ Len(m.int) \in Nat \ {0} /\ From(m) \in Nat /\ From(m) <= 1
    BY <1>1, DecimalFacts
  <2>2. EndOf(m) = PointAt(m) /\ PointAt(m) = From(m) + Len(m.int)
    BY <1>1, PartFacts
  <2>3. Len(m.int) = 1
    <3> DEFINE n == Len(m.int)
    <3>1. n \in Nat \ {0} /\ ~(n > 1)
      BY <2>1
    <3> HIDE DEF n
    <3>2. n = 1
      BY <3>1
    <3> QED BY <3>2 DEF n
  <2>4. From(m) \in {0, 1}
    BY <2>1
  <2> QED BY <2>1, <2>2, <2>3, <2>4
<1>3. d.index = EndOf(m)
  <2>1. d.index = EndOf(m) + 0
    BY DEF FloatShown
  <2> QED BY <1>2, <2>1
<1>4. /\ w \in Decimals /\ w.neg = FALSE /\ w.int = <<0>> /\ w.point = FALSE /\ w.frac = <<>>
      /\ w.exp = m.exp
  <2>1. <<0>> \in Seq(0..9) /\ m.point = FALSE
    BY <1>1 DEF Decimals
  <2> QED BY <1>1, <2>1 DEF Zeroed, Decimals
<1> HIDE DEF w
<1>5. Len(w.int) = 1 /\ w.int # <<>> /\ Len(w.frac) = 0
  <2>1. Len(<<0>>) = 1 /\ <<0>> # <<>> /\ Len(<<>>) = 0
    OBVIOUS
  <2> QED BY <1>4, <2>1
<1>6. Readable(w, c)
  <2>1. Count(w) = 0 + 1
    BY <1>4, <1>5 DEF Count
  <2>2. Count(w) <= c.digits
    BY <1>2, <2>1
  <2> QED BY <1>1, <1>4, <1>5, <2>2 DEF Readable
<1>7. From(w) = 0 /\ EndOf(w) = 1
  <2>1. From(w) = 0
    BY <1>4 DEF From
  <2>2. EndOf(w) = (0 + 1) + 0
    BY <1>4, <1>5, <2>1 DEF EndOf, PointAt
  <2> QED BY <2>1, <2>2

\* One character is left, and a zero is written over it.
<1>8. ASSUME NEW b \in Display1, Clean(b), b.index = 1, ~b.error, b.exp_entry = d.exp_entry
      PROVE  FloatShown(ZeroFirst(b), w, c)
  <2> DEFINE e == ZeroFirst(b)
             t == [b.stack EXCEPT ![0] = "0"]
  <2>1. "0" \in Chars \ {NUL}
    <3>1. Digit[0 + 1] \in Range(Digit)
      BY DigitValues
    <3> QED BY <3>1, Signs DEF Chars
  <2>2. b.stack \in [Slot -> Chars] /\ 0 \in Slot
    BY <1>2, <1>8 DEF Display1, Slot
  <2>3. t \in [Slot -> Chars] /\ t[0] = "0" /\ \A i \in Slot : i # 0 => t[i] = b.stack[i]
    BY <2>1, <2>2
  <2> HIDE DEF t
  <2>4. e = [b EXCEPT !.stack = t]
    BY <1>8 DEF t, Display1
  <2>5. e \in Display1 /\ e.stack = t /\ e.index = 1 /\ e.exp_entry = d.exp_entry /\ ~e.error
    BY <1>8, <2>3, <2>4 DEF Display1
  <2> HIDE DEF e
  <2>6. Terminated(e)
    <3>1. 1 \in 1..DISP_MAX_LEN
      BY <1>8, <1>2 DEF Clean
    <3>2. ASSUME NEW i \in Slot PROVE t[i] = NUL <=> i >= 1
      <4>1. CASE i = 0
        BY <2>1, <2>3, <4>1
      <4>2. CASE i # 0
        BY <1>8, <2>3, <4>2 DEF Clean, Slot
      <4> QED BY <4>1, <4>2
    <3> QED BY <2>5, <3>1, <3>2 DEF Terminated
  <2>7. MantissaShown(t, w)
    <3>1. FiguresIn(t, 0, <<0>>)
      <4>1. Len(<<0>>) = 1 /\ <<0>>[1] = 0
        OBVIOUS
      <4>2. \A i \in 1..1 : i = 1 /\ 0 + (i - 1) = 0
        OBVIOUS
      <4>3. t[0] = Digit[0 + 1]
        BY <2>3, Signs
      <4> QED BY <4>1, <4>2, <4>3 DEF FiguresIn
    <3> QED BY <1>4, <1>7, <3>1 DEF MantissaShown
  <2>8. ~w.exp.on /\ e.exp_entry = w.exp.on
    BY <1>1, <1>4, <2>5
  <2>9. e.index = EndOf(w) + (IF w.exp.on THEN 2 + EXP_DIGITS ELSE 0)
    BY <1>7, <2>5, <2>8
  <2> QED BY <1>6, <2>5, <2>6, <2>7, <2>8, <2>9 DEF FloatShown, e
<1>9. Clean(d) /\ d.index # 0
  BY <1>1, <1>2, CleanTerminated
<1>10. CASE From(m) = 0
  <2>1. d.index = 1 /\ ~d.exp_entry
    BY <1>1, <1>2, <1>3, <1>10
  <2>2. display_remove(d, c) = update_display(ZeroFirst(d), c)
    BY <2>1 DEF display_remove
  <2>3. display_remove(d, c) = ZeroFirst(d)
    BY <2>2, UpdateFloat
  <2>4. FloatShown(ZeroFirst(d), w, c)
    BY <1>1, <1>8, <1>9, <2>1
  <2> QED BY <2>3, <2>4 DEF w
<1>11. CASE From(m) = 1
  <2>1. d.index = 2 /\ ~d.exp_entry /\ d.index > 1
    BY <1>1, <1>2, <1>3, <1>11
  <2>2. /\ popped \in Display1 /\ Clean(popped) /\ popped.index = 1
        /\ popped.stack[0] = d.stack[0]
        /\ popped.exp_entry = d.exp_entry /\ popped.error = d.error
    <3> HIDE DEF popped
    <3>1. popped = disp_stack_pop(d)
      BY DEF popped
    <3>2. /\ popped \in Display1 /\ Clean(popped) /\ popped.index = d.index - 1
          /\ SameBelow(popped, d, d.index - 1)
      BY <1>1, <1>2, <1>9, <3>1, PopFacts
    <3>3. d.index - 1 = 1 /\ 0 \in 0..(1 - 1)
      BY <2>1
    <3> QED BY <3>2, <3>3 DEF SameBelow
  <2>3. d.stack[0] = "-"
    <3>1. m.neg
      BY <1>11 DEF From
    <3> QED BY <1>1, <3>1 DEF MantissaShown
  <2>4. display_remove(d, c) = update_display(ZeroFirst(popped), c)
    BY <2>1, <2>2, <2>3 DEF display_remove
  <2>5. display_remove(d, c) = ZeroFirst(popped)
    BY <2>4, UpdateFloat
  <2>6. FloatShown(ZeroFirst(popped), w, c)
    <3> HIDE DEF popped
    <3> QED BY <1>1, <1>8, <2>2
  <2> QED BY <2>5, <2>6 DEF w
<1> QED BY <1>2, <1>10, <1>11

-----------------------------------------------------------------------------
(* The key EXP *)

IsSuffixed(f, d, n) ==
  f = [k \in 0..n |-> IF k = 0 THEN d ELSE disp_stack_push(f[k - 1], ExpSuffix[k], DISP_MAX_LEN)]
IsStripped(f, d, n) ==
  f = [k \in 0..n |-> IF k = 0 THEN d ELSE disp_stack_pop(f[k - 1])]

\* The recursive function that pushes the suffix exists.
LEMMA SuffixedExists ==
  ASSUME NEW d
  PROVE  \A n \in Nat : \E f : IsSuffixed(f, d, n)
<1> DEFINE S == {n \in Nat : \E f : IsSuffixed(f, d, n)}
<1>1. 0 \in S
  <2>1. \A k \in 0..0 : k = 0
    OBVIOUS
  <2>2. IsSuffixed([k \in 0..0 |-> d], d, 0)
    BY <2>1 DEF IsSuffixed
  <2> QED BY <2>2
<1>2. ASSUME NEW n \in Nat, n \in S PROVE n + 1 \in S
  <2>1. PICK f : IsSuffixed(f, d, n)
    BY <1>2
  <2> DEFINE Next1(b, k) == disp_stack_push(b, ExpSuffix[k], DISP_MAX_LEN)
             g == [k \in 0..(n + 1) |-> IF k <= n THEN f[k] ELSE Next1(f[k - 1], k)]
  <2>2. ASSUME NEW k \in 0..(n + 1)
        PROVE  g[k] = IF k = 0 THEN d ELSE Next1(g[k - 1], k)
    <3> HIDE DEF Next1
    <3>0. f = [j \in 0..n |-> IF j = 0 THEN d ELSE Next1(f[j - 1], j)]
      BY <2>1 DEF IsSuffixed, Next1
    <3>1. CASE k = 0
      <4>1. f[0] = d /\ 0 <= n /\ 0 \in 0..n
        BY <3>0
      <4> QED BY <3>1, <4>1
    <3>2. CASE k # 0
      <4>1. k - 1 \in 0..n
        BY <3>2
      <4>2. g[k - 1] = f[k - 1]
        BY <4>1
      <4>3. k <= n => f[k] = Next1(f[k - 1], k)
        BY <3>0, <3>2
      <4> QED BY <3>2, <4>2, <4>3
    <3> QED BY <3>1, <3>2
  <2>3. g = [k \in 0..(n + 1) |-> IF k = 0 THEN d ELSE Next1(g[k - 1], k)]
    <3>1. g = [k \in 0..(n + 1) |-> g[k]]
      OBVIOUS
    <3> HIDE DEF g, Next1
    <3> QED BY <3>1, <2>2
  <2>4. IsSuffixed(g, d, n + 1)
    <3> HIDE DEF g
    <3> QED BY <2>3 DEF IsSuffixed
  <2> QED BY <2>4
<1> HIDE DEF S
<1>3. \A n \in Nat : n \in S
  BY <1>1, <1>2, Induction
<1> QED BY <1>3 DEF S

\* The recursive function that pops the suffix exists.
LEMMA StrippedExists ==
  ASSUME NEW d
  PROVE  \A n \in Nat : \E f : IsStripped(f, d, n)
<1> DEFINE S == {n \in Nat : \E f : IsStripped(f, d, n)}
<1>1. 0 \in S
  <2>1. \A k \in 0..0 : k = 0
    OBVIOUS
  <2>2. IsStripped([k \in 0..0 |-> d], d, 0)
    BY <2>1 DEF IsStripped
  <2> QED BY <2>2
<1>2. ASSUME NEW n \in Nat, n \in S PROVE n + 1 \in S
  <2>1. PICK f : IsStripped(f, d, n)
    BY <1>2
  <2> DEFINE Next1(b) == disp_stack_pop(b)
             g == [k \in 0..(n + 1) |-> IF k <= n THEN f[k] ELSE Next1(f[k - 1])]
  <2>2. ASSUME NEW k \in 0..(n + 1)
        PROVE  g[k] = IF k = 0 THEN d ELSE Next1(g[k - 1])
    <3> HIDE DEF Next1
    <3>0. f = [j \in 0..n |-> IF j = 0 THEN d ELSE Next1(f[j - 1])]
      BY <2>1 DEF IsStripped, Next1
    <3>1. CASE k = 0
      <4>1. f[0] = d /\ 0 <= n /\ 0 \in 0..n
        BY <3>0
      <4> QED BY <3>1, <4>1
    <3>2. CASE k # 0
      <4>1. k - 1 \in 0..n
        BY <3>2
      <4>2. g[k - 1] = f[k - 1]
        BY <4>1
      <4>3. k <= n => f[k] = Next1(f[k - 1])
        BY <3>0, <3>2
      <4> QED BY <3>2, <4>2, <4>3
    <3> QED BY <3>1, <3>2
  <2>3. g = [k \in 0..(n + 1) |-> IF k = 0 THEN d ELSE Next1(g[k - 1])]
    <3>1. g = [k \in 0..(n + 1) |-> g[k]]
      OBVIOUS
    <3> HIDE DEF g, Next1
    <3> QED BY <3>1, <2>2
  <2>4. IsStripped(g, d, n + 1)
    <3> HIDE DEF g
    <3> QED BY <2>3 DEF IsStripped
  <2> QED BY <2>4
<1> HIDE DEF S
<1>3. \A n \in Nat : n \in S
  BY <1>1, <1>2, Induction
<1> QED BY <1>3 DEF S

TurnedOn(f, d, c) ==
  /\ IsSuffixed(f, d, Len(ExpSuffix))
  /\ display_set_exp_entry(d, TRUE, c) = [f[Len(ExpSuffix)] EXCEPT !.exp_entry = TRUE]

\* display_set_exp_entry, turned on, runs the first function.
LEMMA EntryOn ==
  ASSUME NEW d, NEW c, c.mode = "float", ~d.exp_entry, Len(ExpSuffix) \in Nat,
         d.exp_entry \in BOOLEAN
  PROVE  \E f : TurnedOn(f, d, c)
<1> DEFINE f == CHOOSE f : IsSuffixed(f, d, Len(ExpSuffix))
           last == f[Len(ExpSuffix)]
<1>1. IsSuffixed(f, d, Len(ExpSuffix))
  <2>1. \E g : IsSuffixed(g, d, Len(ExpSuffix))
    BY SuffixedExists
  <2> QED BY <2>1, Zenon
<1>2. ~(c.mode # "float" \/ TRUE = d.exp_entry)
  OBVIOUS
<1>3. display_set_exp_entry(d, TRUE, c) = [update_display(last, c) EXCEPT !.exp_entry = TRUE]
  BY <1>2, Zenon DEF display_set_exp_entry, IsSuffixed
<1> HIDE DEF f
<1>4. update_display(last, c) = last
  BY UpdateFloat
<1>5. TurnedOn(f, d, c)
  BY <1>1, <1>3, <1>4 DEF TurnedOn
<1> QED BY <1>5

TurnedOff(f, d, c) ==
  /\ IsStripped(f, d, Len(ExpSuffix))
  /\ display_set_exp_entry(d, FALSE, c) = [f[Len(ExpSuffix)] EXCEPT !.exp_entry = FALSE]

\* display_set_exp_entry, turned off, runs the second one.
LEMMA EntryOff ==
  ASSUME NEW d, NEW c, c.mode = "float", d.exp_entry, Len(ExpSuffix) \in Nat,
         d.exp_entry \in BOOLEAN
  PROVE  \E f : TurnedOff(f, d, c)
<1> DEFINE f == CHOOSE f : IsStripped(f, d, Len(ExpSuffix))
           last == f[Len(ExpSuffix)]
<1>1. IsStripped(f, d, Len(ExpSuffix))
  <2>1. \E g : IsStripped(g, d, Len(ExpSuffix))
    BY StrippedExists
  <2> QED BY <2>1, Zenon
<1>2. ~(c.mode # "float" \/ FALSE = d.exp_entry)
  OBVIOUS
<1>3. display_set_exp_entry(d, FALSE, c) = [update_display(last, c) EXCEPT !.exp_entry = FALSE]
  BY <1>2, Zenon DEF display_set_exp_entry, IsStripped
<1> HIDE DEF f
<1>4. update_display(last, c) = last
  BY UpdateFloat
<1>5. TurnedOff(f, d, c)
  BY <1>1, <1>3, <1>4 DEF TurnedOff
<1> QED BY <1>5

\* What is shown after k characters of the suffix: e is d with them behind it.
SuffixedTo(e, d, k) ==
  /\ e \in Display1 /\ Clean(e) /\ e.index = d.index + k /\ SameBelow(e, d, d.index)
  /\ \A i \in 1..k : e.stack[d.index + (i - 1)] = ExpSuffix[i]

\* The suffix is pushed behind what was there.
LEMMA SuffixPushed ==
  ASSUME NEW d \in Display1, Clean(d), DISP_MAX_LEN \in Nat, DISP_STACK_SIZE = DISP_MAX_LEN + 1,
         EXP_DIGITS \in Nat \ {0}, d.index + (2 + EXP_DIGITS) <= DISP_MAX_LEN,
         NEW n, n = 2 + EXP_DIGITS, NEW f, IsSuffixed(f, d, n)
  PROVE  SuffixedTo(f[n], d, n)
<1> DEFINE S == {k \in 0..n : SuffixedTo(f[k], d, k)}
<1>1. n \in Nat /\ d.index \in Nat /\ d.index + n <= DISP_MAX_LEN
  BY DEF Clean
<1>2. 0 \in S
  <2>1. f[0] = d
    BY <1>1 DEF IsSuffixed
  <2>2. SuffixedTo(d, d, 0)
    BY <1>1 DEF SuffixedTo, SameBelow
  <2> QED BY <1>1, <2>1, <2>2
<1>3. ASSUME NEW k \in 0..(n - 1), k \in S PROVE k + 1 \in S
  <2> DEFINE b == f[k]
             e == f[k + 1]
             ch == ExpSuffix[k + 1]
             limit == DISP_MAX_LEN
  <2>1. SuffixedTo(b, d, k) /\ k \in Nat /\ k + 1 <= n
    BY <1>1, <1>3
  <2>2. e = disp_stack_push(b, ch, limit)
    <3>1. k + 1 \in 0..n /\ k + 1 # 0 /\ (k + 1) - 1 = k
      BY <1>1
    <3> QED BY <3>1 DEF IsSuffixed
  <2>3. ch \in Chars \ {NUL}
    <3>1. /\ ExpSuffix \in Seq({"e", "+", "0"}) /\ Len(ExpSuffix) = n
      BY SuffixFacts
    <3>2. k + 1 \in 1..n
      BY <2>1
    <3>3. ch \in {"e", "+", "0"}
      BY <3>1, <3>2
    <3>4. "0" \in Range(Digit)
      <4>1. Digit[0 + 1] \in Range(Digit)
        BY DigitValues
      <4> QED BY <4>1, Signs
    <3> QED BY <3>3, <3>4, Signs DEF Chars, NUL
  <2> HIDE DEF b, e, ch
  <2>4. b \in Display1 /\ Clean(b) /\ b.index = d.index + k /\ b.index < limit /\ limit \in Nat
    BY <1>1, <2>1 DEF SuffixedTo
  <2> HIDE DEF limit
  <2>5. /\ e \in Display1 /\ Clean(e) /\ e.index = b.index + 1
        /\ e.stack[b.index] = ch /\ SameBelow(e, b, b.index)
    <3>1. limit <= DISP_MAX_LEN
      BY DEF limit
    <3> QED BY <2>2, <2>3, <2>4, <3>1, PushFacts
  <2>6. SameBelow(e, d, d.index)
    <3>1. \A i \in 0..(d.index - 1) : i \in 0..(b.index - 1)
      BY <1>1, <2>1, <2>4
    <3> QED BY <2>1, <2>5, <3>1 DEF SameBelow, SuffixedTo
  <2>7. ASSUME NEW i \in 1..(k + 1) PROVE e.stack[d.index + (i - 1)] = ExpSuffix[i]
    <3>1. CASE i = k + 1
      <4>1. d.index + (i - 1) = b.index
        BY <1>1, <2>1, <2>4, <3>1
      <4> QED BY <2>5, <3>1, <4>1 DEF ch
    <3>2. CASE i # k + 1
      <4>1. i \in 1..k /\ d.index + (i - 1) \in 0..(b.index - 1)
        BY <1>1, <2>1, <2>4, <3>2
      <4> QED BY <2>1, <2>5, <4>1 DEF SuffixedTo, SameBelow
    <3> QED BY <3>1, <3>2
  <2>8. e.index = d.index + (k + 1)
    BY <1>1, <2>1, <2>4, <2>5
  <2>9. SuffixedTo(e, d, k + 1)
    BY <2>5, <2>6, <2>7, <2>8 DEF SuffixedTo
  <2> QED BY <1>1, <2>1, <2>9 DEF e
<1> HIDE DEF S
<1>4. \A k \in 0..n : k \in S
  BY <1>1, <1>2, <1>3, Along
<1>5. n \in S
  BY <1>1, <1>4
<1> QED BY <1>5 DEF S

StrippedTo(e, d, k) ==
  e \in Display1 /\ Clean(e) /\ e.index = d.index - k /\ SameBelow(e, d, d.index - k)

\* As many characters are popped as the suffix has.
LEMMA SuffixPopped ==
  ASSUME NEW d \in Display1, Clean(d), DISP_MAX_LEN \in Nat, DISP_STACK_SIZE = DISP_MAX_LEN + 1,
         NEW n \in Nat, n <= d.index, NEW f, IsStripped(f, d, n)
  PROVE  StrippedTo(f[n], d, n)
<1> DEFINE S == {k \in 0..n : StrippedTo(f[k], d, k)}
<1>1. n \in Nat /\ d.index \in Nat
  BY DEF Clean
<1>2. 0 \in S
  <2>1. f[0] = d
    BY <1>1 DEF IsStripped
  <2>2. StrippedTo(d, d, 0)
    BY <1>1 DEF StrippedTo, SameBelow
  <2> QED BY <1>1, <2>1, <2>2
<1>3. ASSUME NEW k \in 0..(n - 1), k \in S PROVE k + 1 \in S
  <2> DEFINE b == f[k]
             e == f[k + 1]
  <2>1. StrippedTo(b, d, k) /\ k \in Nat /\ k + 1 <= n
    BY <1>1, <1>3
  <2>2. e = disp_stack_pop(b)
    <3>1. k + 1 \in 0..n /\ k + 1 # 0 /\ (k + 1) - 1 = k
      BY <1>1
    <3> QED BY <3>1 DEF IsStripped
  <2> HIDE DEF b, e
  <2>4. b \in Display1 /\ Clean(b) /\ b.index = d.index - k /\ b.index # 0
    BY <1>1, <2>1 DEF StrippedTo
  <2>5. e \in Display1 /\ Clean(e) /\ e.index = b.index - 1 /\ SameBelow(e, b, b.index - 1)
    BY <2>2, <2>4, PopFacts
  <2>8. e.index = d.index - (k + 1) /\ b.index - 1 = d.index - (k + 1)
    BY <1>1, <2>1, <2>4, <2>5
  <2>6. SameBelow(e, d, d.index - (k + 1))
    <3>1. \A i \in 0..((d.index - (k + 1)) - 1) : i \in 0..((d.index - k) - 1)
      BY <1>1, <2>1
    <3> QED BY <2>1, <2>5, <2>8, <3>1 DEF SameBelow, StrippedTo
  <2>9. StrippedTo(e, d, k + 1)
    BY <2>5, <2>6, <2>8 DEF StrippedTo
  <2> QED BY <1>1, <2>1, <2>9 DEF e
<1> HIDE DEF S
<1>4. \A k \in 0..n : k \in S
  BY <1>1, <1>2, <1>3, Along
<1>5. n \in S
  BY <1>1, <1>4
<1> QED BY <1>5 DEF S

\* Zeros are zero.
LEMMA ZerosAre ==
  ASSUME NEW d, NEW from \in Nat, NEW to \in Nat, from <= to,
         \A i \in from..(to - 1) : d.stack[i] = "0"
  PROVE  DigitsIn(d.stack, from, to, 10) /\ Magnitude(d, from, to, 10) = 0
<1>1. "0" \in Range(Digit) /\ DigitValue["0"] = 0
  <2>1. Digit[0 + 1] \in Range(Digit) /\ DigitValue[Digit[0 + 1]] = 0 /\ Digit[0 + 1] = "0"
    BY DigitValues, Signs
  <2> QED BY <2>1
<1>2. DigitsIn(d.stack, from, to, 10)
  BY <1>1 DEF DigitsIn
<1>3. PICK f : Counts(f, d.stack, from, to, 10) /\ Magnitude(d, from, to, 10) = f[to]
  BY MagnitudeCounts
<1> DEFINE S == {i \in from..to : f[i] = 0}
<1>4. from \in S
  BY <1>3 DEF Counts
<1>5. ASSUME NEW i \in from..(to - 1), i \in S PROVE i + 1 \in S
  <2>1. f[i] = 0 /\ d.stack[i] = "0" /\ i + 1 \in from..to
    BY <1>5
  <2>2. f[i + 1] = 0 * 10 + DigitValue["0"]
    BY <1>3, <2>1 DEF Counts
  <2> QED BY <1>1, <2>1, <2>2
<1> HIDE DEF S
<1>6. \A i \in from..to : i \in S
  BY <1>4, <1>5, Along
<1>7. to \in S
  BY <1>6
<1> QED BY <1>2, <1>3, <1>7 DEF S

ZeroExponent == [on |-> TRUE, neg |-> FALSE, n |-> 0]

\* EXP adds the exponent +000.
LEMMA ExponentBegun ==
  ASSUME NEW c \in Configs, c.mode = "float", NEW m, NEW d, FloatShown(d, m, c), ~m.exp.on
  PROVE  FloatShown(display_set_exp_entry(d, TRUE, c), WithExponent(m, ZeroExponent), c)
<1> DEFINE w == WithExponent(m, ZeroExponent)
           end == EndOf(m)
           n == Len(ExpSuffix)
<1>1. /\ d \in Display1 /\ Terminated(d) /\ ~d.error /\ Readable(m, c) /\ d.exp_entry = m.exp.on
      /\ MantissaShown(d.stack, m) /\ d.exp_entry \in BOOLEAN
  BY DEF FloatShown, Display1
<1>2. /\ end \in Nat \ {0} /\ EXP_DIGITS \in Nat \ {0} /\ DISP_MAX_LEN \in Nat
      /\ DISP_STACK_SIZE = DISP_MAX_LEN + 1 /\ end + (2 + EXP_DIGITS) <= DISP_MAX_LEN
  <2>1. /\ end \in Nat \ {0} /\ EXP_DIGITS \in Nat \ {0} /\ DISP_MAX_LEN \in Nat
        /\ DISP_STACK_SIZE = DISP_MAX_LEN + 1 /\ end + 2 + EXP_DIGITS <= DISP_MAX_LEN
    BY <1>1, DecimalFacts
  <2> HIDE DEF end
  <2> QED BY <2>1
<1>3. d.index = end
  <2>1. d.index = EndOf(m) + 0
    BY DEF FloatShown
  <2> QED BY <1>2, <2>1
<1>4. n = 2 + EXP_DIGITS /\ n \in Nat
  BY <1>2, SuffixFacts
<1>5. PICK f : /\ IsSuffixed(f, d, n)
               /\ display_set_exp_entry(d, TRUE, c) = [f[n] EXCEPT !.exp_entry = TRUE]
  <2>1. ~d.exp_entry /\ Len(ExpSuffix) \in Nat
    BY <1>1, <1>4
  <2>2. \E f : TurnedOn(f, d, c)
    BY <1>1, <2>1, EntryOn
  <2> QED BY <2>2 DEF TurnedOn
<1> HIDE DEF n
<1> DEFINE b == f[n]
           e == [b EXCEPT !.exp_entry = TRUE]
<1>6. SuffixedTo(b, d, n)
  <2>1. Clean(d) /\ d.index + (2 + EXP_DIGITS) <= DISP_MAX_LEN
    BY <1>1, <1>2, <1>3, CleanTerminated
  <2> QED BY <1>1, <1>2, <1>4, <1>5, <2>1, SuffixPushed
<1> HIDE DEF b
<1>7. /\ e \in Display1 /\ e.stack = b.stack /\ e.index = end + n /\ e.exp_entry = TRUE /\ ~e.error
      /\ Clean(b)
  BY <1>1, <1>3, <1>6 DEF SuffixedTo, SameBelow, Display1
<1>8. Terminated(e)
  <2>1. e.index # 0 /\ Clean(e)
    BY <1>2, <1>4, <1>7 DEF Clean, SuffixedTo
  <2> QED BY <1>2, <2>1, CleanTerminated
<1> HIDE DEF e
<1>9. /\ Readable(w, c) /\ w.exp = ZeroExponent /\ EndOf(w) = end
      /\ \A s : MantissaShown(s, m) => MantissaShown(s, w)
  <2>1. ZeroExponent \in [on : BOOLEAN, neg : BOOLEAN, n : Nat] /\ ZeroExponent.on
    BY DEF ZeroExponent
  <2> QED BY <1>1, <2>1, ExponentApart
<1>10. MantissaShown(e.stack, w)
  <2>1. SameTo(d.stack, b.stack, EndOf(m))
    BY <1>3, <1>6 DEF SuffixedTo, SameBelow, SameTo
  <2>2. MantissaShown(b.stack, m)
    BY <1>1, <2>1, MantissaKept
  <2> QED BY <1>7, <1>9, <2>2
<1>11. ExponentShown(e, end, ZeroExponent)
  <2> HIDE DEF end
  <2>1. \A i \in 1..n : b.stack[end + (i - 1)] = ExpSuffix[i]
    BY <1>3, <1>6 DEF SuffixedTo
  <2>2. /\ ExpSuffix[1] = "e" /\ ExpSuffix[2] = "+" /\ \A i \in 3..(2 + EXP_DIGITS) : ExpSuffix[i] = "0"
    BY <1>2, SuffixFacts
  <2>3. e.stack[end] = "e" /\ e.stack[end + 1] = "+"
    <3>1. 1 \in 1..n /\ 2 \in 1..n /\ end + (1 - 1) = end /\ end + (2 - 1) = end + 1
      BY <1>2, <1>4
    <3> QED BY <1>7, <2>1, <2>2, <3>1
  <2> DEFINE from == end + 2
             to == end + n
  <2>4. from \in Nat /\ to \in Nat /\ from <= to
    BY <1>2, <1>4
  <2>5. \A i \in from..(to - 1) : e.stack[i] = "0"
    <3> SUFFICES ASSUME NEW i \in from..(to - 1) PROVE e.stack[i] = "0"
      OBVIOUS
    <3>1. (i - end) + 1 \in 3..(2 + EXP_DIGITS) /\ (i - end) + 1 \in 1..n /\ end + (((i - end) + 1) - 1) = i
      BY <1>2, <1>4
    <3> QED BY <1>7, <2>1, <2>2, <3>1
  <2> HIDE DEF from, to
  <2>6. DigitsIn(e.stack, from, to, 10) /\ Magnitude(e, from, to, 10) = 0
    BY <2>4, <2>5, ZerosAre
  <2>7. e.index = to
    BY <1>7 DEF to
  <2> QED BY <2>3, <2>6, <2>7 DEF ExponentShown, ZeroExponent, from
<1>12. w.exp.on
  BY <1>9 DEF ZeroExponent
<1>13. e.index = EndOf(w) + (IF w.exp.on THEN 2 + EXP_DIGITS ELSE 0)
  BY <1>4, <1>7, <1>9, <1>12
<1>14. e.exp_entry = w.exp.on
  <2>1. w.exp.on = TRUE
    BY <1>9 DEF ZeroExponent
  <2> QED BY <1>7, <2>1
<1>15. FloatShown(e, w, c)
  BY <1>7, <1>8, <1>9, <1>10, <1>11, <1>13, <1>14 DEF FloatShown
<1> QED BY <1>5, <1>15 DEF e, b

\* EXP takes the exponent away again.
LEMMA ExponentDropped ==
  ASSUME NEW c \in Configs, c.mode = "float", NEW m, NEW d, FloatShown(d, m, c), m.exp.on
  PROVE  FloatShown(display_set_exp_entry(d, FALSE, c), WithExponent(m, NoExponent), c)
<1> DEFINE w == WithExponent(m, NoExponent)
           end == EndOf(m)
           n == Len(ExpSuffix)
<1>1. /\ d \in Display1 /\ Terminated(d) /\ ~d.error /\ Readable(m, c) /\ d.exp_entry = m.exp.on
      /\ MantissaShown(d.stack, m) /\ d.exp_entry \in BOOLEAN
  BY DEF FloatShown, Display1
<1>2. /\ end \in Nat \ {0} /\ EXP_DIGITS \in Nat \ {0} /\ DISP_MAX_LEN \in Nat
      /\ DISP_STACK_SIZE = DISP_MAX_LEN + 1
  BY <1>1, DecimalFacts
<1>4. n = 2 + EXP_DIGITS /\ n \in Nat
  BY <1>2, SuffixFacts
<1>3. d.index = end + n /\ d.index - n = end /\ n <= d.index
  <2>1. d.index = EndOf(m) + (2 + EXP_DIGITS)
    BY DEF FloatShown
  <2>2. d.index = end + n
    BY <1>4, <2>1
  <2> HIDE DEF end, n
  <2> QED BY <1>2, <1>4, <2>2
<1>5. PICK f : /\ IsStripped(f, d, n)
               /\ display_set_exp_entry(d, FALSE, c) = [f[n] EXCEPT !.exp_entry = FALSE]
  <2>1. d.exp_entry /\ Len(ExpSuffix) \in Nat
    BY <1>1, <1>4
  <2>2. \E f : TurnedOff(f, d, c)
    BY <1>1, <2>1, EntryOff
  <2> QED BY <2>2 DEF TurnedOff
<1> HIDE DEF n
<1> DEFINE b == f[n]
           e == [b EXCEPT !.exp_entry = FALSE]
<1>6. StrippedTo(b, d, n)
  <2>1. Clean(d)
    BY <1>1, <1>2, CleanTerminated
  <2> QED BY <1>1, <1>2, <1>3, <1>4, <1>5, <2>1, SuffixPopped
<1> HIDE DEF b
<1>7. /\ e \in Display1 /\ e.stack = b.stack /\ e.index = end /\ e.exp_entry = FALSE /\ ~e.error
      /\ Clean(b) /\ b.index = end
  BY <1>1, <1>3, <1>6 DEF StrippedTo, SameBelow, Display1
<1>8. Terminated(e)
  <2>1. e.index # 0 /\ Clean(e)
    BY <1>2, <1>7 DEF Clean
  <2> QED BY <1>2, <2>1, CleanTerminated
<1> HIDE DEF e
<1>9. /\ Readable(w, c) /\ w.exp = NoExponent /\ EndOf(w) = end
      /\ \A s : MantissaShown(s, m) => MantissaShown(s, w)
  <2>1. NoExponent \in [on : BOOLEAN, neg : BOOLEAN, n : Nat]
    BY DEF NoExponent
  <2> QED BY <1>1, <2>1, ExponentApart
<1>10. MantissaShown(e.stack, w)
  <2>1. SameTo(d.stack, b.stack, EndOf(m))
    BY <1>3, <1>6 DEF StrippedTo, SameBelow, SameTo
  <2>2. MantissaShown(b.stack, m)
    BY <1>1, <2>1, MantissaKept
  <2> QED BY <1>7, <1>9, <2>2
<1>12. ~w.exp.on /\ w.exp.on = FALSE
  BY <1>9 DEF NoExponent
<1>13. e.index = EndOf(w) + (IF w.exp.on THEN 2 + EXP_DIGITS ELSE 0)
  BY <1>2, <1>7, <1>9, <1>12
<1>15. FloatShown(e, w, c)
  BY <1>7, <1>8, <1>9, <1>10, <1>12, <1>13 DEF FloatShown
<1> QED BY <1>5, <1>15 DEF e, b

-----------------------------------------------------------------------------
(* The inductive invariant *)

Shows(d, c, pending) ==
  /\ d \in Display1 /\ ~d.error /\ Terminated(d)
  /\ c.mode = "int" => \E n \in Int : IntStored(d, n, c) /\ (pending => n \in Nat)
  /\ c.mode = "float" /\ pending => \E m \in Decimals : FloatShown(d, m, c)

DisplayInv ==
  /\ cfg \in Configs /\ arg_pending \in BOOLEAN
  /\ Shows(disp, cfg, arg_pending)

\* EnteredDecimal, as an operator of the display.
LEMMA EnteredIs == EnteredDecimal = DecimalOf(disp)
  BY DEF EnteredDecimal, DecimalOf, PointIn, ValuesIn

\* The invariant gives the types.
LEMMA InvTypeOK == DisplayInv => TypeOK
BY DEF DisplayInv, Shows, TypeOK, Display1

\* The invariant gives the termination.
LEMMA InvNulTerminated == DisplayInv => NulTerminated
BY DEF DisplayInv, Shows, NulTerminated, Terminated

\* The invariant gives IvalIsShown: the number shown is unique.
LEMMA InvIvalIsShown ==
  ASSUME DisplayInv
  PROVE  IvalIsShown
<1> SUFFICES ASSUME cfg.mode = "int"
             PROVE  /\ InRange(DisplayNumber(disp, cfg), cfg)
                    /\ disp.ival = DisplayNumber(disp, cfg) % 2^cfg.width
                    /\ Text(disp) = Printed(DisplayNumber(disp, cfg), Base(cfg))
  BY DEF IvalIsShown
<1>1. PICK n \in Int : IntStored(disp, n, cfg)
  BY DEF DisplayInv, Shows
<1>2. cfg \in Configs /\ disp \in Display1 /\ IntShown(disp, n, cfg) /\ InRange(n, cfg)
      /\ disp.ival = n % 2^cfg.width
  BY <1>1 DEF DisplayInv, IntStored
<1>3. DisplayNumber(disp, cfg) = n
  BY <1>2, IntRead
<1>4. Text(disp) = Printed(n, Base(cfg))
  BY <1>2, IntText
<1> QED BY <1>2, <1>3, <1>4

\* The invariant gives EntryReadsBack: the decimal shown is unique.
LEMMA InvEntryReadsBack ==
  ASSUME DisplayInv
  PROVE  EntryReadsBack
<1> DEFINE m == EnteredDecimal
<1> SUFFICES ASSUME arg_pending, cfg.mode = "float"
             PROVE  /\ Text(disp) = Rendered(m)
                    /\ m.int # <<>>
                    /\ m.int[1] = 0 => Len(m.int) = 1
                    /\ Len(m.frac) + (IF m.point /\ m.int = <<0>> THEN 0 ELSE Len(m.int)) <= cfg.digits
  BY DEF EntryReadsBack
<1>1. cfg \in Configs /\ \E w \in Decimals : FloatShown(disp, w, cfg)
  BY DEF DisplayInv, Shows
<1>2. PICK w \in Decimals : FloatShown(disp, w, cfg)
  BY <1>1
<1>3. m = w
  <2>1. DecimalOf(disp) = w
    BY <1>1, <1>2, DecimalRead
  <2> QED BY <2>1, EnteredIs
<1>4. Text(disp) = Rendered(w)
  BY <1>1, <1>2, FloatText
<1>5. Readable(w, cfg)
  BY <1>2 DEF FloatShown
<1>6. /\ w.int # <<>>
      /\ w.int[1] = 0 => Len(w.int) = 1
      /\ Len(w.frac) + (IF w.point /\ w.int = <<0>> THEN 0 ELSE Len(w.int)) <= cfg.digits
  BY <1>5 DEF Readable, Count
<1> QED BY <1>3, <1>4, <1>6

\* The invariant gives NumberIsShown.
LEMMA InvNumberIsShown == DisplayInv => NumberIsShown
<1> SUFFICES ASSUME DisplayInv PROVE NumberIsShown
  OBVIOUS
<1>1. NoDispError
  BY DEF DisplayInv, Shows, NoDispError
<1> QED BY <1>1, InvIvalIsShown, InvEntryReadsBack DEF NumberIsShown

\* The invariant gives DigitTaken: what each digit key would do.
LEMMA InvDigitTaken == DisplayInv => DigitTaken
<1> SUFFICES ASSUME DisplayInv, arg_pending, ~disp.exp_entry,
                    NEW k \in IF cfg.mode = "int" THEN {n \in IntKeys : n < Base(cfg)} ELSE FloatKeys
             PROVE  LET added  == display_add(disp, Digit[k + 1], cfg)
                        longer == disp.ival * Base(cfg) + k
                        m      == EnteredDecimal
                        count  == Len(m.frac) + (IF m.point /\ m.int = <<0>> THEN 0 ELSE Len(m.int))
                    IN IF cfg.mode = "int"
                       THEN /\ added.ival = IF InRange(longer, cfg) THEN longer ELSE disp.ival
                            /\ display_add_returns(disp, Digit[k + 1], cfg)
                                 <=> SignedDec(cfg) /\ longer = 2^(cfg.width - 1)
                       ELSE strlen(added) > strlen(disp) <=> count < cfg.digits /\ ~LoneZero(disp)
  BY DEF DigitTaken
<1> DEFINE added == display_add(disp, Digit[k + 1], cfg)
<1>0. cfg \in Configs /\ cfg.mode \in {"int", "float"} /\ DISP_MAX_LEN \in Nat
  <2>1. cfg \in Configs
    BY DEF DisplayInv
  <2> QED BY <2>1, SettingsFacts
<1>1. CASE cfg.mode = "int"
  <2>1. k \in 0..15 /\ k < Base(cfg)
    <3>1. k \in IntKeys /\ k < Base(cfg)
      BY <1>1
    <3> QED BY <3>1, InputsAssumption
  <2>2. PICK n \in Int : IntStored(disp, n, cfg) /\ n \in Nat
    BY <1>1 DEF DisplayInv, Shows
  <2>3. /\ IntStored(added, Added(n, k, cfg), cfg)
        /\ Added(n, k, cfg) \in Nat
        /\ display_add_returns(disp, Digit[k + 1], cfg)
             <=> SignedDec(cfg) /\ n * Base(cfg) + k = 2^(cfg.width - 1)
    BY <1>0, <1>1, <2>1, <2>2, AddInt
  <2> HIDE DEF added
  <2>4. disp.ival = n
    <3>1. InRange(n, cfg) /\ disp.ival = n % 2^cfg.width
      BY <2>2 DEF IntStored
    <3> QED BY <1>0, <2>2, <3>1, RangeFacts
  <2>5. added.ival = Added(n, k, cfg)
    <3>1. InRange(Added(n, k, cfg), cfg) /\ added.ival = Added(n, k, cfg) % 2^cfg.width
      BY <2>3 DEF IntStored
    <3>2. Added(n, k, cfg) \in Int
      BY <2>3
    <3> QED BY <1>0, <2>3, <3>1, <3>2, RangeFacts
  <2>6. added.ival = IF InRange(disp.ival * Base(cfg) + k, cfg) THEN disp.ival * Base(cfg) + k ELSE disp.ival
    BY <2>4, <2>5 DEF Added
  <2>7. display_add_returns(disp, Digit[k + 1], cfg)
          <=> SignedDec(cfg) /\ disp.ival * Base(cfg) + k = 2^(cfg.width - 1)
    BY <2>3, <2>4
  <2> QED BY <1>1, <2>6, <2>7 DEF added
<1>2. CASE cfg.mode = "float"
  <2>1. k \in 0..9
    <3>1. k \in FloatKeys
      BY <1>2
    <3> QED BY <3>1, InputsAssumption
  <2>2. PICK m \in Decimals : FloatShown(disp, m, cfg)
    BY <1>2 DEF DisplayInv, Shows
  <2>3. ~m.exp.on
    BY <2>2 DEF FloatShown
  <2>4. /\ FloatShown(added, WithFigure(m, k, cfg), cfg)
        /\ disp.index < added.index <=> Count(m) < cfg.digits /\ ~LoneZero(disp)
    BY <1>0, <1>2, <2>1, <2>2, <2>3, AddFigure
  <2> HIDE DEF added
  <2>5. strlen(added) = added.index /\ added.index \in Nat
    <3>1. added \in Display1 /\ Terminated(added)
      BY <2>4 DEF FloatShown
    <3> QED BY <1>0, <3>1, TextOf DEF Display1
  <2>6. strlen(disp) = disp.index /\ disp.index \in Nat
    <3>1. disp \in Display1 /\ Terminated(disp)
      BY <2>2 DEF FloatShown
    <3> QED BY <1>0, <3>1, TextOf DEF Display1
  <2>7. EnteredDecimal = m
    BY <1>0, <2>2, DecimalRead, EnteredIs
  <2>8. strlen(added) > strlen(disp) <=> Count(m) < cfg.digits /\ ~LoneZero(disp)
    BY <2>4, <2>5, <2>6
  <2>9. cfg.mode # "int"
    BY <1>2
  <2> QED BY <2>7, <2>8, <2>9 DEF Count, added
<1> QED BY <1>0, <1>1, <1>2

-----------------------------------------------------------------------------
(* What the abstract specification sees *)

NothingTyped == [neg |-> FALSE, int |-> <<>>, point |-> FALSE, frac |-> <<>>, exp |-> NoExponent]
ShownWord    == IF cfg.mode = "int" THEN disp.ival ELSE 0
ShownDecimal == IF cfg.mode = "float" /\ arg_pending THEN EnteredDecimal ELSE NothingTyped

WordIn(d, c)             == IF c.mode = "int" THEN d.ival ELSE 0
DecimalIn(d, c, pending) == IF c.mode = "float" /\ pending THEN DecimalOf(d) ELSE NothingTyped

\* The word and the decimal that NumberEntry sees, before and after a step.
LEMMA ShownIs ==
  /\ ShownWord = WordIn(disp, cfg) /\ ShownWord' = WordIn(disp', cfg')
  /\ ShownDecimal = DecimalIn(disp, cfg, arg_pending)
  /\ ShownDecimal' = DecimalIn(disp', cfg', arg_pending')
<1>1. EnteredDecimal = DecimalOf(disp) /\ EnteredDecimal' = DecimalOf(disp')
  BY DEF EnteredDecimal, DecimalOf, PointIn, ValuesIn
<1> QED BY <1>1 DEF ShownWord, ShownDecimal, WordIn, DecimalIn

\* What NumberEntry sees of a display that stores an integer.
LEMMA EntryWord ==
  ASSUME NEW c \in Configs, NEW d, NEW n, IntStored(d, n, c), c.mode = "int", NEW pending \in BOOLEAN,
         pending => n \in Nat
  PROVE  /\ Shows(d, c, pending)
         /\ WordIn(d, c) = n % 2^c.width /\ WordIn(d, c) \in Nat /\ WordIn(d, c) < 2^c.width
         /\ n \in Nat => WordIn(d, c) = n
         /\ DecimalIn(d, c, pending) = NothingTyped
<1>1. d \in Display1 /\ ~d.error /\ Terminated(d) /\ InRange(n, c) /\ d.ival = n % 2^c.width /\ n \in Int
  BY DEF IntStored, IntShown
<1>2. c.mode # "float"
  OBVIOUS
<1>3. Shows(d, c, pending)
  BY <1>1, <1>2 DEF Shows
<1>4. /\ n % 2^c.width \in Nat /\ n % 2^c.width < 2^c.width
      /\ n \in Nat => n % 2^c.width = n
  BY <1>1, RangeFacts
<1> QED BY <1>1, <1>2, <1>3, <1>4 DEF WordIn, DecimalIn

\* What NumberEntry sees of a display that shows a decimal.
LEMMA EntryDecimal ==
  ASSUME NEW c \in Configs, NEW d, NEW m, FloatShown(d, m, c), c.mode = "float"
  PROVE  /\ Shows(d, c, TRUE)
         /\ WordIn(d, c) = 0
         /\ DecimalIn(d, c, TRUE) = m
<1>1. d \in Display1 /\ ~d.error /\ Terminated(d) /\ m \in Decimals
  BY DEF FloatShown, Readable
<1>2. c.mode # "int"
  OBVIOUS
<1>3. Shows(d, c, TRUE)
  BY <1>1, <1>2 DEF Shows
<1>4. DecimalOf(d) = m
  BY DecimalRead
<1> QED BY <1>2, <1>3, <1>4 DEF WordIn, DecimalIn

\* What NumberEntry sees of a result in floating point mode.
LEMMA EntryResult ==
  ASSUME NEW c \in Configs, c.mode = "float", NEW d \in Display1, ~d.error, NEW v \in FloatTexts
  PROVE  /\ Shows(display_set_val(d, v, c), c, FALSE)
         /\ WordIn(display_set_val(d, v, c), c) = 0
         /\ DecimalIn(display_set_val(d, v, c), c, FALSE) = NothingTyped
<1> DEFINE e == display_set_val(d, v, c)
<1>1. e = Written(d, v)
  <2>1. e = update_display(Written(d, v), c)
    BY DEF display_set_val, display_set_text, Written
  <2> QED BY <2>1, UpdateFloat
<1>2. e \in Display1 /\ Terminated(e) /\ e.error = d.error
  <2>1. v \in Texts
    BY InputsAssumption DEF Texts
  <2> HIDE DEF e
  <2> QED BY <1>1, <2>1, WrittenFacts
<1> HIDE DEF e
<1>3. c.mode # "int"
  OBVIOUS
<1> QED BY <1>2, <1>3 DEF Shows, WordIn, DecimalIn, e

\* Each step of NumberEntry, in these terms.
LEMMA EntryIntDigit ==
  ASSUME NEW k,
         LET longer == (IF arg_pending THEN ShownWord ELSE 0) * Base(cfg) + k
         IN /\ cfg.mode = "int" /\ k < Base(cfg)
            /\ \/ /\ longer <= Entry!MaxTyped(cfg)
                  /\ ShownWord' = longer /\ arg_pending' = TRUE
               \/ /\ longer > Entry!MaxTyped(cfg)
                  /\ arg_pending
                  /\ \/ /\ cfg.format = "dec" /\ ~cfg.unsigned
                        /\ longer = 2^(cfg.width - 1)
                        /\ ShownWord' = longer /\ arg_pending' = FALSE
                     \/ /\ cfg.format = "hex" \/ cfg.unsigned \/ longer # 2^(cfg.width - 1)
                        /\ ShownWord' = ShownWord /\ arg_pending' = arg_pending
            /\ cfg' = cfg /\ ShownDecimal' = ShownDecimal
  PROVE  Entry!IntDigit(k)
BY DEF ShownWord, ShownDecimal, NothingTyped, NoExponent, Entry!IntDigit, Entry!Base, Base

\* Entry!FloatDigit.
LEMMA EntryFloatDigit ==
  ASSUME NEW k, cfg.mode = "float", arg_pending' = TRUE, cfg' = cfg, ShownWord' = ShownWord,
         ShownDecimal' =
           IF ~arg_pending THEN Entry!Decimal(<<k>>, FALSE)
           ELSE IF ShownDecimal.exp.on
           THEN [ShownDecimal EXCEPT !.exp.n = (@ * 10 + k) % 10^EXP_DIGITS]
           ELSE Entry!MantissaDigit(ShownDecimal, k)
  PROVE  Entry!FloatDigit(k)
BY DEF ShownWord, ShownDecimal, NothingTyped, NoExponent, Entry!FloatDigit

\* Entry!Point.
LEMMA EntryPoint ==
  ASSUME cfg.mode = "float", arg_pending' = TRUE, cfg' = cfg, ShownWord' = ShownWord,
         ShownDecimal' =
           IF ~arg_pending THEN Entry!Decimal(<< 0 >>, TRUE)
           ELSE IF ShownDecimal.exp.on \/ Len(ShownDecimal.int) >= cfg.digits THEN ShownDecimal
           ELSE [ShownDecimal EXCEPT !.point = TRUE]
  PROVE  Entry!Point
BY DEF ShownWord, ShownDecimal, NothingTyped, NoExponent, Entry!Point

\* Entry!Exp.
LEMMA EntryExp ==
  ASSUME cfg.mode = "float", arg_pending' = TRUE, cfg' = cfg, ShownWord' = ShownWord,
         NEW m, m = (IF arg_pending THEN ShownDecimal ELSE Entry!Decimal(<< 1 >>, FALSE)),
         ShownDecimal' = [m EXCEPT !.exp = [Entry!NoExp EXCEPT !.on = ~m.exp.on]]
  PROVE  Entry!Exp
BY DEF ShownWord, ShownDecimal, NothingTyped, NoExponent, Entry!Exp

\* Entry!PlusMinus.
LEMMA EntryPlusMinus ==
  ASSUME cfg.mode = "float", arg_pending, arg_pending' = arg_pending, cfg' = cfg, ShownWord' = ShownWord,
         ShownDecimal' = IF ShownDecimal.exp.on THEN [ShownDecimal EXCEPT !.exp.neg = ~@]
                                                ELSE [ShownDecimal EXCEPT !.neg = ~@]
  PROVE  Entry!PlusMinus
BY DEF ShownWord, ShownDecimal, NothingTyped, NoExponent, Entry!PlusMinus

\* Entry!Backspace.
LEMMA EntryBackspace ==
  ASSUME arg_pending, arg_pending' = arg_pending, cfg' = cfg,
         IF cfg.mode = "int"
         THEN ShownWord' = ShownWord \div Base(cfg) /\ ShownDecimal' = ShownDecimal
         ELSE ShownDecimal' = Entry!Shortened(ShownDecimal) /\ ShownWord' = ShownWord
  PROVE  Entry!Backspace
BY DEF ShownWord, ShownDecimal, NothingTyped, NoExponent, Entry!Backspace, Entry!Base, Base

\* Entry!Result.
LEMMA EntryResultStep ==
  ASSUME arg_pending' = FALSE, cfg' = cfg, ShownDecimal' = NothingTyped,
         ShownWord' \in Entry!AnyWord(cfg)
  PROVE  Entry!Result
BY DEF ShownWord, ShownDecimal, NothingTyped, NoExponent, Entry!Result, Entry!NoDecimal, Entry!Decimal,
       Entry!NoExp

\* Entry!ChangeSettings.
LEMMA EntryChange ==
  ASSUME arg_pending' = FALSE, cfg' \in Configs, ShownDecimal' = NothingTyped,
         IF cfg.mode = "int" /\ cfg'.mode = "int"
         THEN ShownWord' = Entry!Value(ShownWord, cfg) % 2^cfg'.width
         ELSE ShownWord' \in Entry!AnyWord(cfg')
  PROVE  Entry!ChangeSettings
BY DEF ShownWord, ShownDecimal, NothingTyped, NoExponent, Entry!ChangeSettings, Entry!NoDecimal,
       Entry!Decimal, Entry!NoExp

\* The first digit of an integer.
LEMMA IntStart ==
  ASSUME NEW c \in Configs, c.mode = "int", NEW d \in Display1, ~d.error, NEW k \in 0..15, k < Base(c),
         NEW e, e = display_set_text(d, <<Digit[k + 1]>>, c)
  PROVE  IntStored(e, k, c)
<1> DEFINE text == <<Digit[k + 1]>>
           w == Written(d, text)
<1>1. text \in Texts /\ Len(text) = 1 /\ text[1] = Digit[k + 1]
  <2>1. Digit[k + 1] \in Chars \ {NUL}
    BY DigitValues, Signs DEF Chars
  <2> QED BY <2>1 DEF Texts
<1>2. DISP_MAX_LEN \in Nat /\ 1 <= DISP_MAX_LEN
  BY SettingsFacts
<1> HIDE DEF text
<1>3. /\ w \in Display1 /\ Terminated(w) /\ ~w.exp_entry /\ w.error = d.error
      /\ w.index = 1 /\ w.stack[0] = Digit[k + 1]
  <2>1. /\ Written(d, text) \in Display1 /\ Terminated(Written(d, text))
        /\ ~Written(d, text).exp_entry /\ Written(d, text).error = d.error
        /\ Len(text) <= DISP_MAX_LEN =>
              /\ Written(d, text).index = Len(text)
              /\ \A i \in 0..(Len(text) - 1) : Written(d, text).stack[i] = text[i + 1]
    BY <1>1, WrittenShort
  <2>2. 0 \in 0..(Len(text) - 1) /\ 0 + 1 = 1 /\ Len(text) <= DISP_MAX_LEN
    BY <1>1, <1>2
  <2>3. w.stack[0] = text[0 + 1]
    BY <2>1, <2>2
  <2> QED BY <1>1, <2>1, <2>2, <2>3
<1>4. e = update_display(w, c)
  BY DEF display_set_text, Written, text
<1> HIDE DEF w
<1>5. IntShown(w, k, c)
  BY <1>3, OneDigit
<1>6. InRange(k, c)
  <2>1. k \in Nat
    OBVIOUS
  <2> QED BY <2>1, SmallInRange
<1>7. IntStored(update_display(w, c), k, c)
  BY <1>3, <1>5, <1>6, UpdateStored
<1> QED BY <1>4, <1>7

\* The largest number that can be typed is the largest in range.
LEMMA MaxIs ==
  ASSUME NEW c \in Configs, c.mode = "int", NEW n \in Nat
  PROVE  /\ InRange(n, c) <=> n <= Entry!MaxTyped(c)
         /\ SignedDec(c) <=> c.format = "dec" /\ ~c.unsigned
         /\ Entry!MaxTyped(c) \in Int
         /\ SignedDec(c) => Entry!MaxTyped(c) = 2^(c.width - 1) - 1
<1>1. 2^c.width \in Nat /\ 2^(c.width - 1) \in Nat
  BY WordFacts
<1>2. SignedDec(c) <=> c.format = "dec" /\ ~c.unsigned
  BY DEF SignedDec
<1> DEFINE p == 2^c.width
           h == 2^(c.width - 1)
<1>3. CASE SignedDec(c)
  <2>1. Entry!MaxTyped(c) = h - 1
    BY <1>2, <1>3 DEF Entry!MaxTyped
  <2>2. InRange(n, c) <=> -h <= n /\ n < h
    BY <1>3 DEF InRange
  <2> HIDE DEF p, h
  <2>3. h \in Nat
    BY <1>1 DEF h
  <2>4. InRange(n, c) <=> n <= h - 1
    BY <2>2, <2>3
  <2> QED BY <1>2, <1>3, <2>1, <2>3, <2>4 DEF h
<1>4. CASE ~SignedDec(c)
  <2>1. Entry!MaxTyped(c) = p - 1
    BY <1>2, <1>4 DEF Entry!MaxTyped
  <2>2. InRange(n, c) <=> 0 <= n /\ n < p
    BY <1>4 DEF InRange
  <2> HIDE DEF p, h
  <2>3. p \in Nat
    BY <1>1 DEF p
  <2>4. InRange(n, c) <=> n <= p - 1
    BY <2>2, <2>3
  <2> QED BY <1>2, <1>4, <2>1, <2>3, <2>4
<1> QED BY <1>3, <1>4

KeyDone == DisplayInv' /\ [Entry!Next]_(Entry!vars)

\* A digit key, in integer mode.
LEMMA IntKeyDone ==
  ASSUME DisplayInv, NEW k \in IntKeys \cup FloatKeys, digit_entered(k), cfg.mode = "int"
  PROVE  KeyDone
<1>1. /\ cfg \in Configs /\ arg_pending \in BOOLEAN /\ Shows(disp, cfg, arg_pending) /\ cfg' = cfg
      /\ disp \in Display1 /\ ~disp.error
  BY DEF DisplayInv, Shows, digit_entered
<1>2. k \in IntKeys /\ k \in 0..15 /\ k < Base(cfg) /\ k \in Nat
  <2>1. k \in IntKeys /\ k < Base(cfg)
    BY DEF digit_entered, Enabled
  <2> QED BY <2>1, InputsAssumption
<1>3. PICK n \in Int : IntStored(disp, n, cfg) /\ (arg_pending => n \in Nat)
  BY <1>1 DEF Shows
<1> DEFINE h == 2^(cfg.width - 1)
           max == Entry!MaxTyped(cfg)
           b == Base(cfg)
<1>4. /\ ShownWord = WordIn(disp, cfg) /\ ShownDecimal = NothingTyped
      /\ arg_pending => ShownWord = n /\ n \in Nat
  BY <1>1, <1>3, EntryWord, ShownIs
<1>5. h \in Nat /\ h < 2^cfg.width /\ b \in Nat /\ max \in Int
  <2>1. 2^cfg.width \in Nat /\ h \in Nat /\ 2^cfg.width = 2 * h /\ b <= h /\ b \in Bases
    BY <1>1, WordFacts, SettingsFacts
  <2>2. max \in Int
    BY <1>1, <1>2, MaxIs
  <2> DEFINE p == 2^cfg.width
  <2>3. p = 2 * h /\ 10 <= b /\ b \in Nat
    BY <2>1 DEF Bases
  <2> HIDE DEF p, h, b
  <2>4. h < p
    BY <2>1, <2>3
  <2> QED BY <2>1, <2>2, <2>3, <2>4 DEF p
<1> DEFINE longer == (IF arg_pending THEN ShownWord ELSE 0) * Base(cfg) + k
<1>6. CASE StartNumber(<<Digit[k + 1]>>)
  <2>1. disp' = display_set_text(disp, <<Digit[k + 1]>>, cfg) /\ arg_pending' = TRUE /\ ~arg_pending
    BY <1>6 DEF StartNumber
  <2>2. IntStored(disp', k, cfg)
    BY <1>1, <1>2, <2>1, IntStart
  <2>3. /\ Shows(disp', cfg, TRUE)
        /\ WordIn(disp', cfg) = k
        /\ DecimalIn(disp', cfg, TRUE) = NothingTyped
    BY <1>1, <1>2, <2>2, EntryWord
  <2>4. DisplayInv'
    BY <1>1, <2>1, <2>3 DEF DisplayInv
  <2>5. longer = k
    <3>1. longer = 0 * b + k
      BY <2>1
    <3> HIDE DEF b
    <3> QED BY <1>2, <1>5, <3>1
  <2>6. k <= max
    <3>1. InRange(k, cfg)
      BY <1>1, <1>2, SmallInRange
    <3> QED BY <1>1, <1>2, <3>1, MaxIs
  <2>7. ShownWord' = k /\ ShownDecimal' = ShownDecimal
    BY <1>1, <1>4, <2>1, <2>3, ShownIs
  <2>8. Entry!IntDigit(k)
    <3> HIDE DEF h, b
    <3>1. /\ cfg.mode = "int" /\ k < Base(cfg) /\ longer <= Entry!MaxTyped(cfg)
          /\ ShownWord' = longer /\ arg_pending' = TRUE /\ cfg' = cfg /\ ShownDecimal' = ShownDecimal
      BY <1>1, <1>2, <2>1, <2>5, <2>6, <2>7
    <3> QED BY <3>1, EntryIntDigit
  <2> QED BY <1>2, <2>4, <2>8 DEF KeyDone, Entry!Next
<1>7. CASE arg_pending
  <2> DEFINE ch == Digit[k + 1]
             added == display_add(disp, ch, cfg)
             int_min == display_add_returns(disp, ch, cfg)
  <2>0. n \in Nat /\ ShownWord = n
    BY <1>4, <1>7
  <2>1. /\ arg_pending' = ~int_min
        /\ disp' = IF int_min THEN display_set_val(added, h, cfg) ELSE added
    BY <1>7 DEF digit_entered, StartNumber
  <2>2. /\ IntStored(added, Added(n, k, cfg), cfg)
        /\ Added(n, k, cfg) \in Nat
        /\ int_min <=> SignedDec(cfg) /\ n * Base(cfg) + k = h
    BY <1>1, <1>2, <1>3, <2>0, AddInt
  <2>3. longer = n * Base(cfg) + k /\ longer \in Nat
    <3>1. longer = n * b + k
      BY <1>7, <2>0
    <3> HIDE DEF b, longer
    <3>2. longer \in Nat
      BY <1>2, <1>5, <2>0, <3>1
    <3> QED BY <3>1, <3>2 DEF b
  <2> HIDE DEF added, longer, h, b, max
  <2>4. CASE int_min
    <3>1. disp' = display_set_val(added, h, cfg) /\ arg_pending' = FALSE
      BY <2>1, <2>4
    <3>2. added \in Display1 /\ ~added.error
      BY <2>2 DEF IntStored
    <3>3. /\ IntStored(disp', ShownNumber(h, cfg), cfg)
          /\ ShownNumber(h, cfg) % 2^cfg.width = h
      BY <1>1, <1>5, <3>1, <3>2, SetValStored
    <3>4. /\ Shows(disp', cfg, FALSE) /\ WordIn(disp', cfg) = h
          /\ DecimalIn(disp', cfg, FALSE) = NothingTyped
      BY <1>1, <3>3, EntryWord
    <3>5. DisplayInv'
      BY <1>1, <3>1, <3>4 DEF DisplayInv
    <3>6. ShownWord' = h /\ ShownDecimal' = ShownDecimal
      BY <1>1, <1>4, <3>1, <3>4, ShownIs
    <3>7. /\ cfg.format = "dec" /\ ~cfg.unsigned /\ longer = h /\ longer > max
      <4>1. SignedDec(cfg) /\ longer = h
        BY <2>2, <2>3, <2>4
      <4>2. max = h - 1 /\ cfg.format = "dec" /\ ~cfg.unsigned
        BY <1>1, <1>2, <4>1, MaxIs DEF max, h
      <4> QED BY <1>5, <4>1, <4>2
    <3>8. Entry!IntDigit(k)
      <4>1. /\ cfg.mode = "int" /\ k < Base(cfg) /\ longer > Entry!MaxTyped(cfg) /\ arg_pending
            /\ cfg.format = "dec" /\ ~cfg.unsigned /\ longer = 2^(cfg.width - 1)
            /\ ShownWord' = longer /\ arg_pending' = FALSE /\ cfg' = cfg /\ ShownDecimal' = ShownDecimal
        BY <1>1, <1>2, <1>7, <3>1, <3>6, <3>7 DEF max, h
      <4> QED BY <4>1, EntryIntDigit DEF longer
    <3> QED BY <1>2, <3>5, <3>8 DEF KeyDone, Entry!Next
  <2>5. CASE ~int_min
    <3>1. disp' = added /\ arg_pending' = TRUE
      BY <2>1, <2>5
    <3>2. IntStored(disp', Added(n, k, cfg), cfg)
      BY <2>2, <3>1
    <3>3. /\ Shows(disp', cfg, TRUE) /\ WordIn(disp', cfg) = Added(n, k, cfg)
          /\ DecimalIn(disp', cfg, TRUE) = NothingTyped
      BY <1>1, <2>2, <3>2, EntryWord
    <3>4. DisplayInv'
      BY <1>1, <3>1, <3>3 DEF DisplayInv
    <3>5. ShownWord' = Added(n, k, cfg) /\ ShownDecimal' = ShownDecimal
      BY <1>1, <1>4, <3>1, <3>3, ShownIs
    <3>6. CASE InRange(longer, cfg)
      <4>1. Added(n, k, cfg) = longer
        BY <2>3, <3>6 DEF Added
      <4>2. longer <= max
        BY <1>1, <2>3, <3>6, MaxIs DEF max
      <4>3. Entry!IntDigit(k)
        <5>1. /\ cfg.mode = "int" /\ k < Base(cfg) /\ longer <= Entry!MaxTyped(cfg)
              /\ ShownWord' = longer /\ arg_pending' = TRUE /\ cfg' = cfg /\ ShownDecimal' = ShownDecimal
          BY <1>1, <1>2, <3>1, <3>5, <4>1, <4>2 DEF max
        <5> QED BY <5>1, EntryIntDigit DEF longer
      <4> QED BY <1>2, <3>4, <4>3 DEF KeyDone, Entry!Next
    <3>7. CASE ~InRange(longer, cfg)
      <4>1. Added(n, k, cfg) = n
        BY <2>3, <3>7 DEF Added
      <4>2. longer > max
        <5>1. ~(longer <= max)
          BY <1>1, <2>3, <3>7, MaxIs DEF max
        <5> QED BY <1>5, <2>3, <5>1
      <4>3. cfg.format = "hex" \/ cfg.unsigned \/ longer # h
        <5>1. cfg.format \in {"dec", "hex"}
          BY <1>1, SettingsFacts
        <5>2. ~(SignedDec(cfg) /\ longer = h)
          BY <2>2, <2>3, <2>5
        <5> QED BY <5>1, <5>2 DEF SignedDec
      <4>4. Entry!IntDigit(k)
        <5>1. /\ cfg.mode = "int" /\ k < Base(cfg) /\ longer > Entry!MaxTyped(cfg) /\ arg_pending
              /\ cfg.format = "hex" \/ cfg.unsigned \/ longer # 2^(cfg.width - 1)
              /\ ShownWord' = ShownWord /\ arg_pending' = arg_pending
              /\ cfg' = cfg /\ ShownDecimal' = ShownDecimal
          BY <1>1, <1>2, <1>7, <2>0, <3>1, <3>5, <4>1, <4>2, <4>3 DEF max, h
        <5> QED BY <5>1, EntryIntDigit DEF longer
      <4> QED BY <1>2, <3>4, <4>4 DEF KeyDone, Entry!Next
    <3> QED BY <3>6, <3>7
  <2> QED BY <2>4, <2>5
<1> QED BY <1>6, <1>7 DEF digit_entered

-----------------------------------------------------------------------------
(* The keys in floating point mode *)

\* The invariant before a key in floating point mode.
LEMMA FloatBefore ==
  ASSUME DisplayInv, cfg.mode = "float"
  PROVE  /\ cfg \in Configs /\ arg_pending \in BOOLEAN /\ disp \in Display1 /\ ~disp.error
         /\ ShownWord = 0
         /\ arg_pending => FloatShown(disp, ShownDecimal, cfg)
<1>1. /\ cfg \in Configs /\ arg_pending \in BOOLEAN /\ Shows(disp, cfg, arg_pending)
      /\ disp \in Display1 /\ ~disp.error
  BY DEF DisplayInv, Shows
<1>2. ASSUME arg_pending
      PROVE  FloatShown(disp, ShownDecimal, cfg)
  <2>1. PICK m \in Decimals : FloatShown(disp, m, cfg)
    BY <1>1, <1>2 DEF Shows
  <2>2. DecimalOf(disp) = m
    BY <1>1, <2>1, DecimalRead
  <2>3. ShownDecimal = m
    BY <1>2, <2>2, ShownIs DEF DecimalIn
  <2> QED BY <2>1, <2>3
<1>3. ShownWord = 0
  BY DEF ShownWord
<1> QED BY <1>1, <1>2, <1>3

\* The invariant after it, when the display shows a decimal.
LEMMA FloatAfter ==
  ASSUME cfg \in Configs, cfg' = cfg, cfg.mode = "float", arg_pending' = TRUE,
         NEW m, FloatShown(disp', m, cfg)
  PROVE  /\ DisplayInv'
         /\ ShownWord' = 0
         /\ ShownDecimal' = m
<1>1. /\ Shows(disp', cfg, TRUE) /\ WordIn(disp', cfg) = 0 /\ DecimalIn(disp', cfg, TRUE) = m
  BY EntryDecimal
<1>2. DisplayInv'
  BY <1>1 DEF DisplayInv
<1>3. ShownWord' = 0 /\ ShownDecimal' = m
  BY <1>1, ShownIs
<1> QED BY <1>2, <1>3

\* A number begins with the key's text.
LEMMA FloatBegins ==
  ASSUME NEW c \in Configs, c.mode = "float", NEW d \in Display1, ~d.error, NEW k \in 0..9
  PROVE  /\ FloatShown(display_set_text(d, <<Digit[k + 1]>>, c), Entry!Decimal(<<k>>, FALSE), c)
         /\ FloatShown(display_set_text(d, <<Digit[k + 1], ".">>, c), Entry!Decimal(<<k>>, TRUE), c)
<1>1. ASSUME NEW point \in BOOLEAN, NEW text,
             text = (IF point THEN <<Digit[k + 1], ".">> ELSE <<Digit[k + 1]>>)
      PROVE  FloatShown(display_set_text(d, text, c), Entry!Decimal(<<k>>, point), c)
  <2>1. display_set_text(d, text, c) = Written(d, text)
    <3>1. display_set_text(d, text, c) = update_display(Written(d, text), c)
      BY DEF display_set_text, Written
    <3> QED BY <3>1, UpdateFloat
  <2>2. FloatShown(Written(d, text), Started(<<k>>, point), c)
    BY <1>1, StartShown
  <2>3. Entry!Decimal(<<k>>, point) = Started(<<k>>, point)
    BY DEF Started, NoExponent, Entry!Decimal, Entry!NoExp
  <2> QED BY <2>1, <2>2, <2>3
<1>2. FloatShown(display_set_text(d, <<Digit[k + 1]>>, c), Entry!Decimal(<<k>>, FALSE), c)
  BY <1>1
<1>3. FloatShown(display_set_text(d, <<Digit[k + 1], ".">>, c), Entry!Decimal(<<k>>, TRUE), c)
  BY <1>1
<1> QED BY <1>2, <1>3

\* The edits of a decimal, in the words of NumberEntry.
LEMMA AsEntry ==
  ASSUME NEW m \in Decimals, NEW k \in Nat
  PROVE  /\ WithExponent(m, [m.exp EXCEPT !.n = LastDigits(@, k, 10, EXP_DIGITS)])
              = [m EXCEPT !.exp.n = (@ * 10 + k) % 10^EXP_DIGITS]
         /\ Count(m) = Entry!DigitCount(m)
         /\ WithFigure(m, k, cfg) = Entry!MantissaDigit(m, k)
         /\ WithPoint(m) = [m EXCEPT !.point = TRUE]
         /\ WithExponent(m, [m.exp EXCEPT !.n = @ \div 10]) = [m EXCEPT !.exp.n = @ \div 10]
         /\ WithExponent(m, [m.exp EXCEPT !.neg = ~@]) = [m EXCEPT !.exp.neg = ~@]
<1>1. Count(m) = Entry!DigitCount(m)
  <2>1. Len(m.int) \in Nat /\ Len(m.frac) \in Nat
    BY DEF Decimals
  <2> DEFINE i == IF m.point /\ m.int = <<0>> THEN 0 ELSE Len(m.int)
             f == Len(m.frac)
  <2>2. i \in Nat /\ f \in Nat
    BY <2>1
  <2>3. Count(m) = f + i /\ Entry!DigitCount(m) = i + f
    BY DEF Count, Entry!DigitCount
  <2> HIDE DEF i, f
  <2> QED BY <2>2, <2>3
<1>2. WithExponent(m, [m.exp EXCEPT !.n = LastDigits(@, k, 10, EXP_DIGITS)])
        = [m EXCEPT !.exp.n = (@ * 10 + k) % 10^EXP_DIGITS]
  BY DEF WithExponent, LastDigits, Decimals
<1>3. WithFigure(m, k, cfg) = Entry!MantissaDigit(m, k)
  BY <1>1 DEF WithFigure, WithInt, WithFrac, Entry!MantissaDigit, Decimals
<1>4. WithPoint(m) = [m EXCEPT !.point = TRUE]
  BY DEF WithPoint
<1>5. /\ WithExponent(m, [m.exp EXCEPT !.n = @ \div 10]) = [m EXCEPT !.exp.n = @ \div 10]
      /\ WithExponent(m, [m.exp EXCEPT !.neg = ~@]) = [m EXCEPT !.exp.neg = ~@]
  BY DEF WithExponent, Decimals
<1> QED BY <1>1, <1>2, <1>3, <1>4, <1>5

\* A digit key, in floating point mode.
LEMMA FloatKeyDone ==
  ASSUME DisplayInv, NEW k \in IntKeys \cup FloatKeys, digit_entered(k), cfg.mode = "float"
  PROVE  KeyDone
<1> DEFINE ch == Digit[k + 1]
           added == display_add(disp, ch, cfg)
           m == ShownDecimal
<1>1. /\ cfg \in Configs /\ arg_pending \in BOOLEAN /\ cfg' = cfg /\ ShownWord = 0
      /\ disp \in Display1 /\ ~disp.error /\ (arg_pending => FloatShown(disp, m, cfg))
  BY FloatBefore DEF digit_entered
<1>2. k \in FloatKeys /\ k \in 0..9 /\ k \in Nat
  <2>1. cfg.mode # "int"
    OBVIOUS
  <2>2. k \in FloatKeys
    BY <2>1 DEF digit_entered, Enabled
  <2> QED BY <2>2, InputsAssumption
<1>3. ASSUME NEW w, FloatShown(disp', w, cfg), arg_pending' = TRUE,
             w = IF ~arg_pending THEN Entry!Decimal(<<k>>, FALSE)
                 ELSE IF m.exp.on THEN [m EXCEPT !.exp.n = (@ * 10 + k) % 10^EXP_DIGITS]
                 ELSE Entry!MantissaDigit(m, k)
      PROVE  KeyDone
  <2>0. FloatShown(disp', w, cfg) /\ arg_pending' = TRUE
    BY <1>3
  <2>1. DisplayInv' /\ ShownWord' = ShownWord /\ ShownDecimal' = w
    BY <1>1, <2>0, FloatAfter
  <2>2. Entry!FloatDigit(k)
    BY <1>1, <1>3, <2>1, EntryFloatDigit
  <2> QED BY <1>2, <2>1, <2>2 DEF KeyDone, Entry!Next
<1>4. CASE StartNumber(<<ch>>)
  <2>1. disp' = display_set_text(disp, <<ch>>, cfg) /\ arg_pending' = TRUE /\ ~arg_pending
    BY <1>4 DEF StartNumber
  <2>2. FloatShown(disp', Entry!Decimal(<<k>>, FALSE), cfg)
    BY <1>1, <1>2, <2>1, FloatBegins
  <2> QED BY <1>3, <2>1, <2>2
<1>5. CASE arg_pending
  <2>1. disp' = added /\ arg_pending' = TRUE
    <3>1. ~display_add_returns(disp, ch, cfg)
      BY DEF display_add_returns, IntMinTyped, SignedDec
    <3> QED BY <1>5, <3>1 DEF digit_entered, StartNumber
  <2>2. m \in Decimals /\ FloatShown(disp, m, cfg)
    BY <1>1, <1>5 DEF FloatShown, Readable
  <2>3. CASE m.exp.on
    <3>1. FloatShown(disp', WithExponent(m, [m.exp EXCEPT !.n = LastDigits(@, k, 10, EXP_DIGITS)]), cfg)
      BY <1>1, <1>2, <2>1, <2>2, <2>3, ExponentDigit
    <3>2. FloatShown(disp', [m EXCEPT !.exp.n = (@ * 10 + k) % 10^EXP_DIGITS], cfg)
      BY <1>2, <2>2, <3>1, AsEntry
    <3> QED BY <1>3, <1>5, <2>1, <2>3, <3>2
  <2>4. CASE ~m.exp.on
    <3>1. FloatShown(disp', WithFigure(m, k, cfg), cfg)
      BY <1>1, <1>2, <2>1, <2>2, <2>4, AddFigure
    <3>2. FloatShown(disp', Entry!MantissaDigit(m, k), cfg)
      BY <1>2, <2>2, <3>1, AsEntry
    <3> QED BY <1>3, <1>5, <2>1, <2>4, <3>2
  <2> QED BY <2>3, <2>4
<1> QED BY <1>4, <1>5 DEF digit_entered

\* The texts that enter_point and bid_exp start with.
LEMMA FirstDigits == Digit[0 + 1] = "0" /\ Digit[1 + 1] = "1"
BY DEF Digit

Exponents == [on : BOOLEAN, neg : BOOLEAN, n : Nat]

\* An exponent is its three parts.
LEMMA SameExponent ==
  ASSUME NEW x \in Exponents, NEW y \in Exponents, x.on = y.on, x.neg = y.neg, x.n = y.n
  PROVE  x = y
BY DEF Exponents

\* EXP switches an exponent on and off.
LEMMA ExponentSwitched ==
  /\ [Entry!NoExp EXCEPT !.on = TRUE] = ZeroExponent
  /\ [Entry!NoExp EXCEPT !.on = FALSE] = NoExponent
<1>1. ASSUME NEW x, x = [on |-> FALSE, neg |-> FALSE, n |-> 0], NEW y, NEW on \in BOOLEAN,
             y = [x EXCEPT !.on = on]
      PROVE  y \in Exponents /\ y.on = on /\ y.neg = FALSE /\ y.n = 0
  BY <1>1 DEF Exponents
<1>2. ASSUME NEW y, NEW on \in BOOLEAN, y = [on |-> on, neg |-> FALSE, n |-> 0]
      PROVE  y \in Exponents /\ y.on = on /\ y.neg = FALSE /\ y.n = 0
  BY <1>2 DEF Exponents
<1>3. Entry!NoExp = [on |-> FALSE, neg |-> FALSE, n |-> 0]
  BY DEF Entry!NoExp
<1>4. [Entry!NoExp EXCEPT !.on = TRUE] = ZeroExponent
  <2> DEFINE y == [Entry!NoExp EXCEPT !.on = TRUE]
  <2>1. y \in Exponents /\ y.on = TRUE /\ y.neg = FALSE /\ y.n = 0
    BY <1>1, <1>3
  <2>2. ZeroExponent \in Exponents /\ ZeroExponent.on = TRUE /\ ZeroExponent.neg = FALSE /\ ZeroExponent.n = 0
    BY <1>2 DEF ZeroExponent
  <2> HIDE DEF y
  <2>3. y = ZeroExponent
    BY <2>1, <2>2, SameExponent
  <2> QED BY <2>3 DEF y
<1>5. [Entry!NoExp EXCEPT !.on = FALSE] = NoExponent
  <2> DEFINE y == [Entry!NoExp EXCEPT !.on = FALSE]
  <2>1. y \in Exponents /\ y.on = FALSE /\ y.neg = FALSE /\ y.n = 0
    BY <1>1, <1>3
  <2>2. NoExponent \in Exponents /\ NoExponent.on = FALSE /\ NoExponent.neg = FALSE /\ NoExponent.n = 0
    BY <1>2 DEF NoExponent
  <2> HIDE DEF y
  <2>3. y = NoExponent
    BY <2>1, <2>2, SameExponent
  <2> QED BY <2>3 DEF y
<1> QED BY <1>4, <1>5

\* The point, in floating point mode.
LEMMA PointKeyDone ==
  ASSUME DisplayInv, enter_point
  PROVE  KeyDone
<1> DEFINE m == ShownDecimal
<1>1. /\ cfg.mode = "float" /\ cfg \in Configs /\ arg_pending \in BOOLEAN /\ cfg' = cfg /\ ShownWord = 0
      /\ disp \in Display1 /\ ~disp.error /\ (arg_pending => FloatShown(disp, m, cfg))
  BY FloatBefore DEF enter_point
<1>2. ASSUME NEW w, FloatShown(disp', w, cfg), arg_pending' = TRUE,
             w = IF ~arg_pending THEN Entry!Decimal(<< 0 >>, TRUE)
                 ELSE IF m.exp.on \/ Len(m.int) >= cfg.digits THEN m
                 ELSE [m EXCEPT !.point = TRUE]
      PROVE  KeyDone
  <2>1. FloatShown(disp', w, cfg) /\ arg_pending' = TRUE
    BY <1>2
  <2>2. DisplayInv' /\ ShownWord' = ShownWord /\ ShownDecimal' = w
    BY <1>1, <2>1, FloatAfter
  <2>3. Entry!Point
    BY <1>1, <1>2, <2>2, EntryPoint
  <2> QED BY <2>2, <2>3 DEF KeyDone, Entry!Next
<1>3. CASE StartNumber(<<"0", ".">>)
  <2>1. disp' = display_set_text(disp, <<"0", ".">>, cfg) /\ arg_pending' = TRUE /\ ~arg_pending
    BY <1>3 DEF StartNumber
  <2>2. 0 \in 0..9 /\ disp' = display_set_text(disp, <<Digit[0 + 1], ".">>, cfg)
    BY <2>1, FirstDigits
  <2>3. FloatShown(disp', Entry!Decimal(<<0>>, TRUE), cfg)
    BY <1>1, <2>2, FloatBegins
  <2> QED BY <1>2, <2>1, <2>3
<1>4. CASE arg_pending
  <2>1. disp' = display_add(disp, ".", cfg) /\ arg_pending' = TRUE
    BY <1>4 DEF enter_point, StartNumber
  <2>2. m \in Decimals /\ FloatShown(disp, m, cfg)
    BY <1>1, <1>4 DEF FloatShown, Readable
  <2>3. CASE m.exp.on
    <3>1. disp.exp_entry
      BY <2>2, <2>3 DEF FloatShown
    <3>2. display_add(disp, ".", cfg) = update_display(disp, cfg)
      BY <3>1 DEF display_add, add_exponent
    <3>3. disp' = disp
      BY <1>1, <2>1, <3>2, UpdateFloat
    <3>4. FloatShown(disp', m, cfg)
      BY <2>2, <3>3
    <3> QED BY <1>2, <1>4, <2>1, <2>3, <3>4
  <2>4. CASE ~m.exp.on
    <3>1. FloatShown(disp', IF Len(m.int) >= cfg.digits THEN m ELSE WithPoint(m), cfg)
      BY <1>1, <2>1, <2>2, <2>4, AddPoint
    <3>2. FloatShown(disp', IF Len(m.int) >= cfg.digits THEN m ELSE [m EXCEPT !.point = TRUE], cfg)
      BY <3>1 DEF WithPoint
    <3> QED BY <1>2, <1>4, <2>1, <2>4, <3>2
  <2> QED BY <2>3, <2>4
<1> QED BY <1>3, <1>4 DEF enter_point

\* EXP, in floating point mode.
LEMMA ExpKeyDone ==
  ASSUME DisplayInv, bid_exp
  PROVE  KeyDone
<1> DEFINE one == Entry!Decimal(<<1>>, FALSE)
           m == IF arg_pending THEN ShownDecimal ELSE one
           d == IF arg_pending THEN disp ELSE display_set_text(disp, <<"1">>, cfg)
<1>1. /\ cfg.mode = "float" /\ cfg \in Configs /\ arg_pending \in BOOLEAN /\ cfg' = cfg /\ ShownWord = 0
      /\ disp \in Display1 /\ ~disp.error /\ (arg_pending => FloatShown(disp, ShownDecimal, cfg))
      /\ arg_pending' = TRUE
      /\ disp' = display_set_exp_entry(d, ~d.exp_entry, cfg)
  BY FloatBefore DEF bid_exp
<1>2. FloatShown(d, m, cfg)
  <2>1. CASE arg_pending
    BY <1>1, <2>1
  <2>2. CASE ~arg_pending
    <3>1. 1 \in 0..9 /\ d = display_set_text(disp, <<Digit[1 + 1]>>, cfg)
      BY <2>2, FirstDigits
    <3>2. FloatShown(d, one, cfg)
      <4> HIDE DEF d
      <4> QED BY <1>1, <3>1, FloatBegins
    <3> QED BY <2>2, <3>2
  <2> QED BY <1>1, <2>1, <2>2
<1>3. m \in Decimals /\ (d.exp_entry <=> m.exp.on) /\ m.exp.on \in BOOLEAN /\ d.exp_entry \in BOOLEAN
  <2> HIDE DEF d, m
  <2>1. m \in Decimals /\ d \in Display1 /\ d.exp_entry = m.exp.on
    BY <1>2 DEF FloatShown, Readable
  <2> QED BY <2>1 DEF Decimals, Display1
<1>4. ASSUME NEW w, FloatShown(disp', w, cfg), w = [m EXCEPT !.exp = [Entry!NoExp EXCEPT !.on = ~m.exp.on]]
      PROVE  KeyDone
  <2>1. FloatShown(disp', w, cfg)
    BY <1>4
  <2>2. DisplayInv' /\ ShownWord' = ShownWord /\ ShownDecimal' = w
    <3> HIDE DEF m, d
    <3> QED BY <1>1, <2>1, FloatAfter
  <2>3. ShownDecimal' = [m EXCEPT !.exp = [Entry!NoExp EXCEPT !.on = ~m.exp.on]]
    BY <1>4, <2>2
  <2>4. Entry!Exp
    BY <1>1, <2>2, <2>3, EntryExp
  <2> QED BY <2>2, <2>4 DEF KeyDone, Entry!Next
<1> HIDE DEF m, d
<1>5. CASE m.exp.on
  <2>1. disp' = display_set_exp_entry(d, FALSE, cfg)
    BY <1>1, <1>3, <1>5
  <2>2. FloatShown(disp', WithExponent(m, NoExponent), cfg)
    BY <1>1, <1>2, <1>5, <2>1, ExponentDropped
  <2>3. WithExponent(m, NoExponent) = [m EXCEPT !.exp = [Entry!NoExp EXCEPT !.on = ~m.exp.on]]
    <3>1. (~m.exp.on) = FALSE
      BY <1>5
    <3>2. [Entry!NoExp EXCEPT !.on = ~m.exp.on] = NoExponent
      BY <3>1, ExponentSwitched, Zenon
    <3> QED BY <3>2 DEF WithExponent
  <2> QED BY <1>4, <2>2, <2>3
<1>6. CASE ~m.exp.on
  <2>1. disp' = display_set_exp_entry(d, TRUE, cfg)
    BY <1>1, <1>3, <1>6
  <2>2. FloatShown(disp', WithExponent(m, ZeroExponent), cfg)
    BY <1>1, <1>2, <1>6, <2>1, ExponentBegun
  <2>3. WithExponent(m, ZeroExponent) = [m EXCEPT !.exp = [Entry!NoExp EXCEPT !.on = ~m.exp.on]]
    <3>1. (~m.exp.on) = TRUE
      BY <1>6
    <3>2. [Entry!NoExp EXCEPT !.on = ~m.exp.on] = ZeroExponent
      BY <3>1, ExponentSwitched, Zenon
    <3> QED BY <3>2 DEF WithExponent
  <2> QED BY <1>4, <2>2, <2>3
<1> QED BY <1>5, <1>6

\* The sign, in floating point mode.
LEMMA SignKeyDone ==
  ASSUME DisplayInv, bid_pm
  PROVE  KeyDone
<1> DEFINE m == ShownDecimal
<1>1. /\ cfg.mode = "float" /\ cfg \in Configs /\ cfg' = cfg /\ ShownWord = 0
      /\ arg_pending = TRUE /\ arg_pending' = TRUE
      /\ FloatShown(disp, m, cfg) /\ disp' = disp_toggle_sign(disp, cfg)
  BY FloatBefore DEF bid_pm
<1>2. m \in Decimals
  BY <1>1 DEF FloatShown, Readable
<1>3. ASSUME NEW w, FloatShown(disp', w, cfg),
             w = IF m.exp.on THEN [m EXCEPT !.exp.neg = ~@] ELSE [m EXCEPT !.neg = ~@]
      PROVE  KeyDone
  <2>1. FloatShown(disp', w, cfg)
    BY <1>3
  <2>2. DisplayInv' /\ ShownWord' = ShownWord /\ ShownDecimal' = w
    BY <1>1, <2>1, FloatAfter
  <2>3. Entry!PlusMinus
    BY <1>1, <1>3, <2>2, EntryPlusMinus
  <2> QED BY <2>2, <2>3 DEF KeyDone, Entry!Next
<1>4. CASE m.exp.on
  <2>1. FloatShown(disp', WithExponent(m, [m.exp EXCEPT !.neg = ~@]), cfg)
    BY <1>1, <1>4, ExponentNegated
  <2>2. FloatShown(disp', [m EXCEPT !.exp.neg = ~@], cfg)
    BY <1>2, <2>1, AsEntry
  <2> QED BY <1>3, <1>4, <2>2
<1>5. CASE ~m.exp.on
  <2>1. FloatShown(disp', [m EXCEPT !.neg = ~@], cfg)
    BY <1>1, <1>5, MantissaNegated
  <2> QED BY <1>3, <1>5, <2>1
<1> QED BY <1>4, <1>5

\* Backspace, in floating point mode.
LEMMA FloatShortened ==
  ASSUME NEW c \in Configs, c.mode = "float", NEW m, NEW d, FloatShown(d, m, c)
  PROVE  FloatShown(display_remove(d, c), Entry!Shortened(m), c)
<1>1. Readable(m, c) /\ m \in Decimals
  BY DEF FloatShown, Readable
<1>2. CASE m.exp.on
  <2>1. FloatShown(display_remove(d, c), WithExponent(m, [m.exp EXCEPT !.n = @ \div 10]), c)
    BY <1>2, ExponentShortened
  <2>2. FloatShown(display_remove(d, c), [m EXCEPT !.exp.n = @ \div 10], c)
    <3>1. 0 \in Nat
      OBVIOUS
    <3> QED BY <1>1, <2>1, <3>1, AsEntry
  <2> QED BY <1>2, <2>2 DEF Entry!Shortened
<1>3. CASE ~m.exp.on /\ m.frac # <<>>
  <2>1. FloatShown(display_remove(d, c), WithFrac(m, SubSeq(m.frac, 1, Len(m.frac) - 1)), c)
    BY <1>1, <1>3, FracCut, FloatPopped
  <2> QED BY <1>3, <2>1 DEF WithFrac, Entry!Shortened
<1>4. CASE ~m.exp.on /\ m.frac = <<>> /\ m.point
  <2>1. FloatShown(display_remove(d, c), WithoutPoint(m), c)
    BY <1>1, <1>4, PointCut, FloatPopped
  <2> QED BY <1>4, <2>1 DEF WithoutPoint, Entry!Shortened
<1>5. CASE ~m.exp.on /\ m.frac = <<>> /\ ~m.point /\ Len(m.int) > 1
  <2>1. FloatShown(display_remove(d, c), WithInt(m, SubSeq(m.int, 1, Len(m.int) - 1)), c)
    BY <1>1, <1>5, IntCut, FloatPopped
  <2> QED BY <1>5, <2>1 DEF WithInt, Entry!Shortened
<1>6. CASE ~m.exp.on /\ m.frac = <<>> /\ ~m.point /\ ~(Len(m.int) > 1)
  <2>1. FloatShown(display_remove(d, c), Zeroed(m), c)
    BY <1>6, FloatZeroed
  <2> QED BY <1>6, <2>1 DEF Zeroed, Entry!Shortened
<1> QED BY <1>2, <1>3, <1>4, <1>5, <1>6

\* Backspace, in both modes.
LEMMA BackspaceKeyDone ==
  ASSUME DisplayInv, backspace_click
  PROVE  KeyDone
<1>1. /\ cfg \in Configs /\ cfg' = cfg /\ cfg.mode \in {"int", "float"}
      /\ Shows(disp, cfg, arg_pending)
      /\ arg_pending = TRUE /\ arg_pending' = TRUE /\ disp' = display_remove(disp, cfg)
  <2>1. cfg \in Configs
    BY DEF DisplayInv
  <2> QED BY <2>1, SettingsFacts DEF DisplayInv, backspace_click
<1>2. CASE cfg.mode = "int"
  <2>1. PICK n \in Int : IntStored(disp, n, cfg) /\ n \in Nat
    BY <1>1, <1>2 DEF Shows
  <2>2. IntStored(disp', n \div Base(cfg), cfg) /\ n \div Base(cfg) \in Nat
    BY <1>1, <1>2, <2>1, RemoveInt
  <2>3. ShownWord = n /\ ShownDecimal = NothingTyped
    BY <1>1, <1>2, <2>1, EntryWord, ShownIs
  <2> DEFINE q == n \div Base(cfg)
  <2>4. /\ Shows(disp', cfg, TRUE) /\ WordIn(disp', cfg) = q /\ DecimalIn(disp', cfg, TRUE) = NothingTyped
    <3>1. IntStored(disp', q, cfg) /\ q \in Nat
      BY <2>2
    <3> HIDE DEF q
    <3> QED BY <1>1, <1>2, <3>1, EntryWord
  <2>5. DisplayInv'
    BY <1>1, <2>4 DEF DisplayInv
  <2>6. ShownWord' = q /\ ShownDecimal' = ShownDecimal
    BY <1>1, <2>3, <2>4, ShownIs
  <2>7. Entry!Backspace
    BY <1>1, <1>2, <2>3, <2>6, EntryBackspace
  <2> QED BY <2>5, <2>7 DEF KeyDone, Entry!Next
<1>3. CASE cfg.mode = "float"
  <2>1. FloatShown(disp, ShownDecimal, cfg) /\ ShownWord = 0
    BY <1>1, <1>3, FloatBefore
  <2>2. FloatShown(disp', Entry!Shortened(ShownDecimal), cfg)
    BY <1>1, <1>3, <2>1, FloatShortened
  <2>3. DisplayInv' /\ ShownWord' = ShownWord /\ ShownDecimal' = Entry!Shortened(ShownDecimal)
    BY <1>1, <1>3, <2>1, <2>2, FloatAfter
  <2>4. cfg.mode # "int"
    BY <1>3
  <2>5. Entry!Backspace
    BY <1>1, <2>3, <2>4, EntryBackspace
  <2> QED BY <2>3, <2>5 DEF KeyDone, Entry!Next
<1> QED BY <1>1, <1>2, <1>3

-----------------------------------------------------------------------------
(* Results and settings *)

\* display_set_val in integer mode, seen by NumberEntry.
LEMMA IntResult ==
  ASSUME NEW c \in Configs, c.mode = "int", NEW d \in Display1, ~d.error, NEW v \in Nat, v < 2^c.width
  PROVE  /\ Shows(display_set_val(d, v, c), c, FALSE)
         /\ WordIn(display_set_val(d, v, c), c) = v
         /\ DecimalIn(display_set_val(d, v, c), c, FALSE) = NothingTyped
         /\ v \in Entry!AnyWord(c)
<1> DEFINE e == display_set_val(d, v, c)
           n == ShownNumber(v, c)
           p == 2^c.width
<1>1. IntStored(e, n, c) /\ n % 2^c.width = v
  BY SetValStored
<1> HIDE DEF e, n
<1>2. Shows(e, c, FALSE) /\ WordIn(e, c) = v /\ DecimalIn(e, c, FALSE) = NothingTyped
  BY <1>1, EntryWord
<1>3. v \in Entry!AnyWord(c)
  <2>1. p \in Nat
    BY WordFacts
  <2>2. Entry!AnyWord(c) = 0..(p - 1) /\ v < p
    BY DEF Entry!AnyWord
  <2> HIDE DEF p
  <2> QED BY <2>1, <2>2
<1> QED BY <1>2, <1>3 DEF e

\* A result, and a change of mode or digits, end the number with what is computed.
LEMMA ValueShown ==
  ASSUME NEW c \in Configs, NEW d \in Display1, ~d.error,
         NEW v \in IF c.mode = "int" THEN {w \in Words : w < 2^c.width} ELSE FloatTexts
  PROVE  /\ Shows(display_set_val(d, v, c), c, FALSE)
         /\ WordIn(display_set_val(d, v, c), c) \in Entry!AnyWord(c)
         /\ DecimalIn(display_set_val(d, v, c), c, FALSE) = NothingTyped
<1> DEFINE e == display_set_val(d, v, c)
<1>1. CASE c.mode = "int"
  <2>1. v \in Nat /\ v < 2^c.width
    <3>1. v \in Words /\ v < 2^c.width
      BY <1>1
    <3> QED BY <3>1, InputsAssumption
  <2> QED BY <1>1, <2>1, IntResult
<1>2. CASE c.mode = "float"
  <2>1. v \in FloatTexts /\ c.mode # "int"
    BY <1>2
  <2>2. Shows(e, c, FALSE) /\ WordIn(e, c) = 0 /\ DecimalIn(e, c, FALSE) = NothingTyped
    BY <1>2, <2>1, EntryResult
  <2>3. 0 \in Entry!AnyWord(c)
    BY <2>1 DEF Entry!AnyWord
  <2> QED BY <2>2, <2>3
<1> QED BY <1>1, <1>2, SettingsFacts

\* A result of the engine.
LEMMA ResultDone ==
  ASSUME DisplayInv, Result
  PROVE  KeyDone
<1>1. /\ cfg \in Configs /\ cfg' = cfg /\ disp \in Display1 /\ ~disp.error
  BY DEF DisplayInv, Shows, Result
<1>2. PICK v \in IF cfg.mode = "int" THEN {w \in Words : w < 2^cfg.width} ELSE FloatTexts :
        disp' = display_set_val(disp, v, cfg) /\ arg_pending' = FALSE
  BY DEF Result, ShowResult
<1>3. /\ Shows(disp', cfg, FALSE) /\ WordIn(disp', cfg) \in Entry!AnyWord(cfg)
      /\ DecimalIn(disp', cfg, FALSE) = NothingTyped
  BY <1>1, <1>2, ValueShown
<1>4. DisplayInv'
  BY <1>1, <1>2, <1>3 DEF DisplayInv
<1>5. ShownWord' \in Entry!AnyWord(cfg) /\ ShownDecimal' = NothingTyped
  BY <1>1, <1>2, <1>3, ShownIs
<1>6. Entry!Result
  BY <1>1, <1>2, <1>5, EntryResultStep
<1> QED BY <1>4, <1>6 DEF KeyDone, Entry!Next

\* Another mode, or other digits.
LEMMA ChangeFloatDone ==
  ASSUME DisplayInv, ChangeFloatSettings
  PROVE  KeyDone
<1>1. cfg \in Configs /\ cfg' \in Configs /\ disp \in Display1 /\ ~disp.error
  BY DEF DisplayInv, Shows, ChangeFloatSettings
<1>2. PICK v \in IF cfg'.mode = "int" THEN {w \in Words : w < 2^cfg'.width} ELSE FloatTexts :
        disp' = display_set_val(disp, v, cfg') /\ arg_pending' = FALSE
  BY DEF ChangeFloatSettings, ShowResult
<1>3. /\ Shows(disp', cfg', FALSE) /\ WordIn(disp', cfg') \in Entry!AnyWord(cfg')
      /\ DecimalIn(disp', cfg', FALSE) = NothingTyped
  BY <1>1, <1>2, ValueShown
<1>4. DisplayInv'
  BY <1>1, <1>2, <1>3 DEF DisplayInv
<1>5. ShownWord' \in Entry!AnyWord(cfg') /\ ShownDecimal' = NothingTyped
  BY <1>2, <1>3, ShownIs
<1>6. ~(cfg.mode = "int" /\ cfg'.mode = "int")
  <2>1. CASE cfg' = [cfg EXCEPT !.mode = IF @ = "int" THEN "float" ELSE "int"]
    <3>1. cfg'.mode = IF cfg.mode = "int" THEN "float" ELSE "int"
      BY <1>1, <2>1, SizesAssumption
    <3> QED BY <3>1
  <2>2. CASE cfg.mode = "float"
    BY <2>2
  <2> QED BY <2>1, <2>2 DEF ChangeFloatSettings
<1>7. Entry!ChangeSettings
  BY <1>1, <1>2, <1>5, <1>6, EntryChange
<1> QED BY <1>4, <1>7 DEF KeyDone, Entry!Next

\* A word cut to another width.
LEMMA SignedWordFits ==
  ASSUME NEW c \in Configs, NEW c2 \in Configs, NEW w \in Nat
  PROVE  SignedWord(w, c) % 2^c2.width \in Nat /\ SignedWord(w, c) % 2^c2.width < 2^c2.width
<1> DEFINE p == 2^c.width
           q == 2^c2.width
           n == SignedWord(w, c)
<1>1. p \in Nat
  BY WordFacts
<1>2. q \in Nat /\ q > 0
  <2> DEFINE g == 2^(c2.width - 1)
             b == Base(c2)
  <2>1. q \in Nat /\ g \in Nat /\ q = 2 * g /\ b <= g /\ b \in Bases
    BY WordFacts, SettingsFacts
  <2> HIDE DEF q, g, b
  <2> QED BY <2>1 DEF Bases
<1>3. n \in Int
  <2>1. n = w \/ n = w - p
    BY DEF SignedWord
  <2> HIDE DEF n, p
  <2> QED BY <1>1, <2>1
<1>4. n % q \in Nat /\ n % q < q
  <2> HIDE DEF n, q
  <2> QED BY <1>2, <1>3
<1> QED BY <1>4

\* Another radix, width or sign.
LEMMA ChangeIntDone ==
  ASSUME DisplayInv, ChangeIntSettings
  PROVE  KeyDone
<1> DEFINE v == SignedWord(disp.ival, cfg) % 2^cfg'.width
<1>1. /\ cfg \in Configs /\ cfg' \in Configs /\ cfg.mode = "int" /\ disp \in Display1 /\ ~disp.error
      /\ disp.ival \in Nat
      /\ disp' = display_set_val(disp, v, cfg') /\ arg_pending' = FALSE
  BY DEF DisplayInv, Shows, ChangeIntSettings, ShowResult, Display1
<1>2. cfg'.mode = "int"
  <2>1. PICK f \in {"format", "width", "unsigned"} : cfg' = [cfg EXCEPT ![f] = cfg'[f]]
    BY DEF ChangeIntSettings
  <2> QED BY <1>1, <2>1, SizesAssumption
<1>3. v \in Nat /\ v < 2^cfg'.width
  BY <1>1, SignedWordFits
<1> HIDE DEF v
<1>4. /\ Shows(disp', cfg', FALSE) /\ WordIn(disp', cfg') = v
      /\ DecimalIn(disp', cfg', FALSE) = NothingTyped
  BY <1>1, <1>2, <1>3, IntResult
<1>5. DisplayInv'
  BY <1>1, <1>4 DEF DisplayInv
<1>6. ShownWord' = v /\ ShownDecimal' = NothingTyped
  BY <1>1, <1>4, ShownIs
<1>7. v = Entry!Value(ShownWord, cfg) % 2^cfg'.width
  <2>1. ShownWord = disp.ival
    BY <1>1 DEF ShownWord
  <2>2. Entry!Value(disp.ival, cfg) = SignedWord(disp.ival, cfg)
    BY DEF Entry!Value, SignedWord
  <2> QED BY <2>1, <2>2 DEF v
<1>8. Entry!ChangeSettings
  BY <1>1, <1>2, <1>6, <1>7, EntryChange
<1> QED BY <1>5, <1>8 DEF KeyDone, Entry!Next

\* A step that changes nothing.
LEMMA StutterDone ==
  ASSUME DisplayInv, UNCHANGED vars
  PROVE  KeyDone
<1>1. disp' = disp /\ cfg' = cfg /\ arg_pending' = arg_pending
  BY DEF vars
<1>2. DisplayInv'
  BY <1>1 DEF DisplayInv
<1>3. ShownWord' = ShownWord /\ ShownDecimal' = ShownDecimal
  BY <1>1, ShownIs
<1>4. UNCHANGED Entry!vars
  BY <1>1, <1>3 DEF ShownWord, ShownDecimal, NothingTyped, NoExponent, Entry!vars
<1> QED BY <1>2, <1>4 DEF KeyDone

-----------------------------------------------------------------------------
(* The theorems *)

\* Every step keeps the invariant and is a step of NumberEntry, or none.
LEMMA StepDone ==
  ASSUME DisplayInv, [Next]_vars
  PROVE  KeyDone
<1>1. CASE \E k \in IntKeys \cup FloatKeys : digit_entered(k)
  <2>1. PICK k \in IntKeys \cup FloatKeys : digit_entered(k)
    BY <1>1
  <2>2. cfg.mode \in {"int", "float"}
    <3>1. cfg \in Configs
      BY DEF DisplayInv
    <3> QED BY <3>1, SettingsFacts
  <2>3. CASE cfg.mode = "int"
    BY <2>1, <2>3, IntKeyDone
  <2>4. CASE cfg.mode = "float"
    BY <2>1, <2>4, FloatKeyDone
  <2> QED BY <2>2, <2>3, <2>4
<1>2. CASE enter_point
  BY <1>2, PointKeyDone
<1>3. CASE bid_exp
  BY <1>3, ExpKeyDone
<1>4. CASE bid_pm
  BY <1>4, SignKeyDone
<1>5. CASE backspace_click
  BY <1>5, BackspaceKeyDone
<1>6. CASE Result
  BY <1>6, ResultDone
<1>7. CASE ChangeIntSettings
  BY <1>7, ChangeIntDone
<1>8. CASE ChangeFloatSettings
  BY <1>8, ChangeFloatDone
<1>9. CASE UNCHANGED vars
  BY <1>9, StutterDone
<1> QED BY <1>1, <1>2, <1>3, <1>4, <1>5, <1>6, <1>7, <1>8, <1>9 DEF Next

\* The calculator starts with 0 on the display and no number being typed.
LEMMA InitDone ==
  ASSUME Init
  PROVE  DisplayInv /\ Entry!Init
<1> DEFINE d == [stack |-> [i \in Slot |-> NUL], index |-> 0, exp_entry |-> FALSE, ival |-> 0, error |-> FALSE]
<1>1. /\ cfg \in Configs /\ cfg.mode \in {"int", "float"} /\ arg_pending = FALSE
      /\ disp = display_set_text(d, <<Digit[0 + 1]>>, cfg)
  <2>1. cfg \in Configs
    BY DEF Init
  <2>2. cfg.mode \in {"int", "float"}
    BY <2>1, SettingsFacts
  <2> QED BY <2>1, <2>2, FirstDigits DEF Init
<1>2. d \in Display1 /\ ~d.error
  <2>1. [i \in Slot |-> NUL] \in [Slot -> Chars] /\ 0 \in 0..DISP_STACK_SIZE
    <3>1. NUL \in Chars /\ DISP_STACK_SIZE \in Nat
      BY SizesAssumption DEF Chars
    <3> QED BY <3>1
  <2> QED BY <2>1 DEF Display1
<1> HIDE DEF d
<1>3. Shows(disp, cfg, FALSE) /\ WordIn(disp, cfg) = 0 /\ DecimalIn(disp, cfg, FALSE) = NothingTyped
  <2>1. CASE cfg.mode = "int"
    <3>1. 0 \in 0..15 /\ 0 \in Nat /\ 0 < Base(cfg)
      BY <1>1, SettingsFacts DEF Bases
    <3>2. IntStored(disp, 0, cfg)
      BY <1>1, <1>2, <2>1, <3>1, IntStart
    <3> QED BY <1>1, <2>1, <3>1, <3>2, EntryWord
  <2>2. CASE cfg.mode = "float"
    <3>1. 0 \in 0..9
      OBVIOUS
    <3>2. FloatShown(disp, Entry!Decimal(<<0>>, FALSE), cfg)
      BY <1>1, <1>2, <2>2, <3>1, FloatBegins
    <3>3. disp \in Display1 /\ ~disp.error /\ Terminated(disp) /\ cfg.mode # "int"
      BY <2>2, <3>2 DEF FloatShown
    <3> QED BY <3>3 DEF Shows, WordIn, DecimalIn
  <2> QED BY <1>1, <2>1, <2>2
<1>4. DisplayInv
  BY <1>1, <1>3 DEF DisplayInv
<1>5. ShownWord = 0 /\ ShownDecimal = NothingTyped
  BY <1>1, <1>3, ShownIs
<1>6. Entry!Init
  BY <1>1, <1>5
     DEF ShownWord, ShownDecimal, NothingTyped, NoExponent, Entry!Init, Entry!NoDecimal, Entry!Decimal, Entry!NoExp
<1> QED BY <1>4, <1>6

\* The display always shows a number: in integer mode the one whose word is stored,
\* while a floating point number is typed a decimal, each character in the slot that
\* the functions of display.c expect it in.
THEOREM DisplayInvariant == Spec => []DisplayInv
<1>1. Init => DisplayInv
  BY InitDone
<1>2. DisplayInv /\ [Next]_vars => DisplayInv'
  BY StepDone DEF KeyDone
<1> QED BY <1>1, <1>2, PTL DEF Spec

\* The fields of the display keep their types.
THEOREM TypeCorrect == Spec => []TypeOK
BY DisplayInvariant, InvTypeOK, PTL

\* The characters stay NUL terminated by hand, the last slot is never written, whatever
\* keys and settings follow one another (display.c:148, 303-313, 486-508).
THEOREM AlwaysTerminated == Spec => []NulTerminated
BY DisplayInvariant, InvNulTerminated, PTL

\* display.c never reports an error; the stored word is the number on the display, which
\* printing gives back; and the text of a number being typed can be read by
\* dfp_from_string, with no more digits than the display shows.
THEOREM AlwaysShown == Spec => []NumberIsShown
BY DisplayInvariant, InvNumberIsShown, PTL

\* A digit is taken exactly when the longer number fits: the read back and the one pop
\* of update_display lose no digit and keep none too many (display.c:226-262).
THEOREM EveryDigitTaken == Spec => []DigitTaken
BY DisplayInvariant, InvDigitTaken, PTL

\* The keys edit the number and not just its text: every step of the display is a step of
\* NumberEntry on the number that is read from the characters.
THEOREM EntryRefined == Spec => ImplementsEntry
<1>1. Init => Entry!Init
  BY InitDone
<1>2. DisplayInv /\ [Next]_vars => [Entry!Next]_(Entry!vars)
  BY StepDone DEF KeyDone
<1> QED BY <1>1, <1>2, DisplayInvariant, PTL DEF Spec, ImplementsEntry, Entry!Spec
=============================================================================
