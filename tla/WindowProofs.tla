---------------------------- MODULE WindowProofs ----------------------------
(***************************************************************************)
(* The binary display, the history window and the conversion window.       *)
(*                                                                         *)
(* The display: the text of a word has a closed form, which places every   *)
(* character of both lines; a bit and its place determine each other; and  *)
(* the pixels of a place are those in which get_bit_clicked finds its bit. *)
(***************************************************************************)
EXTENDS History, BitDisplay, SequenceTheorems, FiniteSetTheorems, TLAPS

-----------------------------------------------------------------------------
(* The text of a word                                                       *)

Chars == {" ", "-", "0", "1"}

\* The bit that the k-th character of byte j stands for.
BitAt(j, k) == IF k < 5 THEN 8 * j + 8 - k ELSE 8 * j + 9 - k

\* The k-th character of byte j and the two spaces behind it.
ByteChar(word, n, j, k) ==
  IF k > 9 THEN " " ELSE IF j >= n THEN " " ELSE IF k = 5 THEN "-"
  ELSE Digit(word, BitAt(j, k))

\* The character of a place, by cases.
LEMMA ByteChars ==
  ASSUME NEW word, NEW n \in Nat, NEW j \in Int, NEW k \in Int
  PROVE  /\ k > 9 => ByteChar(word, n, j, k) = " "
         /\ j >= n => ByteChar(word, n, j, k) = " "
         /\ k = 5 /\ j < n => ByteChar(word, n, j, k) = "-"
         /\ k \in 1..9 /\ k < 5 /\ j < n => ByteChar(word, n, j, k) = Digit(word, 8 * j + 8 - k)
         /\ k \in 1..9 /\ k > 5 /\ j < n => ByteChar(word, n, j, k) = Digit(word, 8 * j + 9 - k)
<1>1. k > 9 => ByteChar(word, n, j, k) = " "
      BY DEF ByteChar
<1>2. j >= n => ByteChar(word, n, j, k) = " "
      BY DEF ByteChar
<1>3. k = 5 /\ j < n => ByteChar(word, n, j, k) = "-"
      BY DEF ByteChar
<1>4. ASSUME k \in 1..9, k # 5, j < n PROVE ByteChar(word, n, j, k) = Digit(word, BitAt(j, k))
  <2>1. ~(k > 9) /\ ~(j >= n)
        BY <1>4
  <2> QED BY <2>1, <1>4, Zenon DEF ByteChar
<1>5. ASSUME k < 5 PROVE BitAt(j, k) = 8 * j + 8 - k
      BY <1>5 DEF BitAt
<1>6. ASSUME k > 5 PROVE BitAt(j, k) = 8 * j + 9 - k
      BY <1>6 DEF BitAt
<1>7. k > 5 => k # 5
      OBVIOUS
<1>8. k < 5 => k # 5
      OBVIOUS
<1> QED BY <1>1, <1>2, <1>3, <1>4, <1>5, <1>6, <1>7, <1>8, Zenon

\* A function on 1..m is a sequence of m elements.
LEMMA IsText ==
  ASSUME NEW S, NEW m \in Nat, NEW s \in [1..m -> S]
  PROVE  s \in Seq(S) /\ Len(s) = m
OBVIOUS

\* Byte i and those below it.
Text(word, n, i) ==
  [p \in 1..11 * i + 9 |-> ByteChar(word, n, i - (p - 1) \div 11, ((p - 1) % 11) + 1)]

\* The characters of byte i, used or not.
ByteOrBlank(word, n, i) == IF i < n THEN ByteText(word, i) ELSE UnusedByte

\* The nine characters of a byte.
LEMMA CharOfByte ==
  ASSUME NEW word, NEW n \in Nat, NEW i \in 0..7
  PROVE  /\ ByteOrBlank(word, n, i) \in Seq(Chars) /\ Len(ByteOrBlank(word, n, i)) = 9
         /\ \A k \in 1..9 : ByteOrBlank(word, n, i)[k] = ByteChar(word, n, i, k)
<1> DEFINE s == ByteOrBlank(word, n, i)
<1>0. i \in Int /\ 9 \in Nat
      OBVIOUS
<1>1. CASE i < n
  <2>1. s = ByteText(word, i)
        BY <1>1 DEF ByteOrBlank
  <2>2. ByteText(word, i) \in [1..9 -> Chars]
        BY DEF ByteText, Digit, Chars
  <2>3. ASSUME NEW k \in 1..9
        PROVE  ByteText(word, i)[k] = ByteChar(word, n, i, k)
    <3>0. k \in Int /\ k <= 9
          OBVIOUS
    <3>1. CASE k < 5
      <4>1. ByteText(word, i)[k] = Digit(word, 8 * i + 8 - k)
            BY <3>1 DEF ByteText
      <4> QED BY <4>1, <3>0, <3>1, <1>0, <1>1, ByteChars, ZenonT(60)
    <3>2. CASE k = 5
      <4>1. ByteText(word, i)[k] = "-"
            BY <3>2 DEF ByteText
      <4> QED BY <4>1, <3>0, <3>2, <1>0, <1>1, ByteChars
    <3>3. CASE k > 5
      <4>1. ByteText(word, i)[k] = Digit(word, 8 * i + 9 - k)
            BY <3>3 DEF ByteText
      <4> QED BY <4>1, <3>0, <3>3, <1>0, <1>1, ByteChars, ZenonT(60)
    <3> QED BY <3>1, <3>2, <3>3
  <2>4. ByteText(word, i) \in Seq(Chars) /\ Len(ByteText(word, i)) = 9
        BY <2>2, <1>0, IsText
  <2> QED BY <2>1, <2>3, <2>4
<1>2. CASE ~(i < n)
  <2>1. s = UnusedByte
        BY <1>2 DEF ByteOrBlank
  <2>2. UnusedByte \in [1..9 -> Chars] /\ \A k \in 1..9 : UnusedByte[k] = " "
        BY DEF UnusedByte, Chars
  <2>3. ASSUME NEW k \in 1..9
        PROVE  ByteChar(word, n, i, k) = " "
    <3>1. k \in Int /\ i >= n
          BY <1>2
    <3> QED BY <3>1, <1>0, ByteChars
  <2>4. UnusedByte \in Seq(Chars) /\ Len(UnusedByte) = 9
        BY <2>2, <1>0, IsText, ZenonT(60)
  <2> HIDE DEF s
  <2> QED BY <2>1, <2>2, <2>3, <2>4 DEF s
<1> QED BY <1>1, <1>2

\* The elements of a concatenation.
LEMMA Joined ==
  ASSUME NEW S, NEW s \in Seq(S), NEW t \in Seq(S)
  PROVE  /\ s \o t \in Seq(S) /\ Len(s \o t) = Len(s) + Len(t)
         /\ \A k \in 1..Len(s) : (s \o t)[k] = s[k]
         /\ \A k \in Len(s) + 1..Len(s) + Len(t) : (s \o t)[k] = t[k - Len(s)]
<1>1. /\ s \o t \in Seq(S) /\ Len(s \o t) = Len(s) + Len(t)
      /\ \A k \in 1..Len(s) + Len(t) : (s \o t)[k] = (IF k <= Len(s) THEN s[k] ELSE t[k - Len(s)])
      BY ConcatProperties
<1>2. \A k \in 1..Len(s) : k \in 1..Len(s) + Len(t) /\ k <= Len(s)
      OBVIOUS
<1>3. \A k \in Len(s) + 1..Len(s) + Len(t) : k \in 1..Len(s) + Len(t) /\ ~(k <= Len(s))
      OBVIOUS
<1> QED BY <1>1, <1>2, <1>3

\* The closed form is a text.
LEMMA TextType ==
  ASSUME NEW word, NEW n \in Nat, NEW i \in 0..7
  PROVE  Text(word, n, i) \in Seq(Chars) /\ Len(Text(word, n, i)) = 11 * i + 9
<1> DEFINE m == 11 * i + 9
           t == Text(word, n, i)
<1>1. m \in Nat
      OBVIOUS
<1>2. t \in [1..m -> Chars]
      BY DEF Text, ByteChar, Digit, Chars
<1> HIDE DEF m, t
<1>3. t \in Seq(Chars) /\ Len(t) = m
      BY <1>1, <1>2, IsText
<1> QED BY <1>3 DEF m, t

\* The rightmost byte.
LEMMA FirstByte ==
  ASSUME NEW word, NEW n \in Nat
  PROVE  Text(word, n, 0) = ByteOrBlank(word, n, 0) \o <<>>
<1> DEFINE s == ByteOrBlank(word, n, 0)
           t == Text(word, n, 0)
<1>1. s \in Seq(Chars) /\ Len(s) = 9 /\ \A k \in 1..9 : s[k] = ByteChar(word, n, 0, k)
      BY CharOfByte, 0 \in 0..7
<1>2. t \in Seq(Chars) /\ Len(t) = 9
      BY TextType, 0 \in 0..7, 11 * 0 + 9 = 9
<1>3. \A k \in 1..9 : t[k] = ByteChar(word, n, 0, k)
  <2>1. TAKE k \in 1..9
  <2>2. (k - 1) \div 11 = 0 /\ ((k - 1) % 11) + 1 = k /\ k \in 1..11 * 0 + 9
        OBVIOUS
  <2> QED BY <2>2 DEF Text
<1> HIDE DEF s, t
<1>4. s = t
      BY <1>1, <1>2, <1>3, SeqEqual
<1>5. s \o <<>> = s
      BY <1>1, ConcatEmptySeq
<1> QED BY <1>4, <1>5 DEF s, t

\* Between two bytes.
Gap == <<" ", " ">>

LEMMA GapType == Gap \in Seq(Chars) /\ Len(Gap) = 2 /\ \A k \in 1..2 : Gap[k] = " "
<1>1. Gap \in Seq(Chars)
      BY DEF Gap, Chars
<1>2. Len(Gap) = 2
      BY DEF Gap
<1>3. Gap[1] = " " /\ Gap[2] = " "
      BY DEF Gap
<1>4. 1..2 = {1, 2}
      OBVIOUS
<1> QED BY <1>1, <1>2, <1>3, <1>4

\* One more byte to the left, as set_bin_display goes on.
LEMMA NextByte ==
  ASSUME NEW word, NEW n \in Nat, NEW i \in 1..7
  PROVE  Text(word, n, i) = ByteOrBlank(word, n, i) \o (Gap \o Text(word, n, i - 1))
<1> DEFINE s == ByteOrBlank(word, n, i)
           t == Text(word, n, i)
           u == Text(word, n, i - 1)
           v == Gap \o u
           m == 11 * i + 9
<1>1. s \in Seq(Chars) /\ Len(s) = 9 /\ \A k \in 1..9 : s[k] = ByteChar(word, n, i, k)
      BY CharOfByte, i \in 0..7
<1>2. /\ t \in Seq(Chars) /\ Len(t) = m
      /\ u \in Seq(Chars) /\ Len(u) = m - 11
  <2>1. i - 1 \in 0..7 /\ i \in 0..7 /\ 11 * (i - 1) + 9 = m - 11
        OBVIOUS
  <2> QED BY <2>1, TextType
<1>4. m \in Nat /\ m >= 20
      OBVIOUS
<1>5. \A k \in 1..m : t[k] = ByteChar(word, n, i - (k - 1) \div 11, ((k - 1) % 11) + 1)
      BY DEF Text
<1>6. \A k \in 1..m - 11 :
         u[k] = ByteChar(word, n, i - 1 - (k - 1) \div 11, ((k - 1) % 11) + 1)
  <2>1. m - 11 = 11 * (i - 1) + 9
        OBVIOUS
  <2> QED BY <2>1 DEF Text
<1> HIDE DEF s, t, u, v, m
<1>7. /\ v \in Seq(Chars) /\ Len(v) = m - 9
      /\ \A k \in 1..2 : v[k] = Gap[k]
      /\ \A k \in 3..m - 9 : v[k] = u[k - 2]
  <2>1. /\ v \in Seq(Chars) /\ Len(v) = Len(Gap) + Len(u)
        /\ \A k \in 1..Len(Gap) : v[k] = Gap[k]
        /\ \A k \in Len(Gap) + 1..Len(Gap) + Len(u) : v[k] = u[k - Len(Gap)]
        BY <1>2, GapType, Joined, ZenonT(60) DEF v
  <2>3. 2 + (m - 11) = m - 9 /\ 2 + 1 = 3
        BY <1>4
  <2>2. Len(Gap) = 2 /\ Len(u) = m - 11 /\ 2 + (m - 11) = m - 9 /\ 2 + 1 = 3
        BY <2>3, <1>2, GapType, Zenon
  <2> QED BY <2>1, <2>2
<1>8. /\ s \o v \in Seq(Chars) /\ Len(s \o v) = m
      /\ \A k \in 1..9 : (s \o v)[k] = s[k]
      /\ \A k \in 10..m : (s \o v)[k] = v[k - 9]
  <2>1. /\ s \o v \in Seq(Chars) /\ Len(s \o v) = Len(s) + Len(v)
        /\ \A k \in 1..Len(s) : (s \o v)[k] = s[k]
        /\ \A k \in Len(s) + 1..Len(s) + Len(v) : (s \o v)[k] = v[k - Len(s)]
        BY <1>1, <1>7, Joined, ZenonT(120)
  <2>2. Len(s) = 9 /\ Len(v) = m - 9 /\ 9 + (m - 9) = m /\ 9 + 1 = 10
        BY <1>1, <1>4, <1>7
  <2> QED BY <2>1, <2>2
<1>9. \A k \in 1..m : (s \o v)[k] = t[k]
  <2> SUFFICES ASSUME NEW k \in 1..m PROVE (s \o v)[k] = t[k]
      OBVIOUS
  <2>1. CASE k <= 9
    <3>1. (k - 1) \div 11 = 0 /\ ((k - 1) % 11) + 1 = k /\ k \in 1..9 /\ i - 0 = i
          BY <2>1, <1>4
    <3>2. t[k] = ByteChar(word, n, i, k)
          BY <3>1, <1>5
    <3> QED BY <3>1, <3>2, <1>1, <1>8
  <2>2. CASE k \in {10, 11}
    <3>1. ((k - 1) % 11) + 1 > 9
          BY <2>2
    <3>2. t[k] = " "
      <4>1. ((k - 1) % 11) + 1 \in Int /\ i - (k - 1) \div 11 \in Int
            BY <2>2
      <4> QED BY <3>1, <4>1, <1>5, ByteChars, ZenonT(60)
    <3>3. k \in 10..m /\ k - 9 \in 1..2
          BY <2>2, <1>4
    <3>4. (s \o v)[k] = v[k - 9] /\ v[k - 9] = Gap[k - 9] /\ Gap[k - 9] = " "
          BY <3>3, <1>7, <1>8, GapType
    <3> QED BY <3>2, <3>4
  <2>3. CASE k > 11
    <3>1. /\ (k - 12) \div 11 = (k - 1) \div 11 - 1 /\ (k - 12) % 11 = (k - 1) % 11
          /\ (k - 1) \div 11 \in Int
          BY <2>3, <1>4
    <3>2. k - 11 \in 1..m - 11 /\ (k - 11) - 1 = k - 12
          BY <2>3, <1>4
    <3>3. u[k - 11] = ByteChar(word, n, i - 1 - (k - 12) \div 11, ((k - 12) % 11) + 1)
          BY <3>2, <1>6
    <3>4. i - 1 - (k - 12) \div 11 = i - (k - 1) \div 11
          BY <3>1
    <3>5. k - 9 \in 3..m - 9 /\ (k - 9) - 2 = k - 11 /\ k \in 10..m
          BY <2>3, <1>4
    <3>6. (s \o v)[k] = u[k - 11]
          BY <3>5, <1>7, <1>8, ZenonT(60)
    <3>7. t[k] = ByteChar(word, n, i - (k - 1) \div 11, ((k - 1) % 11) + 1)
          BY <1>5
    <3>8. u[k - 11] = ByteChar(word, n, i - (k - 1) \div 11, ((k - 1) % 11) + 1)
          BY <3>1, <3>3, <3>4, Zenon
    <3> QED BY <3>6, <3>7, <3>8, Zenon
  <2>4. k <= 9 \/ k \in {10, 11} \/ k > 11
        BY <1>4
  <2> QED BY <2>1, <2>2, <2>3, <2>4, Zenon
<1>10. s \o v = t
  <2>1. \A k \in 1..Len(s \o v) : (s \o v)[k] = t[k]
        BY <1>8, <1>9
  <2> HIDE DEF v
  <2> QED BY <1>2, <1>8, <2>1, SeqEqual
<1> QED BY <1>10 DEF s, t, u, v

\* The recursion over the bytes, and what it computes.
LEMMA DrawnText ==
  ASSUME NEW word, NEW n \in Nat
  PROVE  BinText(word, n) = Text(word, n, 7)
<1> DEFINE Def(f) == f = [i \in 0..7 |->
             (IF i < n THEN ByteText(word, i) ELSE UnusedByte)
               \o (IF i = 0 THEN <<>> ELSE <<" ", " ">> \o f[i - 1])]
           g == [i \in 0..7 |-> Text(word, n, i)]
           t == CHOOSE f : Def(f)
<1>1. BinText(word, n) = t[7]
      BY DEF BinText
<1>2. Def(g)
  <2>1. \A i \in 0..7 : g[i] = (IF i < n THEN ByteText(word, i) ELSE UnusedByte)
                                 \o (IF i = 0 THEN <<>> ELSE <<" ", " ">> \o g[i - 1])
    <3>1. TAKE i \in 0..7
    <3>2. CASE i = 0
      <4>1. g[i] = ByteOrBlank(word, n, i) \o <<>>
            BY <3>2, FirstByte
      <4> QED BY <3>2, <4>1 DEF ByteOrBlank
    <3>3. CASE i # 0
      <4>1. i \in 1..7 /\ i - 1 \in 0..7
            BY <3>3
      <4>2. g[i] = ByteOrBlank(word, n, i) \o (Gap \o g[i - 1])
            BY <4>1, NextByte
      <4> HIDE DEF g
      <4> QED BY <3>3, <4>2 DEF ByteOrBlank, Gap
    <3> QED BY <3>2, <3>3
  <2> QED BY <2>1
<1>3. Def(t)
      BY <1>2, ZenonT(60)
<1> HIDE DEF g
<1>4. \A i \in 0..7 : t[i] = (IF i < n THEN ByteText(word, i) ELSE UnusedByte)
                              \o (IF i = 0 THEN <<>> ELSE <<" ", " ">> \o t[i - 1])
      BY <1>3, ZenonT(60)
<1> HIDE DEF t
<1>5. t[0] = Text(word, n, 0)
  <2>1. t[0] = ByteOrBlank(word, n, 0) \o <<>>
    <3>1. t[0] = (IF 0 < n THEN ByteText(word, 0) ELSE UnusedByte)
                  \o (IF 0 = 0 THEN <<>> ELSE <<" ", " ">> \o t[0 - 1])
      <4>1. 0 \in 0..7
            OBVIOUS
      <4> QED BY <1>4, <4>1, Zenon
    <3> QED BY <3>1 DEF ByteOrBlank
  <2> QED BY <2>1, FirstByte
<1>6. ASSUME NEW i \in 1..7, t[i - 1] = Text(word, n, i - 1) PROVE t[i] = Text(word, n, i)
  <2>1. i \in 0..7 /\ i # 0
        OBVIOUS
  <2>2. t[i] = ByteOrBlank(word, n, i) \o (Gap \o t[i - 1])
        BY <1>4, <2>1 DEF ByteOrBlank, Gap
  <2> QED BY <2>2, <1>6, NextByte
<1>7. t[1] = Text(word, n, 1)
      BY <1>5, <1>6, 1 - 1 = 0, 1 \in 1..7
<1>8. t[2] = Text(word, n, 2)
      BY <1>7, <1>6, 2 - 1 = 1, 2 \in 1..7
<1>9. t[3] = Text(word, n, 3)
      BY <1>8, <1>6, 3 - 1 = 2, 3 \in 1..7
<1>10. t[4] = Text(word, n, 4)
      BY <1>9, <1>6, 4 - 1 = 3, 4 \in 1..7
<1>11. t[5] = Text(word, n, 5)
      BY <1>10, <1>6, 5 - 1 = 4, 5 \in 1..7
<1>12. t[6] = Text(word, n, 6)
      BY <1>11, <1>6, 6 - 1 = 5, 6 \in 1..7
<1>13. t[7] = Text(word, n, 7)
      BY <1>12, <1>6, 7 - 1 = 6, 7 \in 1..7
<1> QED BY <1>1, <1>13, ZenonT(60) DEF t

-----------------------------------------------------------------------------
(* The two lines                                                            *)

Lines == {"top", "bot"}

\* The byte that the q-th character of a line stands in, its place there, and its bit.
ByteOf(line, q) == (IF line = "top" THEN 7 ELSE 3) - (q - 1) \div 11
Place(q) == ((q - 1) % 11) + 1
HasBit(q) == Place(q) <= 9 /\ Place(q) # 5
BitOf(line, q) == BitAt(ByteOf(line, q), Place(q))

CharIn(line, word, n, q) == ByteChar(word, n, ByteOf(line, q), Place(q))

\* The characters of a line, cut out of the text.
LEMMA SplitLine ==
  ASSUME NEW line \in Lines, NEW word, NEW n \in Nat
  PROVE  LET t == Split(BinText(word, n), line)
         IN  t \in Seq(Chars) /\ Len(t) = 42 /\ \A q \in 1..42 : t[q] = CharIn(line, word, n, q)
<1> DEFINE t == Text(word, n, 7)
<1>1. t \in Seq(Chars) /\ Len(t) = 86
      BY TextType, 7 \in 0..7, 11 * 7 + 9 = 86
<1>2. \A p \in 1..86 : t[p] = ByteChar(word, n, 7 - (p - 1) \div 11, ((p - 1) % 11) + 1)
  <2>1. 11 * 7 + 9 = 86
        OBVIOUS
  <2> QED BY <2>1 DEF Text
<1>3. BinText(word, n) = t
      BY DrawnText
<1> HIDE DEF t
<1>4. \A p \in 1..86 : t[p] \in Chars
  <2>1. t \in [1..86 -> Chars]
        BY <1>1, LenProperties
  <2> QED BY <2>1
<1>5. CASE line = "top"
  <2> DEFINE u == SubSeq(t, 1, 42)
  <2>1. Split(BinText(word, n), line) = u
        BY <1>3, <1>5 DEF Split
  <2>2. \A p \in 1..42 : t[p] \in Chars
    <3>1. \A p \in 1..42 : p \in 1..86
          OBVIOUS
    <3> QED BY <3>1, <1>4
  <2>3. /\ u \in Seq(Chars) /\ Len(u) = (IF 1 <= 42 THEN 42 - 1 + 1 ELSE 0)
        /\ \A q \in 1..42 - 1 + 1 : u[q] = t[1 + q - 1]
        BY <2>2, SubSeqProperties
  <2> HIDE DEF u
  <2>4. ASSUME NEW q \in 1..42
        PROVE  u[q] = CharIn(line, word, n, q)
    <3>1. q \in 1..86 /\ 1 + q - 1 = q /\ q \in 1..42 - 1 + 1
          OBVIOUS
    <3>2. u[q] = ByteChar(word, n, 7 - (q - 1) \div 11, ((q - 1) % 11) + 1)
          BY <3>1, <2>3, <1>2
    <3> QED BY <3>2, <1>5 DEF CharIn, ByteOf, Place
  <2>5. Len(u) = 42
        BY <2>3
  <2> QED BY <2>1, <2>3, <2>4, <2>5
<1>6. CASE line = "bot"
  <2> DEFINE u == SubSeq(t, 45, 86)
  <2>1. Split(BinText(word, n), line) = u
        BY <1>3, <1>6 DEF Split
  <2>2. \A p \in 45..86 : t[p] \in Chars
    <3>1. \A p \in 45..86 : p \in 1..86
          OBVIOUS
    <3> QED BY <3>1, <1>4
  <2>3. /\ u \in Seq(Chars) /\ Len(u) = (IF 45 <= 86 THEN 86 - 45 + 1 ELSE 0)
        /\ \A q \in 1..86 - 45 + 1 : u[q] = t[45 + q - 1]
        BY <2>2, SubSeqProperties
  <2> HIDE DEF u
  <2>4. ASSUME NEW q \in 1..42
        PROVE  u[q] = CharIn(line, word, n, q)
    <3>1. q + 44 \in 1..86 /\ 45 + q - 1 = q + 44 /\ q \in 1..86 - 45 + 1
          OBVIOUS
    <3>2. u[q] = ByteChar(word, n, 7 - (q + 44 - 1) \div 11, ((q + 44 - 1) % 11) + 1)
      <4>1. u[q] = t[q + 44]
            BY <3>1, <2>3
      <4> QED BY <3>1, <4>1, <1>2
    <3>3. 7 - (q + 44 - 1) \div 11 = 3 - (q - 1) \div 11 /\ (q + 44 - 1) % 11 = (q - 1) % 11
          OBVIOUS
    <3>4. ByteOf(line, q) = 3 - (q - 1) \div 11
          BY <1>6 DEF ByteOf
    <3>5. CharIn(line, word, n, q) = ByteChar(word, n, 3 - (q - 1) \div 11, ((q - 1) % 11) + 1)
          BY <3>4, Zenon DEF CharIn, Place
    <3> QED BY <3>2, <3>3, <3>5, Zenon
  <2>5. Len(u) = 42
        BY <2>3
  <2> QED BY <2>1, <2>3, <2>4, <2>5
<1> QED BY <1>5, <1>6 DEF Lines

\* Where a bit is drawn.
LineOf(b) == IF b < 32 THEN "bot" ELSE "top"
SpotOf(b) == 11 * (3 - ((b \div 8) % 4)) + (IF b % 8 < 4 THEN 9 - (b % 8) ELSE 8 - (b % 8))

\* Where the byte of a character lies.
LEMMA ByteOfPlace ==
  ASSUME NEW line \in Lines, NEW q \in 1..42
  PROVE  /\ ByteOf(line, q) \in 0..7 /\ Place(q) \in 1..11
         /\ line = "top" => ByteOf(line, q) \in 4..7
         /\ line = "bot" => ByteOf(line, q) \in 0..3
         /\ q = 11 * (3 - (ByteOf(line, q) % 4)) + Place(q)
<1>1. CASE line = "top"
      BY <1>1 DEF ByteOf, Place
<1>2. CASE line = "bot"
      BY <1>2 DEF ByteOf, Place
<1> QED BY <1>1, <1>2 DEF Lines

\* Where the bit of a character lies in its byte.
LEMMA BitInByte ==
  ASSUME NEW j \in 0..7, NEW k \in 1..9, k # 5
  PROVE  /\ BitAt(j, k) \in 0..63
         /\ BitAt(j, k) \div 8 = j
         /\ BitAt(j, k) % 8 = (IF k < 5 THEN 8 - k ELSE 9 - k)
<1>1. CASE k < 5
      BY <1>1 DEF BitAt
<1>2. CASE k > 5
      BY <1>2 DEF BitAt
<1> QED BY <1>1, <1>2

\* A place that has a bit is the only one that has it.
LEMMA SpotOfBit ==
  ASSUME NEW line \in Lines, NEW q \in 1..42, HasBit(q)
  PROVE  /\ BitOf(line, q) \in 0..63
         /\ LineOf(BitOf(line, q)) = line /\ SpotOf(BitOf(line, q)) = q
         /\ \A n \in Nat : BitOf(line, q) < 8 * n <=> ByteOf(line, q) < n
<1> DEFINE j == ByteOf(line, q)
           k == Place(q)
           b == BitOf(line, q)
<1>1. /\ j \in 0..7 /\ k \in 1..9 /\ k # 5
      /\ line = "top" => j \in 4..7
      /\ line = "bot" => j \in 0..3
      /\ q = 11 * (3 - (j % 4)) + k
      BY ByteOfPlace DEF HasBit
<1>2. b = BitAt(j, k)
      BY DEF BitOf
<1> HIDE DEF j, k, b
<1>3. b \in 0..63 /\ b \div 8 = j /\ b % 8 = (IF k < 5 THEN 8 - k ELSE 9 - k)
      BY <1>1, <1>2, BitInByte
<1>4. b < 32 <=> j < 4
      BY <1>1, <1>3
<1>5. LineOf(b) = line
      BY <1>1, <1>4 DEF LineOf, Lines
<1>6. SpotOf(b) = q
  <2>1. CASE k < 5
    <3>1. b % 8 = 8 - k /\ ~(b % 8 < 4)
          BY <2>1, <1>1, <1>3
    <3>2. SpotOf(b) = 11 * (3 - (j % 4)) + (8 - (8 - k))
          BY <3>1, <1>3 DEF SpotOf
    <3> QED BY <3>2, <1>1
  <2>2. CASE k > 5
    <3>1. b % 8 = 9 - k /\ b % 8 < 4
          BY <2>2, <1>1, <1>3
    <3>2. SpotOf(b) = 11 * (3 - (j % 4)) + (9 - (9 - k))
          BY <3>1, <1>3 DEF SpotOf
    <3> QED BY <3>2, <1>1
  <2> QED BY <2>1, <2>2, <1>1
<1>7. ASSUME NEW n \in Nat PROVE b < 8 * n <=> j < n
      BY <1>1, <1>3
<1> QED BY <1>3, <1>5, <1>6, <1>7 DEF b, j

\* The spot of a bit shows that bit.
LEMMA BitOfSpot ==
  ASSUME NEW b \in 0..63
  PROVE  /\ LineOf(b) \in Lines /\ SpotOf(b) \in 1..42 /\ HasBit(SpotOf(b))
         /\ BitOf(LineOf(b), SpotOf(b)) = b
<1> DEFINE j == b \div 8
           r == b % 8
           q == SpotOf(b)
<1>1. j \in 0..7 /\ r \in 0..7 /\ b = 8 * j + r /\ (b < 32 <=> j < 4)
      BY SMT
<1>2. q = 11 * (3 - (j % 4)) + (IF r < 4 THEN 9 - r ELSE 8 - r)
      BY DEF SpotOf
<1>3. LineOf(b) \in Lines /\ (j >= 4 => LineOf(b) = "top") /\ (j < 4 => LineOf(b) = "bot")
      BY <1>1 DEF LineOf, Lines
<1> HIDE DEF j, r, q
<1>4. PICK d \in 0..3 : d = j % 4 /\ (j >= 4 => j = d + 4) /\ (j < 4 => j = d)
      BY <1>1
<1>5. PICK k \in 1..9 : k # 5 /\ k = (IF r < 4 THEN 9 - r ELSE 8 - r)
      BY <1>1
<1>6. q = 11 * (3 - d) + k
      BY <1>2, <1>4, <1>5
<1>7. q \in 1..42 /\ (q - 1) \div 11 = 3 - d /\ Place(q) = k
      BY <1>6 DEF Place
<1>8. HasBit(q)
      BY <1>5, <1>7 DEF HasBit
<1>9. ByteOf(LineOf(b), q) = j
      BY <1>1, <1>3, <1>4, <1>7 DEF ByteOf
<1>10. BitAt(j, k) = b
  <2>1. CASE r < 4
        BY <2>1, <1>1, <1>5 DEF BitAt
  <2>2. CASE ~(r < 4)
        BY <2>2, <1>1, <1>5 DEF BitAt
  <2> QED BY <2>1, <2>2
<1>11. BitOf(LineOf(b), q) = b
      BY <1>7, <1>9, <1>10, Zenon DEF BitOf
<1> QED BY <1>3, <1>7, <1>8, <1>11 DEF q

-----------------------------------------------------------------------------
(* What is drawn for a word, and what a changed bit changes                 *)

\* A bit is drawn at place q of a line, for a word of n bytes.
IsDrawn(line, n, q) == integer_mode /\ HasBit(q) /\ ByteOf(line, q) < n

\* What is drawn at a place that shows no bit does not depend on the word.
Blank(line, n, q) ==
  IF integer_mode /\ Place(q) = 5 /\ ByteOf(line, q) < n THEN "-" ELSE " "

\* How a 0 is drawn.
Zero == IF replace_zero THEN "O" ELSE "0"

\* A character of a line is the digit of its bit or nothing.
LEMMA CharsIn ==
  ASSUME NEW line \in Lines, NEW word, NEW n \in Nat, NEW q \in 1..42, integer_mode
  PROVE  /\ IsDrawn(line, n, q) => CharIn(line, word, n, q) = Digit(word, BitOf(line, q))
         /\ ~IsDrawn(line, n, q) => CharIn(line, word, n, q) = Blank(line, n, q)
<1> DEFINE j == ByteOf(line, q)
           k == Place(q)
<1>0. j \in 0..7 /\ k \in 1..11
      BY ByteOfPlace
<1>2. /\ CharIn(line, word, n, q) = ByteChar(word, n, j, k)
      /\ BitOf(line, q) = BitAt(j, k)
      /\ IsDrawn(line, n, q) <=> k <= 9 /\ k # 5 /\ j < n
      BY DEF CharIn, BitOf, IsDrawn, HasBit
<1>3. /\ k = 5 /\ j < n => Blank(line, n, q) = "-"
      /\ ~(k = 5 /\ j < n) => Blank(line, n, q) = " "
      BY DEF Blank
<1> HIDE DEF j, k
<1>1. j \in Int /\ k \in Int
      BY <1>0
<1>4. CASE k <= 9 /\ k # 5 /\ j < n
  <2>1. ~(k > 9) /\ ~(j >= n)
        BY <1>1, <1>4
  <2>2. ByteChar(word, n, j, k) = Digit(word, BitAt(j, k))
        BY <2>1, <1>4, Zenon DEF ByteChar
  <2> QED BY <2>2, <1>2, <1>4, Zenon
<1>5. CASE k > 9
  <2>1. k # 5 /\ ~(k <= 9)
        BY <1>1, <1>5
  <2>2. ByteChar(word, n, j, k) = " "
        BY <1>1, <1>5, ByteChars, Zenon
  <2> QED BY <2>1, <2>2, <1>2, <1>3, Zenon
<1>6. CASE j >= n
  <2>1. ~(j < n)
        BY <1>1, <1>6
  <2>2. ByteChar(word, n, j, k) = " "
        BY <1>1, <1>6, ByteChars, Zenon
  <2> QED BY <2>1, <2>2, <1>2, <1>3, Zenon
<1>7. CASE k = 5 /\ j < n
  <2>1. ByteChar(word, n, j, k) = "-"
        BY <1>1, <1>7, ByteChars, Zenon
  <2> QED BY <2>1, <1>2, <1>3, <1>7, Zenon
<1>8. (k <= 9 /\ k # 5 /\ j < n) \/ k > 9 \/ j >= n \/ (k = 5 /\ j < n)
      BY <1>1
<1> QED BY <1>4, <1>5, <1>6, <1>7, <1>8, Zenon

\* A line as it is drawn, in closed form.
LEMMA LineDrawn ==
  ASSUME NEW line \in Lines, NEW word, NEW n \in Nat
  PROVE  /\ Len(Line(line, word, n)) = 42
         /\ \A q \in 1..42 :
              Line(line, word, n)[q] =
                IF IsDrawn(line, n, q)
                THEN IF BitOf(line, q) \in word THEN "1" ELSE Zero
                ELSE Blank(line, n, q)
<1> DEFINE drawn == IF integer_mode THEN Split(BinText(word, n), line) ELSE Unused
           l == Line(line, word, n)
           c(q) == IF IsDrawn(line, n, q) THEN Digit(word, BitOf(line, q)) ELSE Blank(line, n, q)
<1>1. drawn \in Seq(Chars) /\ Len(drawn) = 42 /\ \A q \in 1..42 : drawn[q] = c(q)
  <2>1. CASE integer_mode
    <3>1. drawn = Split(BinText(word, n), line)
          BY <2>1
    <3>2. ASSUME NEW q \in 1..42 PROVE CharIn(line, word, n, q) = c(q)
          BY <2>1, CharsIn, Zenon
    <3> HIDE DEF drawn, c
    <3>3. /\ drawn \in Seq(Chars) /\ Len(drawn) = 42
          /\ \A q \in 1..42 : drawn[q] = CharIn(line, word, n, q)
          BY <3>1, SplitLine, ZenonT(60)
    <3> QED BY <3>2, <3>3
  <2>2. CASE ~integer_mode
    <3>1. drawn = [k \in 1..42 |-> " "]
          BY <2>2 DEF Unused, CHARS_PER_LINE
    <3>2. ASSUME NEW q \in 1..42 PROVE c(q) = " "
          BY <2>2 DEF IsDrawn, Blank
    <3> HIDE DEF drawn, c
    <3>3. drawn \in [1..42 -> Chars] /\ 42 \in Nat /\ \A q \in 1..42 : drawn[q] = " "
          BY <3>1 DEF Chars
    <3>4. drawn \in Seq(Chars) /\ Len(drawn) = 42
          BY <3>3, IsText, ZenonT(120)
    <3> QED BY <3>2, <3>3, <3>4, ZenonT(60)
  <2> QED BY <2>1, <2>2
<1>2. l = IF replace_zero THEN WithO(drawn) ELSE drawn
      BY DEF Line
<1> HIDE DEF drawn, l
<1>3. drawn \in [1..42 -> Chars] /\ DOMAIN drawn = 1..42
      BY <1>1, LenProperties
<1>4. /\ Len(l) = 42
      /\ \A q \in 1..42 : l[q] = IF replace_zero /\ drawn[q] = "0" THEN "O" ELSE drawn[q]
  <2>1. CASE replace_zero
    <3>1. l = [k \in 1..42 |-> IF drawn[k] = "0" THEN "O" ELSE drawn[k]]
          BY <1>2, <1>3, <2>1 DEF WithO
    <3>2. [k \in 1..42 |-> IF drawn[k] = "0" THEN "O" ELSE drawn[k]]
            \in [1..42 -> Chars \cup {"O"}]
          BY <1>3
    <3>3. Len(l) = 42
          BY <3>1, <3>2, IsText, 42 \in Nat
    <3> QED BY <3>1, <3>3, <2>1
  <2>2. CASE ~replace_zero
        BY <1>1, <1>2, <2>2
  <2> QED BY <2>1, <2>2
<1>5. ASSUME NEW q \in 1..42
      PROVE  l[q] = IF IsDrawn(line, n, q)
                    THEN IF BitOf(line, q) \in word THEN "1" ELSE Zero
                    ELSE Blank(line, n, q)
  <2>1. drawn[q] = c(q)
        BY <1>1
  <2>2. l[q] = IF replace_zero /\ drawn[q] = "0" THEN "O" ELSE drawn[q]
        BY <1>4
  <2>3. CASE IsDrawn(line, n, q) /\ BitOf(line, q) \in word
    <3>1. drawn[q] = "1"
          BY <2>1, <2>3 DEF Digit
    <3> QED BY <2>2, <2>3, <3>1
  <2>4. CASE IsDrawn(line, n, q) /\ BitOf(line, q) \notin word
    <3>1. drawn[q] = "0"
          BY <2>1, <2>4 DEF Digit
    <3> QED BY <2>2, <2>4, <3>1 DEF Zero
  <2>5. CASE ~IsDrawn(line, n, q)
    <3>1. drawn[q] = Blank(line, n, q)
          BY <2>1, <2>5
    <3>2. Blank(line, n, q) # "0"
          BY DEF Blank
    <3> QED BY <2>2, <2>5, <3>1, <3>2
  <2> QED BY <2>3, <2>4, <2>5
<1> QED BY <1>4, <1>5 DEF l

\* DrawnLines at each line.
LEMMA BothLines ==
  ASSUME NEW word, NEW n
  PROVE  /\ DOMAIN DrawnLines(word, n) = Lines
         /\ \A line \in Lines : DrawnLines(word, n)[line] = Line(line, word, n)
BY DEF DrawnLines, Lines

\* The two lines of a word, and those of another, differ in the digit of bit b only.
DifferAt(word, new, n, b) ==
  \A line \in Lines, q \in 1..42 :
    Line(line, new, n)[q] # Line(line, word, n)[q] <=> line = LineOf(b) /\ q = SpotOf(b)

\* Inverting a bit of the word changes its digit and nothing else.
LEMMA OneDigitChanges ==
  ASSUME NEW word, NEW n \in Nat, NEW b \in 0..63, b < 8 * n, integer_mode
  PROVE  DifferAt(word, SymDiff(word, {b}), n, b)
<1> DEFINE new == SymDiff(word, {b})
<1> SUFFICES ASSUME NEW line \in Lines, NEW q \in 1..42
             PROVE  Line(line, new, n)[q] # Line(line, word, n)[q] <=>
                       line = LineOf(b) /\ q = SpotOf(b)
    BY DEF DifferAt
<1>1. n \in Nat /\ b \in 0..63 /\ b < 8 * n
      OBVIOUS
<1>2. \A a : (a \in new <=> a \in word) <=> a # b
      BY DEF SymDiff
<1> DEFINE a == BitOf(line, q)
<1>3. Zero # "1"
      BY DEF Zero
<1>4. Line(line, new, n)[q] # Line(line, word, n)[q] <=> IsDrawn(line, n, q) /\ a = b
  <2>1. CASE IsDrawn(line, n, q)
    <3>1. /\ Line(line, new, n)[q] = IF a \in new THEN "1" ELSE Zero
          /\ Line(line, word, n)[q] = IF a \in word THEN "1" ELSE Zero
          BY <1>1, <2>1, LineDrawn
    <3> HIDE DEF a
    <3>2. CASE a = b
      <4>1. a \in new <=> a \notin word
            BY <3>2, <1>2, Zenon
      <4>2. CASE a \in word
            BY <3>1, <3>2, <4>1, <4>2, <1>3, <2>1, Zenon
      <4>3. CASE a \notin word
            BY <3>1, <3>2, <4>1, <4>3, <1>3, <2>1, Zenon
      <4> QED BY <4>2, <4>3
    <3>3. CASE a # b
      <4>1. a \in new <=> a \in word
            BY <3>3, <1>2, Zenon
      <4> QED BY <3>1, <3>3, <4>1, Zenon
    <3> QED BY <3>2, <3>3
  <2>2. CASE ~IsDrawn(line, n, q)
    <3>1. /\ Line(line, new, n)[q] = Blank(line, n, q)
          /\ Line(line, word, n)[q] = Blank(line, n, q)
          BY <1>1, <2>2, LineDrawn
    <3> QED BY <3>1, <2>2, Zenon
  <2> QED BY <2>1, <2>2
<1>5. ASSUME IsDrawn(line, n, q), a = b PROVE line = LineOf(b) /\ q = SpotOf(b)
  <2>1. HasBit(q)
        BY <1>5 DEF IsDrawn
  <2> QED BY <2>1, <1>5, SpotOfBit
<1>6. ASSUME line = LineOf(b), q = SpotOf(b) PROVE IsDrawn(line, n, q) /\ a = b
  <2>1. HasBit(q) /\ a = b
        BY <1>1, <1>6, BitOfSpot
  <2>2. b < 8 * n
        BY <1>1
  <2>3. BitOf(line, q) < 8 * n <=> ByteOf(line, q) < n
        BY <2>1, <1>1, SpotOfBit
  <2> QED BY <2>1, <2>2, <2>3 DEF IsDrawn
<1> HIDE DEF a
<1> QED BY <1>4, <1>5, <1>6, Zenon

\* Two drawings that differ in the digit of bit b.
LEMMA OnePlaceChanged ==
  ASSUME NEW word, NEW new, NEW n, NEW b \in 0..63, DifferAt(word, new, n, b)
  PROVE  Changed(DrawnLines(word, n), DrawnLines(new, n)) = {<<LineOf(b), SpotOf(b)>>}
<1> DEFINE before == DrawnLines(word, n)
           after  == DrawnLines(new, n)
           at     == LineOf(b)
           spot   == SpotOf(b)
<1> at \in Lines /\ spot \in 1..42
    BY BitOfSpot
<1>0. /\ DOMAIN before = Lines
      /\ \A line \in Lines : \A q \in 1..42 :
           after[line][q] # before[line][q] <=> line = at /\ q = spot
      BY BothLines DEF DifferAt
<1> HIDE DEF before, after, at, spot
<1>1. \A p \in Lines \X (1..42) :
         after[p[1]][p[2]] # before[p[1]][p[2]] <=> p = <<at, spot>>
  <2>1. ASSUME NEW p \in Lines \X (1..42)
        PROVE  after[p[1]][p[2]] # before[p[1]][p[2]] <=> p = <<at, spot>>
    <3>1. p[1] \in Lines /\ p[2] \in 1..42 /\ p = <<p[1], p[2]>>
          OBVIOUS
    <3>2. p = <<at, spot>> <=> p[1] = at /\ p[2] = spot
          BY <3>1
    <3> QED BY <1>0, <3>1, <3>2, Zenon
  <2> QED BY <2>1
<1>2. <<at, spot>> \in Lines \X (1..42)
      OBVIOUS
<1>3. Changed(before, after) = {p \in Lines \X (1..42) : after[p[1]][p[2]] # before[p[1]][p[2]]}
      BY <1>0 DEF Changed, CHARS_PER_LINE
<1>4. \A p : p \in Changed(before, after) <=> p = <<at, spot>>
      BY <1>1, <1>2, <1>3, Zenon
<1>5. Changed(before, after) = {<<at, spot>>}
      BY <1>4, Zenon
<1> QED BY <1>5 DEF before, after, at, spot

\* A drawing does not differ from itself.
LEMMA NothingChanges ==
  ASSUME NEW lines
  PROVE  Changed(lines, lines) = {}
BY DEF Changed

-----------------------------------------------------------------------------
(* The bit under the mouse                                                  *)

\* What division is.
LEMMA Quotient ==
  ASSUME NEW f \in Nat \ {0}, NEW y \in Int, NEW c \in Int
  PROVE  c * f <= y /\ y <= c * f + f - 1 <=> y \div f = c
<1> DEFINE d == y \div f
           r == y % f
<1>1. d \in Int /\ r \in Int /\ 0 <= r /\ r <= f - 1 /\ y = f * d + r
      OBVIOUS
<1> HIDE DEF d, r
<1>2. ASSUME d = c PROVE c * f <= y /\ y <= c * f + f - 1
  <2>1. f * d = c * f
        BY <1>2
  <2>2. c * f \in Int
        OBVIOUS
  <2> QED BY <2>1, <2>2, <1>1
<1>3. ASSUME c * f <= y, y <= c * f + f - 1 PROVE d = c
  <2>1. CASE d < c
    <3>1. PICK e \in Nat : c = d + 1 + e
      <4>1. c - d - 1 \in Nat /\ c = d + 1 + (c - d - 1)
            BY <2>1, <1>1
      <4> QED BY <4>1
    <3>2. c * f = f * d + f + e * f
          BY <3>1, <1>1
    <3>3. e * f \in Nat /\ f * d \in Int
          BY <1>1
    <3>4. FALSE
          BY <3>2, <3>3, <1>1, <1>3
    <3> QED BY <3>4
  <2>2. CASE d > c
    <3>1. PICK e \in Nat : d = c + 1 + e
      <4>1. d - c - 1 \in Nat /\ d = c + 1 + (d - c - 1)
            BY <2>2, <1>1
      <4> QED BY <4>1
    <3>2. f * d = c * f + f + e * f
          BY <3>1, <1>1
    <3>3. e * f \in Nat /\ c * f \in Int
          BY <1>1
    <3>4. FALSE
          BY <3>2, <3>3, <1>1, <1>3
    <3> QED BY <3>4
  <2> QED BY <2>1, <2>2, <1>1
<1> QED BY <1>2, <1>3 DEF d

\* The character before which a bit of a byte is drawn.
Before(i, b) == 41 - 11 * i - (IF b < 4 THEN b ELSE b + 1)

\* get_bit_clicked looks for a bit where the character is that it is drawn as.
LEMMA BitUnder ==
  ASSUME NEW x \in Pixels, NEW i \in 0..3, NEW b \in 0..7
  PROVE  /\ ByteLeft(i) <= x /\ x <= ByteRight(i)
         /\ BitRight(i, b) - FontWidth + 1 <= x /\ x <= BitRight(i, b)
         <=> CharacterAt(x) = Before(i, b) + 1
<1> DEFINE f == FontWidth
           y == x - Margin
           c == Before(i, b)
           left == 33 - 11 * i
<1>0. f \in Nat \ {0} /\ Margin \in Nat /\ x \in Nat /\ y \in Int
      BY WidgetAssumption DEF Pixels
<1>1. c \in Nat /\ left \in Nat /\ left <= c /\ c <= left + 8
  <2>1. CASE b < 4
        BY <2>1 DEF Before
  <2>2. CASE ~(b < 4)
        BY <2>2 DEF Before
  <2> QED BY <2>1, <2>2
<1>2. ByteLeft(i) = Margin + left * f /\ ByteRight(i) = Margin + left * f + 9 * f - 1
  <2>1. ByteLeft(i) = (42 * f + Margin) - (9 * (i + 1) + 2 * i) * f
    <3>1. WidgetWidth = 42 * f + Margin
          BY DEF WidgetWidth, CHARS_PER_LINE
    <3>2. ByteLeft(i) = WidgetWidth - (9 * (i + 1) + 2 * i) * f
          BY DEF ByteLeft
    <3> QED BY <3>1, <3>2
  <2>2. 42 * f - (9 * (i + 1) + 2 * i) * f = left * f
        BY <1>0
  <2>3. left * f \in Int /\ (9 * (i + 1) + 2 * i) * f \in Int
        BY <1>0, <1>1
  <2>4. ByteRight(i) = ByteLeft(i) + 9 * f - 1
        BY DEF ByteRight
  <2> HIDE DEF f, left
  <2>5. ByteLeft(i) = Margin + left * f
        BY <2>1, <2>2, <2>3, <1>0
  <2> QED BY <2>3, <2>4, <2>5, <1>0
<1>3. BitRight(i, b) = Margin + c * f + f - 1
  <2> DEFINE m == IF b < 4 THEN b ELSE b + 1
  <2>1. m \in Nat /\ c = left + 8 - m
        BY DEF Before
  <2>2. BitRight(i, b) = ByteRight(i) - m * f
        BY DEF BitRight
  <2> HIDE DEF m, c, left, f
  <2>3. c * f = left * f + 8 * f - m * f
        BY <2>1, <1>0, <1>1
  <2>4. c * f \in Int /\ left * f \in Int /\ m * f \in Int
        BY <2>1, <1>0, <1>1
  <2> QED BY <2>2, <2>3, <2>4, <1>0, <1>2
<1>4. c * f \in Nat /\ left * f \in Nat /\ left * f <= c * f /\ c * f <= left * f + 8 * f
  <2> HIDE DEF c, left, f
  <2>1. PICK e \in 0..8 : c = left + e
    <3>1. c - left \in 0..8 /\ c = left + (c - left)
          BY <1>1
    <3> QED BY <3>1
  <2>2. c * f = left * f + e * f
        BY <2>1, <1>0, <1>1
  <2>3. e * f \in Nat /\ left * f \in Nat /\ c * f \in Nat
        BY <1>0, <1>1
  <2>4. e * f <= 8 * f
    <3>1. PICK g \in Nat : 8 = e + g
      <4>1. 8 - e \in Nat /\ 8 = e + (8 - e)
            OBVIOUS
      <4> QED BY <4>1
    <3>2. 8 * f = e * f + g * f /\ g * f \in Nat
          BY <3>1, <1>0
    <3> QED BY <3>2, <2>3, <1>0
  <2> QED BY <2>2, <2>3, <2>4, <1>0
<1>5. c * f <= y /\ y <= c * f + f - 1 <=> y \div f = c
  <2> HIDE DEF c, f, y
  <2> QED BY <1>0, <1>1, Quotient
<1>6. CharacterAt(x) = IF x < Margin THEN 0 ELSE y \div f + 1
      BY DEF CharacterAt
<1>7. CASE x < Margin
  <2>1. y < 0
        BY <1>0, <1>7
  <2> HIDE DEF c, left, f, y
  <2>2. CharacterAt(x) = 0 /\ c + 1 # 0
        BY <1>1, <1>6, <1>7
  <2>3. ~(ByteLeft(i) <= x)
        BY <1>0, <1>2, <1>4, <1>7
  <2> QED BY <2>2, <2>3 DEF c
<1>8. CASE ~(x < Margin)
  <2>1. x = Margin + y
        BY <1>0
  <2> HIDE DEF left, f, y
  <2>2. y \div f \in Int
        BY <1>0
  <2>3. CharacterAt(x) = c + 1 <=> y \div f = c
    <3> HIDE DEF c
    <3> QED BY <2>2, <1>1, <1>6, <1>8
  <2> HIDE DEF c
  <2>4. /\ ByteLeft(i) <= x /\ x <= ByteRight(i)
        /\ BitRight(i, b) - f + 1 <= x /\ x <= BitRight(i, b)
        <=> c * f <= y /\ y <= c * f + f - 1
        BY <2>1, <1>0, <1>2, <1>3, <1>4
  <2> QED BY <2>3, <2>4, <1>5 DEF c, f
<1> QED BY <1>7, <1>8

\* The characters of the lower line before a bit, as get_bit_clicked counts them.
LEMMA SpotBefore ==
  ASSUME NEW i \in 0..3, NEW b \in 0..7
  PROVE  /\ Before(i, b) + 1 = SpotOf(8 * i + b)
         /\ 8 * i + b \in 0..63 /\ LineOf(8 * i + b) = "bot"
<1> DEFINE a == 8 * i + b
<1>1. a \in 0..31 /\ (a \div 8) % 4 = i /\ a % 8 = b
      OBVIOUS
<1>2. LineOf(a) = "bot"
      BY <1>1 DEF LineOf
<1> HIDE DEF a
<1>3. Before(i, b) + 1 = SpotOf(a)
  <2>1. CASE b < 4
        BY <1>1, <2>1 DEF Before, SpotOf
  <2>2. CASE ~(b < 4)
        BY <1>1, <2>2 DEF Before, SpotOf
  <2> QED BY <2>1, <2>2
<1>4. a \in 0..63
      BY <1>1
<1> QED BY <1>2, <1>3, <1>4 DEF a

\* A pixel is over one of 42 characters or in the margin.
LEMMA CharacterIs ==
  ASSUME NEW x \in Pixels
  PROVE  CharacterAt(x) \in 0..42
<1> DEFINE f == FontWidth
           y == x - Margin
           d == y \div f
<1>1. f \in Nat \ {0} /\ Margin \in Nat /\ x \in Nat /\ x <= 42 * f + Margin - 1
      BY WidgetAssumption DEF Pixels, CHARS_PER_LINE
<1>2. CharacterAt(x) = IF x < Margin THEN 0 ELSE d + 1
      BY DEF CharacterAt
<1>3. CASE x < Margin
      BY <1>2, <1>3
<1>4. CASE ~(x < Margin)
  <2> DEFINE r == y % f
  <2>1. y \in Nat /\ y <= 42 * f - 1
        BY <1>1, <1>4
  <2> HIDE DEF y, f
  <2>2. d \in Nat /\ r \in Nat /\ y = f * d + r
        BY <1>1, <2>1
  <2> HIDE DEF d, r
  <2>3. d <= 41
    <3> SUFFICES ASSUME d > 41 PROVE FALSE
        BY <2>2
    <3>1. PICK e \in Nat : d = 42 + e
      <4>1. d - 42 \in Nat /\ d = 42 + (d - 42)
            BY <2>2
      <4> QED BY <4>1
    <3>2. f * d = 42 * f + f * e /\ f * e \in Nat
          BY <3>1, <1>1
    <3> QED BY <3>2, <1>1, <2>1, <2>2
  <2> QED BY <1>2, <1>4, <2>2, <2>3
<1> QED BY <1>3, <1>4

\* There is a bit under the mouse, and which.
OnBit(x) == CharacterAt(x) # 0 /\ HasBit(CharacterAt(x))

\* get_bit_clicked finds the bit whose digit is drawn at the pixel.
LEMMA BitsUnder ==
  ASSUME NEW x \in Pixels
  PROVE  /\ OnBit(x) => BitsAt(x) = {BitOf("bot", CharacterAt(x))}
         /\ ~OnBit(x) => BitsAt(x) = {}
         /\ BitsAt(x) \subseteq Int
<1> DEFINE k == CharacterAt(x)
           Under(p) == /\ ByteLeft(p[1]) <= x /\ x <= ByteRight(p[1])
                       /\ BitRight(p[1], p[2]) - FontWidth + 1 <= x /\ x <= BitRight(p[1], p[2])
           Pairs == {p \in (0..3) \X (0..7) : Under(p)}
<1>1. k \in 0..42
      BY CharacterIs
<1>2. BitsAt(x) = {8 * q[1] + q[2] : q \in Pairs}
      BY DEF BitsAt
<1>3. ASSUME NEW p \in (0..3) \X (0..7)
      PROVE  /\ p[1] \in 0..3 /\ p[2] \in 0..7
             /\ Under(p) <=> k = SpotOf(8 * p[1] + p[2])
  <2>1. p[1] \in 0..3 /\ p[2] \in 0..7
        OBVIOUS
  <2>2. Under(p) <=> CharacterAt(x) = Before(p[1], p[2]) + 1
        BY <2>1, BitUnder, Zenon
  <2>3. Before(p[1], p[2]) + 1 = SpotOf(8 * p[1] + p[2])
        BY <2>1, SpotBefore, Zenon
  <2> QED BY <2>1, <2>2, <2>3, Zenon
<1> HIDE DEF Under
<1>4. BitsAt(x) \subseteq Int
  <2>1. ASSUME NEW q \in Pairs PROVE 8 * q[1] + q[2] \in Int
        BY <1>3
  <2> QED BY <1>2, <2>1
<1>5. ASSUME NEW a \in BitsAt(x)
      PROVE  OnBit(x) /\ a = BitOf("bot", k)
  <2>1. PICK q \in Pairs : a = 8 * q[1] + q[2]
        BY <1>2
  <2>2. q \in (0..3) \X (0..7) /\ Under(q)
        OBVIOUS
  <2>3. q[1] \in 0..3 /\ q[2] \in 0..7 /\ k = SpotOf(a)
        BY <1>3, <2>1, <2>2
  <2>4. a \in 0..63 /\ LineOf(a) = "bot"
        BY <2>1, <2>3, SpotBefore
  <2>5. k \in 1..42 /\ HasBit(k) /\ BitOf("bot", k) = a
        BY <2>3, <2>4, BitOfSpot
  <2>6. k # 0
        BY <2>5
  <2> QED BY <2>5, <2>6 DEF OnBit
<1>6. ASSUME OnBit(x) PROVE BitOf("bot", k) \in BitsAt(x)
  <2> DEFINE a == BitOf("bot", k)
             j == ByteOf("bot", k)
  <2>1. k \in 1..42 /\ HasBit(k) /\ "bot" \in Lines
        BY <1>1, <1>6 DEF OnBit, Lines
  <2>2. a \in 0..63 /\ SpotOf(a) = k /\ LineOf(a) = "bot"
        BY <2>1, SpotOfBit
  <2>3. a < 32
        BY <2>2 DEF LineOf
  <2> HIDE DEF a
  <2>4. a \div 8 \in 0..3 /\ a % 8 \in 0..7 /\ a = 8 * (a \div 8) + (a % 8)
        BY <2>2, <2>3
  <2> DEFINE p == <<a \div 8, a % 8>>
  <2>5. p \in (0..3) \X (0..7) /\ 8 * p[1] + p[2] = a
        BY <2>4
  <2> HIDE DEF p
  <2>6. p \in Pairs
        BY <2>2, <2>5, <1>3
  <2>7. a \in BitsAt(x)
        BY <1>2, <2>5, <2>6
  <2> QED BY <2>7 DEF a
<1> QED BY <1>4, <1>5, <1>6, Zenon

\* The same for the value it returns.
LEMMA ClickedAt ==
  ASSUME NEW x \in Pixels
  PROVE  get_bit_clicked(x) = IF OnBit(x) THEN BitOf("bot", CharacterAt(x)) ELSE -1
<1> DEFINE m == WidgetWidth
           e(y) == IF BitsAt(y) = {} THEN -1 ELSE CHOOSE b \in BitsAt(y) : TRUE
           s == [i \in 1..m |-> e(i - 1)]
<1>1. m \in Nat /\ Pixels = 0..m - 1
      BY WidgetAssumption DEF WidgetWidth, Pixels, CHARS_PER_LINE
<1>2. BitClicked = s \o <<>>
      BY DEF BitClicked
<1> HIDE DEF m
<1>3. ASSUME NEW i \in 1..m PROVE e(i - 1) \in Int
  <2>1. i - 1 \in Pixels
        BY <1>1
  <2>2. BitsAt(i - 1) \subseteq Int
        BY <2>1, BitsUnder
  <2>3. CASE BitsAt(i - 1) = {}
        BY <2>3
  <2>4. CASE BitsAt(i - 1) # {}
        BY <2>2, <2>4
  <2> QED BY <2>3, <2>4
<1>4. s \in Seq(Int)
  <2> HIDE DEF e
  <2>1. s \in [1..m -> Int]
        BY <1>3
  <2> HIDE DEF s
  <2> QED BY <2>1, <1>1, IsText
<1>5. get_bit_clicked(x) = s[x + 1]
  <2> HIDE DEF s
  <2>1. BitClicked = s
        BY <1>2, <1>4, ConcatEmptySeq
  <2> QED BY <2>1 DEF get_bit_clicked
<1>6. x + 1 \in 1..m /\ (x + 1) - 1 = x
      BY <1>1
<1>7. s[x + 1] = e(x)
  <2> HIDE DEF e
  <2> QED BY <1>6
<1>8. e(x) = IF BitsAt(x) = {} THEN -1 ELSE CHOOSE b \in BitsAt(x) : TRUE
      OBVIOUS
<1> HIDE DEF e, s
<1>9. CASE OnBit(x)
  <2>1. BitsAt(x) = {BitOf("bot", CharacterAt(x))}
        BY <1>9, BitsUnder
  <2> QED BY <2>1, <1>5, <1>7, <1>8, <1>9
<1>10. CASE ~OnBit(x)
  <2>1. BitsAt(x) = {}
        BY <1>10, BitsUnder
  <2> QED BY <2>1, <1>5, <1>7, <1>8, <1>10
<1> QED BY <1>9, <1>10

\* The digit above shows the bit 32 places further.
LEMMA BitOnBottom ==
  ASSUME NEW x \in Pixels, OnBit(x)
  PROVE  /\ CharacterAt(x) \in 1..42 /\ HasBit(CharacterAt(x))
         /\ BitOf("bot", CharacterAt(x)) \in 0..31
         /\ BitOf("top", CharacterAt(x)) = BitOf("bot", CharacterAt(x)) + 32
<1> DEFINE k == CharacterAt(x)
           b == BitOf("bot", k)
           j == ByteOf("bot", k)
<1>1. k \in 1..42 /\ HasBit(k) /\ "bot" \in Lines
      BY CharacterIs DEF OnBit, Lines
<1>2. b \in 0..63 /\ LineOf(b) = "bot"
      BY <1>1, SpotOfBit
<1>3. b \in 0..31
  <2> HIDE DEF b
  <2> QED BY <1>2 DEF LineOf
<1>4. ByteOf("top", k) = j + 4 /\ j \in Int /\ Place(k) \in Int
      BY <1>1 DEF ByteOf, Place
<1>5. BitAt(j + 4, Place(k)) = BitAt(j, Place(k)) + 32
  <2> HIDE DEF j
  <2> QED BY <1>4 DEF BitAt
<1>6. BitOf("top", k) = b + 32
      BY <1>4, <1>5, Zenon DEF BitOf
<1> QED BY <1>1, <1>3, <1>6

-----------------------------------------------------------------------------
(* The steps                                                                *)

\* The inductive invariant: no bit beyond the width is 1.
BitTypes ==
  /\ bytes \in {1, 2, 4, 8}
  /\ integer_mode \in BOOLEAN
  /\ value \subseteq 0..8 * bytes - 1

\* It holds at first.
LEMMA BitTypesInit == BitInit => BitTypes
BY DEF BitInit, BitTypes

\* What a press does to the word.
LEMMA TopPressed ==
  ASSUME BitTypes, NEW x \in Pixels, button_press_top(x)
  PROVE  /\ UNCHANGED <<bytes, integer_mode>>
         /\ \/ value' = value /\ (~top_pressed => ~(integer_mode /\ bytes = 8 /\ OnBit(x)))
            \/ /\ ~top_pressed /\ integer_mode /\ bytes = 8 /\ OnBit(x)
               /\ value' = SymDiff(value, {BitOf("bot", CharacterAt(x)) + 32})
<1> DEFINE c == get_bit_clicked(x)
<1>0. c = IF OnBit(x) THEN BitOf("bot", CharacterAt(x)) ELSE -1
      BY ClickedAt
<1>1. OnBit(x) => c \in 0..63
  <2> SUFFICES ASSUME OnBit(x) PROVE c \in 0..63
      OBVIOUS
  <2>1. CharacterAt(x) \in 1..42 /\ "bot" \in Lines /\ HasBit(CharacterAt(x))
        BY CharacterIs DEF OnBit, Lines
  <2> QED BY <2>1, <1>0, SpotOfBit
<1>2. c >= 0 <=> OnBit(x)
  <2> HIDE DEF c
  <2>1. CASE OnBit(x)
        BY <1>1, <2>1
  <2>2. CASE ~OnBit(x)
        BY <1>0, <2>2
  <2> QED BY <2>1, <2>2
<1>3. CASE integer_mode /\ bytes = 8 /\ ~top_pressed
  <2>1. IF c >= 0 THEN Toggle(c + 32) ELSE UNCHANGED value
        BY <1>3 DEF button_press_top
  <2> HIDE DEF c
  <2>2. CASE OnBit(x)
    <3>1. value' = SymDiff(value, {c + 32})
          BY <1>2, <2>1, <2>2 DEF Toggle
    <3> QED BY <3>1, <1>0, <1>3, <2>2 DEF button_press_top
  <2>3. CASE ~OnBit(x)
        BY <1>2, <1>3, <2>1, <2>3 DEF button_press_top
  <2> QED BY <2>2, <2>3
<1>4. CASE ~(integer_mode /\ bytes = 8 /\ ~top_pressed)
      BY <1>4 DEF button_press_top
<1> QED BY <1>3, <1>4

\* The same for the lower line.
LEMMA BotPressed ==
  ASSUME BitTypes, NEW x \in Pixels, button_press_bot(x)
  PROVE  LET b == BitOf("bot", CharacterAt(x))
         IN  /\ UNCHANGED <<bytes, integer_mode>>
             /\ \/ value' = value /\ (~bot_pressed => ~(integer_mode /\ OnBit(x) /\ b < 8 * bytes))
                \/ /\ ~bot_pressed /\ integer_mode /\ OnBit(x) /\ b < 8 * bytes
                   /\ value' = SymDiff(value, {b})
<1> DEFINE c == get_bit_clicked(x)
           b == BitOf("bot", CharacterAt(x))
<1>0. c = IF OnBit(x) THEN b ELSE -1
      BY ClickedAt
<1>1. OnBit(x) => c \in 0..63
  <2> SUFFICES ASSUME OnBit(x) PROVE c \in 0..63
      OBVIOUS
  <2>1. CharacterAt(x) \in 1..42 /\ "bot" \in Lines /\ HasBit(CharacterAt(x))
        BY CharacterIs DEF OnBit, Lines
  <2> QED BY <2>1, <1>0, SpotOfBit
<1>2. c >= 0 <=> OnBit(x)
  <2> HIDE DEF c
  <2>1. CASE OnBit(x)
        BY <1>1, <2>1
  <2>2. CASE ~OnBit(x)
        BY <1>0, <2>2
  <2> QED BY <2>1, <2>2
<1>3. CASE integer_mode /\ ~bot_pressed
  <2>1. IF c >= 0 /\ c < 8 * bytes THEN Toggle(c) ELSE UNCHANGED value
        BY <1>3 DEF button_press_bot, InWidth
  <2> HIDE DEF c, b
  <2>2. CASE OnBit(x) /\ b < 8 * bytes
    <3>1. value' = SymDiff(value, {b})
          BY <1>0, <1>2, <2>1, <2>2 DEF Toggle
    <3> QED BY <3>1, <1>3, <2>2 DEF button_press_bot, b
  <2>3. CASE ~(OnBit(x) /\ b < 8 * bytes)
    <3>1. ~(c >= 0 /\ c < 8 * bytes)
          BY <1>0, <1>2, <2>3
    <3> QED BY <3>1, <1>3, <2>1, <2>3 DEF button_press_bot, b
  <2> QED BY <2>2, <2>3
<1>4. CASE ~(integer_mode /\ ~bot_pressed)
      BY <1>4 DEF button_press_bot
<1> QED BY <1>3, <1>4

\* Every step keeps it.
LEMMA BitTypesStep ==
  ASSUME BitTypes, [BitNext]_bitVars
  PROVE  BitTypes'
<1>1. ASSUME NEW a \in 0..8 * bytes - 1
      PROVE  SymDiff(value, {a}) \subseteq 0..8 * bytes - 1
      BY DEF BitTypes, SymDiff
<1>2. ASSUME NEW x \in Pixels, button_press_top(x) PROVE BitTypes'
  <2>1. UNCHANGED <<bytes, integer_mode>>
        BY <1>2, TopPressed
  <2>2. CASE value' = value
        BY <2>1, <2>2 DEF BitTypes
  <2>3. CASE OnBit(x) /\ bytes = 8 /\ value' = SymDiff(value, {BitOf("bot", CharacterAt(x)) + 32})
    <3>1. BitOf("bot", CharacterAt(x)) \in 0..31
          BY <2>3, BitOnBottom
    <3>2. BitOf("bot", CharacterAt(x)) + 32 \in 0..8 * bytes - 1
          BY <2>3, <3>1
    <3>3. value' \subseteq 0..8 * bytes - 1
          BY <2>3, <3>2, <1>1
    <3> QED BY <2>1, <3>3 DEF BitTypes
  <2> QED BY <1>2, <2>2, <2>3, TopPressed
<1>3. ASSUME NEW x \in Pixels, button_press_bot(x) PROVE BitTypes'
  <2> DEFINE b == BitOf("bot", CharacterAt(x))
  <2>1. UNCHANGED <<bytes, integer_mode>>
        BY <1>3, BotPressed
  <2>2. CASE value' = value
        BY <2>1, <2>2 DEF BitTypes
  <2>3. CASE OnBit(x) /\ b < 8 * bytes /\ value' = SymDiff(value, {b})
    <3>1. b \in 0..31
          BY <2>3, BitOnBottom
    <3> HIDE DEF b
    <3>2. b \in 0..8 * bytes - 1
          BY <2>3, <3>1 DEF BitTypes
    <3>3. value' \subseteq 0..8 * bytes - 1
          BY <2>3, <3>2, <1>1
    <3> QED BY <2>1, <3>3 DEF BitTypes
  <2> QED BY <1>3, <2>2, <2>3, BotPressed
<1>4. CASE button_release_top \/ button_release_bot
      BY <1>4 DEF button_release_top, button_release_bot, BitTypes
<1>5. ASSUME NEW n \in {1, 2, 4, 8}, SetWidth(n) PROVE BitTypes'
  <2>1. bytes' = n /\ integer_mode' = integer_mode /\ value' = {b \in value : b < 8 * n}
        BY <1>5 DEF SetWidth
  <2>2. \A b \in value : b \in Nat
        BY DEF BitTypes
  <2>3. \A b \in value' : b \in 0..8 * n - 1
        BY <2>1, <2>2
  <2> QED BY <2>1, <2>3 DEF BitTypes
<1>6. CASE SetMode
      BY <1>6 DEF SetMode, BitTypes
<1>7. CASE UNCHANGED bitVars
      BY <1>7 DEF bitVars, BitTypes
<1> QED BY <1>2, <1>3, <1>4, <1>5, <1>6, <1>7 DEF BitNext

\* The word is drawn as a whole, wherever its bits are.
LEMMA AllDrawn ==
  ASSUME BitTypes
  PROVE  WholeWordDrawn
<1> DEFINE drawn == DrawnLines(value, bytes)
           ones  == {p \in (DOMAIN drawn) \X (1..CHARS_PER_LINE) : drawn[p[1]][p[2]] = "1"}
<1>1. bytes \in Nat /\ value \subseteq 0..8 * bytes - 1 /\ value \subseteq 0..63
      BY DEF BitTypes
<1>2. DOMAIN drawn = Lines /\ \A line \in Lines : drawn[line] = Line(line, value, bytes)
      BY BothLines
<1>3. \A line \in DOMAIN drawn : Len(drawn[line]) = CHARS_PER_LINE
      BY <1>1, <1>2, LineDrawn DEF CHARS_PER_LINE
<1>4. ASSUME integer_mode
      PROVE  Cardinality(ones) = Cardinality(value)
  <2> DEFINE f == [b \in value |-> <<LineOf(b), SpotOf(b)>>]
  <2>1. ones = {p \in Lines \X (1..42) : Line(p[1], value, bytes)[p[2]] = "1"}
    <3>1. \A p \in Lines \X (1..42) : p[1] \in Lines
          OBVIOUS
    <3> HIDE DEF drawn
    <3> QED BY <3>1, <1>2 DEF CHARS_PER_LINE
  <2>2. ASSUME NEW line \in Lines, NEW q \in 1..42
        PROVE  Line(line, value, bytes)[q] = "1" <=>
                 HasBit(q) /\ BitOf(line, q) \in value
    <3>1. CASE IsDrawn(line, bytes, q)
      <4>1. Line(line, value, bytes)[q] = IF BitOf(line, q) \in value THEN "1" ELSE Zero
            BY <1>1, <3>1, LineDrawn
      <4>2. Zero # "1"
            BY DEF Zero
      <4>3. HasBit(q)
            BY <3>1 DEF IsDrawn
      <4> QED BY <4>1, <4>2, <4>3, Zenon
    <3>2. CASE ~IsDrawn(line, bytes, q)
      <4>1. Line(line, value, bytes)[q] = Blank(line, bytes, q)
            BY <1>1, <3>2, LineDrawn
      <4>2. Blank(line, bytes, q) # "1"
            BY DEF Blank
      <4>3. ASSUME HasBit(q), BitOf(line, q) \in value PROVE FALSE
        <5>1. ~(ByteOf(line, q) < bytes)
              BY <1>4, <3>2, <4>3 DEF IsDrawn
        <5>2. BitOf(line, q) \in 0..8 * bytes - 1
              BY <1>1, <4>3
        <5>3. BitOf(line, q) < 8 * bytes
              BY <5>2, <1>1
        <5> QED BY <5>1, <5>3, <4>3, <1>1, SpotOfBit
      <4> QED BY <4>1, <4>2, <4>3, Zenon
    <3> QED BY <3>1, <3>2
  <2>3. ASSUME NEW b \in value PROVE f[b] \in ones
    <3>1. /\ LineOf(b) \in Lines /\ SpotOf(b) \in 1..42 /\ HasBit(SpotOf(b))
          /\ BitOf(LineOf(b), SpotOf(b)) = b
          BY <1>1, BitOfSpot
    <3>2. Line(LineOf(b), value, bytes)[SpotOf(b)] = "1"
          BY <3>1, <2>2
    <3> DEFINE p == <<LineOf(b), SpotOf(b)>>
    <3>3. p \in Lines \X (1..42) /\ p[1] = LineOf(b) /\ p[2] = SpotOf(b)
          BY <3>1
    <3>4. f[b] = p
          OBVIOUS
    <3> HIDE DEF p, ones
    <3> QED BY <2>1, <3>2, <3>3, <3>4
  <2>4. ASSUME NEW b \in value, NEW c \in value, f[b] = f[c] PROVE b = c
    <3>1. LineOf(b) = LineOf(c) /\ SpotOf(b) = SpotOf(c)
          BY <2>4
    <3>2. BitOf(LineOf(b), SpotOf(b)) = b /\ BitOf(LineOf(c), SpotOf(c)) = c
          BY <1>1, BitOfSpot
    <3> QED BY <3>1, <3>2, Zenon
  <2>5. ASSUME NEW p \in ones PROVE \E b \in value : f[b] = p
    <3>1. p \in Lines \X (1..42) /\ Line(p[1], value, bytes)[p[2]] = "1"
          BY <2>1
    <3>2. PICK line \in Lines, q \in 1..42 : p = <<line, q>>
          BY <3>1
    <3>3. HasBit(q) /\ BitOf(line, q) \in value
          BY <3>1, <3>2, <2>2
    <3>4. LineOf(BitOf(line, q)) = line /\ SpotOf(BitOf(line, q)) = q
          BY <3>3, SpotOfBit
    <3>5. f[BitOf(line, q)] = p
          BY <3>2, <3>3, <3>4
    <3> QED BY <3>3, <3>5
  <2> HIDE DEF ones
  <2>6. f \in [value -> ones]
        BY <2>3
  <2> HIDE DEF f
  <2>7. f \in Injection(value, ones)
        BY <2>4, <2>6 DEF Injection, IsInjective
  <2>8. f \in Surjection(value, ones)
        BY <2>5, <2>6 DEF Surjection
  <2>9. ExistsBijection(value, ones)
        BY <2>7, <2>8 DEF Bijection, ExistsBijection
  <2>10. IsFiniteSet(value)
    <3>1. IsFiniteSet(0..63)
          BY FS_Interval, 0 \in Int, 63 \in Int
    <3> QED BY <3>1, <1>1, FS_Subset
  <2> QED BY <2>9, <2>10, FS_Bijection
<1> QED BY <1>1, <1>3, <1>4, Zenon DEF WholeWordDrawn

\* The digit under the mouse is one that shows a bit.
LEMMA DigitUnder ==
  ASSUME NEW x \in Pixels, NEW word, NEW n \in Nat, NEW line \in Lines
  PROVE  LET k == CharacterAt(x)
         IN  DigitAt(DrawnLines(word, n), line, x) =
               IF OnBit(x) /\ IsDrawn(line, n, k) THEN {<<line, k>>} ELSE {}
<1> DEFINE k == CharacterAt(x)
           ch == DrawnLines(word, n)[line][k]
<1>1. DigitAt(DrawnLines(word, n), line, x) =
        IF k # 0 /\ ch \in {"0", "1", "O"} THEN {<<line, k>>} ELSE {}
      BY DEF DigitAt
<1>2. k \in 0..42
      BY CharacterIs
<1>3. k # 0 => (ch \in {"0", "1", "O"} <=> IsDrawn(line, n, k))
  <2> SUFFICES ASSUME k # 0 PROVE ch \in {"0", "1", "O"} <=> IsDrawn(line, n, k)
      OBVIOUS
  <2>1. k \in 1..42
        BY <1>2
  <2>2. ch = IF IsDrawn(line, n, k)
             THEN IF BitOf(line, k) \in word THEN "1" ELSE Zero ELSE Blank(line, n, k)
        BY <2>1, BothLines, LineDrawn
  <2>3. Zero \in {"0", "O"}
        BY DEF Zero
  <2>4. Blank(line, n, k) \notin {"0", "1", "O"}
        BY DEF Blank
  <2> HIDE DEF ch, k
  <2> QED BY <2>2, <2>3, <2>4
<1>4. IsDrawn(line, n, k) => HasBit(k)
      BY DEF IsDrawn
<1> HIDE DEF ch
<1> QED BY <1>1, <1>3, <1>4 DEF OnBit

\* A first press changes the digit under the mouse only.
LEMMA ClickStep ==
  ASSUME BitTypes, NEW x \in Pixels
  PROVE  LET changed == Changed(DrawnLines(value, bytes), DrawnLines(value', bytes'))
         IN  /\ ~top_pressed /\ button_press_top(x) =>
                  changed = DigitAt(DrawnLines(value, bytes), "top", x)
             /\ ~bot_pressed /\ button_press_bot(x) =>
                  changed = DigitAt(DrawnLines(value, bytes), "bot", x)
<1> DEFINE k == CharacterAt(x)
           old == DrawnLines(value, bytes)
           changed == Changed(old, DrawnLines(value', bytes'))
<1>1. bytes \in Nat /\ bytes \in 0..8 /\ "top" \in Lines /\ "bot" \in Lines
      BY DEF BitTypes, Lines
<1>2. /\ DigitAt(old, "top", x) =
           IF OnBit(x) /\ IsDrawn("top", bytes, k) THEN {<<"top", k>>} ELSE {}
      /\ DigitAt(old, "bot", x) =
           IF OnBit(x) /\ IsDrawn("bot", bytes, k) THEN {<<"bot", k>>} ELSE {}
      BY <1>1, DigitUnder
<1>3. ASSUME value' = value, bytes' = bytes PROVE changed = {}
      BY <1>3, NothingChanges, Zenon
<1>4. ASSUME NEW b \in 0..63, b < 8 * bytes, integer_mode, bytes' = bytes,
             value' = SymDiff(value, {b})
      PROVE  changed = {<<LineOf(b), SpotOf(b)>>}
  <2>1. b \in 0..63 /\ b < 8 * bytes /\ bytes \in Nat /\ integer_mode
        BY <1>1, <1>4
  <2>2. DifferAt(value, SymDiff(value, {b}), bytes, b)
        BY <2>1, OneDigitChanges
  <2>3. Changed(old, DrawnLines(SymDiff(value, {b}), bytes)) = {<<LineOf(b), SpotOf(b)>>}
        BY <2>2, OnePlaceChanged
  <2> QED BY <1>4, <2>3, Zenon
<1>5. ASSUME NEW line \in Lines, OnBit(x)
      PROVE  /\ IsDrawn(line, bytes, k) <=> integer_mode /\ BitOf(line, k) < 8 * bytes
             /\ LineOf(BitOf(line, k)) = line /\ SpotOf(BitOf(line, k)) = k
             /\ BitOf(line, k) \in 0..63
  <2>1. k \in 1..42 /\ HasBit(k)
        BY <1>5, BitOnBottom
  <2>2. BitOf(line, k) < 8 * bytes <=> ByteOf(line, k) < bytes
        BY <1>1, <1>5, <2>1, SpotOfBit
  <2>3. IsDrawn(line, bytes, k) <=> integer_mode /\ BitOf(line, k) < 8 * bytes
        BY <2>1, <2>2, Zenon DEF IsDrawn
  <2> QED BY <1>5, <2>1, <2>3, SpotOfBit
<1>6. ASSUME ~top_pressed, button_press_top(x)
      PROVE  changed = DigitAt(old, "top", x)
  <2>1. UNCHANGED <<bytes, integer_mode>>
        BY <1>6, TopPressed
  <2>2. CASE value' = value /\ ~(integer_mode /\ bytes = 8 /\ OnBit(x))
    <3>1. changed = {}
          BY <1>3, <2>1, <2>2
    <3>2. ~(OnBit(x) /\ IsDrawn("top", bytes, k))
      <4> SUFFICES ASSUME OnBit(x), IsDrawn("top", bytes, k) PROVE FALSE
          OBVIOUS
      <4>1. integer_mode /\ BitOf("top", k) < 8 * bytes
            BY <1>1, <1>5
      <4>2. BitOf("top", k) = BitOf("bot", k) + 32 /\ BitOf("bot", k) \in 0..31
            BY BitOnBottom
      <4>3. bytes > 4
            BY <1>1, <4>1, <4>2
      <4>4. bytes = 8
            BY <4>3 DEF BitTypes
      <4> QED BY <2>2, <4>1, <4>4
    <3> HIDE DEF changed
    <3> QED BY <3>1, <3>2, <1>2, Zenon
  <2>3. CASE /\ integer_mode /\ bytes = 8 /\ OnBit(x)
             /\ value' = SymDiff(value, {BitOf("bot", k) + 32})
    <3> DEFINE b == BitOf("top", k)
    <3>1. b = BitOf("bot", k) + 32 /\ BitOf("bot", k) \in 0..31
          BY <2>3, BitOnBottom
    <3>2. b \in 0..63 /\ b < 8 * bytes
          BY <2>3, <3>1
    <3>3. changed = {<<LineOf(b), SpotOf(b)>>}
          BY <1>4, <2>1, <2>3, <3>1, <3>2
    <3>4. LineOf(b) = "top" /\ SpotOf(b) = k /\ IsDrawn("top", bytes, k)
          BY <1>1, <1>5, <2>3, <3>2
    <3> HIDE DEF changed, b
    <3> QED BY <3>3, <3>4, <1>2, <2>3, Zenon
  <2> QED BY <1>6, <2>2, <2>3, TopPressed
<1>7. ASSUME ~bot_pressed, button_press_bot(x)
      PROVE  changed = DigitAt(old, "bot", x)
  <2> DEFINE b == BitOf("bot", k)
  <2>1. UNCHANGED <<bytes, integer_mode>>
        BY <1>7, BotPressed
  <2>2. CASE value' = value /\ ~(integer_mode /\ OnBit(x) /\ b < 8 * bytes)
    <3>1. changed = {}
          BY <1>3, <2>1, <2>2
    <3>2. ~(OnBit(x) /\ IsDrawn("bot", bytes, k))
          BY <1>1, <1>5, <2>2
    <3> HIDE DEF changed
    <3> QED BY <3>1, <3>2, <1>2, Zenon
  <2>3. CASE integer_mode /\ OnBit(x) /\ b < 8 * bytes /\ value' = SymDiff(value, {b})
    <3>1. b \in 0..31
          BY <2>3, BitOnBottom
    <3>2. b \in 0..63 /\ b < 8 * bytes
      <4> HIDE DEF b
      <4> QED BY <2>3, <3>1
    <3>3. changed = {<<LineOf(b), SpotOf(b)>>}
          BY <1>4, <2>1, <2>3, <3>2
    <3>4. LineOf(b) = "bot" /\ SpotOf(b) = k /\ IsDrawn("bot", bytes, k)
          BY <1>1, <1>5, <2>3
    <3> HIDE DEF changed, b
    <3> QED BY <3>3, <3>4, <1>2, <2>3, Zenon
  <2> QED BY <1>7, <2>2, <2>3, BotPressed
<1> QED BY <1>6, <1>7

\* A held button, or one over the other line, leaves the bits of a line alone.
LEMMA HeldStep ==
  ASSUME BitTypes, [BitNext]_bitVars, bytes' = bytes, integer_mode' = integer_mode
  PROVE  /\ top_pressed => value' \cap 32..63 = value \cap 32..63
         /\ bot_pressed => value' \cap 0..31 = value \cap 0..31
<1>1. ASSUME NEW x \in Pixels, button_press_top(x)
      PROVE  /\ top_pressed => value' = value
             /\ value' \cap 0..31 = value \cap 0..31
  <2>1. CASE value' = value
        BY <2>1
  <2>2. CASE /\ ~top_pressed /\ OnBit(x)
             /\ value' = SymDiff(value, {BitOf("bot", CharacterAt(x)) + 32})
    <3>1. BitOf("bot", CharacterAt(x)) + 32 \notin 0..31
          BY <2>2, BitOnBottom
    <3> QED BY <2>2, <3>1 DEF SymDiff
  <2> QED BY <1>1, <2>1, <2>2, TopPressed
<1>2. ASSUME NEW x \in Pixels, button_press_bot(x)
      PROVE  /\ bot_pressed => value' = value
             /\ value' \cap 32..63 = value \cap 32..63
  <2>1. CASE value' = value
        BY <2>1
  <2>2. CASE /\ ~bot_pressed /\ OnBit(x)
             /\ value' = SymDiff(value, {BitOf("bot", CharacterAt(x))})
    <3>1. BitOf("bot", CharacterAt(x)) \notin 32..63
          BY <2>2, BitOnBottom
    <3> QED BY <2>2, <3>1 DEF SymDiff
  <2> QED BY <1>2, <2>1, <2>2, BotPressed
<1>3. CASE button_release_top \/ button_release_bot
      BY <1>3 DEF button_release_top, button_release_bot
<1>4. ASSUME NEW n \in {1, 2, 4, 8}, SetWidth(n) PROVE value' = value
  <2>1. value' = {b \in value : b < 8 * bytes}
        BY <1>4 DEF SetWidth
  <2>2. \A b \in value : b < 8 * bytes
        BY DEF BitTypes
  <2> QED BY <2>1, <2>2
<1>5. ~SetMode
      BY DEF SetMode, BitTypes
<1>6. CASE UNCHANGED bitVars
      BY <1>6 DEF bitVars
<1> QED BY <1>1, <1>2, <1>3, <1>4, <1>5, <1>6 DEF BitNext

\* set_bin_display draws every bit of the word at every width, get_bit_clicked finds under
\* the mouse the bit that is drawn there, whatever the font and the margin, and one press
\* inverts one bit (display_widget.c:65, 198, 240, 436).
THEOREM ClicksHonest == BitSpec => ClicksAreHonest
<1> DEFINE Inverts ==
      bitVars' # bitVars =>
        \A old \in {DrawnLines(value, bytes)}, new \in {DrawnLines(value', bytes')} :
          \A changed \in {Changed(old, new)}, x \in Pixels :
            /\ ~top_pressed /\ button_press_top(x) => changed = DigitAt(old, "top", x)
            /\ ~bot_pressed /\ button_press_bot(x) => changed = DigitAt(old, "bot", x)
    Once ==
      bytes' = bytes /\ integer_mode' = integer_mode =>
        /\ top_pressed => value' \cap 32..63 = value \cap 32..63
        /\ bot_pressed => value' \cap 0..31 = value \cap 0..31
<1>1. BitInit => BitTypes
      BY BitTypesInit
<1>2. BitTypes /\ [BitNext]_bitVars => BitTypes'
      BY BitTypesStep
<1>3. BitTypes => WholeWordDrawn
      BY AllDrawn
<1>4. BitTypes => Inverts
      BY ClickStep, Zenon
<1>5. BitTypes /\ [BitNext]_bitVars => Once
      BY HeldStep
<1>6. BitTypes /\ [][BitNext]_bitVars => []BitTypes
      BY <1>2, PTL
<1> HIDE DEF Inverts, Once
<1>7. []BitTypes => [][Inverts]_bitVars
      BY <1>4, PTL
<1>8. []BitTypes /\ [][BitNext]_bitVars => [][Once]_bitVars
      BY <1>5, PTL
<1>9. [][Inverts]_bitVars => ClickInvertsDigit
      BY PTL DEF ClickInvertsDigit, Inverts
<1>10. [][Once]_bitVars => OncePerPress
      BY PTL DEF OncePerPress, Once
<1>11. []BitTypes => []WholeWordDrawn
      BY <1>3, PTL
<1> QED BY <1>1, <1>6, <1>7, <1>8, <1>9, <1>10, <1>11, PTL DEF BitSpec, ClicksAreHonest

-----------------------------------------------------------------------------
(* The history                                                              *)

\* RowsAreTheCopy is what makes a click honest; NoGaps what makes the entries in
\* use a sequence; both need the types.
Inv == TypeOK /\ NoGaps /\ RowsAreTheCopy

USE ItemsAssumption

-----------------------------------------------------------------------------
(* Recording a value, for either mode                                       *)

\* One more entry is in use, up to the size of the array.
LEMMA ShuffledInUse ==
  ASSUME NEW inUse, NEW n \in 0..HISTORY_MAX_ITEMS, FilledTo(inUse, n),
         NEW more, more = {i \in Row : i = 0 \/ i - 1 \in inUse}
  PROVE  FilledTo(more, IF n < HISTORY_MAX_ITEMS THEN n + 1 ELSE n)
BY DEF FilledTo, Row

\* FilledTo names one number only.
LEMMA FilledIs ==
  ASSUME NEW inUse, NEW n \in 0..HISTORY_MAX_ITEMS, FilledTo(inUse, n)
  PROVE  Filled(inUse) = n
<1>1. /\ Filled(inUse) \in 0..HISTORY_MAX_ITEMS
      /\ FilledTo(inUse, Filled(inUse))
      BY DEF Filled
<1>2. ASSUME NEW m \in 0..HISTORY_MAX_ITEMS, FilledTo(inUse, m) PROVE m = n
      BY <1>2 DEF FilledTo, Row
<1> QED BY <1>1, <1>2

\* The first n entries of an array, as a sequence.
Firsts(h, n) == [i \in 1..n |-> h[i - 1]]

\* The sequence of the entries in use, after one more is recorded.
LEMMA RecordedSeq ==
  ASSUME NEW S, NEW h \in [Row -> S], NEW v \in S, NEW n \in 0..HISTORY_MAX_ITEMS,
         NEW k, k = IF n < HISTORY_MAX_ITEMS THEN n + 1 ELSE n
  PROVE  Firsts(Shuffled(h, v), k) =
           SubSeq(<<v>> \o Firsts(h, n), 1, INT!AtMost(Len(Firsts(h, n)) + 1, HISTORY_MAX_ITEMS))
<1> DEFINE r == Firsts(h, n)
           t == <<v>> \o r
<1> USE DEF Firsts
<1>1. r \in Seq(S) /\ Len(r) = n
      BY DEF Row
<1>2. t \in Seq(S) /\ Len(t) = n + 1
      BY <1>1
<1>3. t[1] = v /\ \A i \in 2..n + 1 : t[i] = h[i - 2]
  <2>1. \A i \in 2..n + 1 : t[i] = r[i - 1]
        BY <1>1
  <2> QED BY <1>1, <2>1
<1>4. k = INT!AtMost(Len(r) + 1, HISTORY_MAX_ITEMS)
      BY <1>1 DEF INT!AtMost
<1>5. k \in 1..n + 1 /\ k <= HISTORY_MAX_ITEMS
      OBVIOUS
<1>6. \A i \in 1..k : Shuffled(h, v)[i - 1] = t[i]
      BY <1>3, <1>5 DEF Shuffled, Row
<1> HIDE DEF t
<1>7. SubSeq(t, 1, k) = [i \in 1..k |-> t[i]]
  <2>1. SubSeq(t, 1, k) \in Seq(S) /\ Len(SubSeq(t, 1, k)) = k
        BY <1>2, <1>5, SubSeqProperties
  <2>2. \A i \in 1..k : SubSeq(t, 1, k)[i] = t[i]
        BY <1>2, <1>5, SubSeqProperties
  <2>3. [i \in 1..k |-> t[i]] \in Seq(S) /\ Len([i \in 1..k |-> t[i]]) = k
        BY <1>2, <1>5
  <2> QED BY <2>1, <2>2, <2>3, SeqEqual
<1> QED BY <1>4, <1>6, <1>7 DEF t
-----------------------------------------------------------------------------
(* The invariant                                                            *)

\* Both histories start empty.
LEMMA InitInv == Init => Inv
<1> SUFFICES ASSUME Init PROVE Inv
    OBVIOUS
<1>1. TypeOK
      BY WordsAssumption DEF Init, TypeOK, Empty, IntEntry
<1>2. FilledTo(IntInUse, 0) /\ FilledTo(FloatInUse, 0)
      BY DEF Init, FilledTo, IntInUse, FloatInUse, Row, Empty
<1>3. RowsAreTheCopy
      BY DEF Init, RowsAreTheCopy
<1> QED BY <1>1, <1>2, <1>3 DEF Inv, NoGaps

\* Recording a masked word keeps the array well formed, and lists the number
\* the word stands for.
LEMMA IntRecorded ==
  ASSUME Inv, NEW x \in IVal,
         history_ival' = WithInt(history_ival, MaskWidth(x, integer_width)),
         result_int' = Number(MaskWidth(x, integer_width))
  PROVE  /\ history_ival' \in [Row -> IntEntry]
         /\ \E n \in 0..HISTORY_MAX_ITEMS : FilledTo(IntInUse', n)
         /\ INT!Next
<1> DEFINE m == MaskWidth(x, integer_width)
           e == NewEntry(m)
<1>0. x \in IVal /\ integer_width \in Width /\ use_unsigned \in BOOLEAN
      BY DEF Inv, TypeOK
<1>1. m \in IVal /\ e \in IntEntry /\ (m # IZero => e.ival # IZero)
      BY WordsAssumption DEF NewEntry, IntEntry, Inv, TypeOK
<1>2. Shown(e) = NumberOf(m, integer_width, use_unsigned)
  <2>1. integer_width \in Width /\ use_unsigned \in BOOLEAN
        BY DEF Inv, TypeOK
  <2>2. CASE use_unsigned
        BY <2>1, <2>2, WordsAssumption DEF Shown, NewEntry
  <2>3. CASE ~use_unsigned
        BY <2>1, <2>3, WordsAssumption DEF Shown, NewEntry
  <2> QED BY <2>2, <2>3
<1>3. PICK n \in 0..HISTORY_MAX_ITEMS : FilledTo(IntInUse, n)
      BY DEF Inv, NoGaps
<1>4. history_ival \in [Row -> IntEntry]
      BY DEF Inv, TypeOK
<1>5. CASE m = IZero
  <2>1. history_ival' = history_ival
        BY <1>5 DEF WithInt
  <2>2. IntInUse' = IntInUse /\ RecentInt' = RecentInt
        BY <2>1 DEF IntInUse, RecentInt, Filled, FilledTo
  <2>3. result_int' = U64(IZero)
        BY <1>5, <1>0, WordsAssumption DEF Number
  <2>4. U64(IZero) \in IntNumbers
    <3>1. NumberOf(MaskWidth(x, integer_width), integer_width, use_unsigned) \in IntNumbers
          BY <1>0 DEF IntNumbers
    <3>2. NumberOf(MaskWidth(x, integer_width), integer_width, use_unsigned) = U64(IZero)
          BY <2>3 DEF Number
    <3> QED BY <3>1, <3>2
  <2>5. INT!Record(U64(IZero))
        BY <2>2, <2>3 DEF INT!Record
  <2> QED BY <1>3, <1>4, <2>1, <2>2, <2>4, <2>5 DEF INT!Next
<1>6. CASE m # IZero
  <2> DEFINE k == IF n < HISTORY_MAX_ITEMS THEN n + 1 ELSE n
  <2>1. history_ival' = Shuffled(history_ival, e)
        BY <1>6 DEF WithInt
  <2>2. history_ival' \in [Row -> IntEntry]
        BY <1>1, <1>4, <2>1 DEF Shuffled, Row
  <2>3. IntInUse' = {i \in Row : i = 0 \/ i - 1 \in IntInUse}
        BY <1>1, <1>6, <2>1 DEF IntInUse, Shuffled, Row
  <2>5. k \in 0..HISTORY_MAX_ITEMS /\ FilledTo(IntInUse', k)
    <3>1. FilledTo(IntInUse', k)
          BY <1>3, <2>3, ShuffledInUse
    <3> QED BY <3>1
  <2>6. Filled(IntInUse) = n /\ Filled(IntInUse') = k
        BY <1>3, <2>5, FilledIs
  <2>7. Filled(IntInUse)' = k
        BY <2>6 DEF Filled, FilledTo
  <2> DEFINE S == {Shown(d) : d \in IntEntry}
             h == [i \in Row |-> Shown(history_ival[i])]
             v == Shown(e)
  <2>8. h \in [Row -> S] /\ v \in S
        BY <1>1, <1>4
  <2>9. RecentInt = Firsts(h, n)
        BY <2>6 DEF RecentInt, Row, Firsts
  <2>10. RecentInt' = Firsts(Shuffled(h, v), k)
        BY <2>1, <2>7 DEF RecentInt, Shuffled, Row, Shown, Firsts
  <2>11. INT!Record(v)
    <3> HIDE DEF h, v, S
    <3>1. Firsts(Shuffled(h, v), k) =
            SubSeq(<<v>> \o RecentInt, 1, INT!AtMost(Len(RecentInt) + 1, HISTORY_MAX_ITEMS))
          BY <2>8, <2>9, RecordedSeq, ZenonT(60)
    <3>2. result_int' = v
          BY <1>2 DEF Number, v
    <3>3. v # U64(IZero)
          BY <1>0, <1>2, <1>6, WordsAssumption DEF v
    <3> QED BY <2>10, <3>1, <3>2, <3>3 DEF INT!Record
  <2>12. v \in IntNumbers
        BY <1>2 DEF IntNumbers, Inv, TypeOK
  <2> QED BY <2>2, <2>5, <2>11, <2>12 DEF INT!Next
<1> QED BY <1>5, <1>6

\* Recording a floating point result.
LEMMA FloatRecorded ==
  ASSUME Inv, NEW x \in FVal, history_fval' = WithFloat(history_fval, x), result_float' = x
  PROVE  /\ history_fval' \in [Row -> FVal]
         /\ \E n \in 0..HISTORY_MAX_ITEMS : FilledTo(FloatInUse', n)
         /\ FLOAT!Next
<1>3. PICK n \in 0..HISTORY_MAX_ITEMS : FilledTo(FloatInUse, n)
      BY DEF Inv, NoGaps
<1>4. history_fval \in [Row -> FVal]
      BY DEF Inv, TypeOK
<1>5. CASE x = FZero
  <2>1. history_fval' = history_fval
        BY <1>5 DEF WithFloat
  <2>2. FloatInUse' = FloatInUse /\ RecentFloat' = RecentFloat
        BY <2>1 DEF FloatInUse, RecentFloat, Filled, FilledTo
  <2>3. FLOAT!Record(x)
        BY <1>5, <2>2 DEF FLOAT!Record
  <2> QED BY <1>3, <1>4, <2>1, <2>2, <2>3 DEF FLOAT!Next
<1>6. CASE x # FZero
  <2> DEFINE k == IF n < HISTORY_MAX_ITEMS THEN n + 1 ELSE n
  <2>1. history_fval' = Shuffled(history_fval, x)
        BY <1>6 DEF WithFloat
  <2>2. history_fval' \in [Row -> FVal]
        BY <1>4, <2>1 DEF Shuffled, Row
  <2>3. FloatInUse' = {i \in Row : i = 0 \/ i - 1 \in FloatInUse}
        BY <1>6, <2>1 DEF FloatInUse, Shuffled, Row
  <2>5. k \in 0..HISTORY_MAX_ITEMS /\ FilledTo(FloatInUse', k)
    <3>1. FilledTo(FloatInUse', k)
          BY <1>3, <2>3, ShuffledInUse
    <3> QED BY <3>1
  <2>6. Filled(FloatInUse) = n /\ Filled(FloatInUse') = k
        BY <1>3, <2>5, FilledIs
  <2>7. Filled(FloatInUse)' = k
        BY <2>6 DEF Filled, FilledTo
  <2>8. RecentFloat = Firsts(history_fval, n)
        BY <2>6 DEF RecentFloat, Firsts
  <2>9. RecentFloat' = Firsts(Shuffled(history_fval, x), k)
        BY <2>1, <2>7 DEF RecentFloat, Firsts
  <2>10. FLOAT!Record(x)
    <3>1. Firsts(Shuffled(history_fval, x), k) =
            SubSeq(<<x>> \o RecentFloat, 1, INT!AtMost(Len(RecentFloat) + 1, HISTORY_MAX_ITEMS))
          BY <1>4, <2>8, RecordedSeq, ZenonT(60)
    <3> QED BY <1>6, <2>9, <3>1 DEF FLOAT!Record, INT!AtMost, FLOAT!AtMost
  <2> QED BY <1>6, <2>2, <2>5, <2>10 DEF FLOAT!Next
<1> QED BY <1>5, <1>6

\* What is not recorded stays as it is.
LEMMA IntUnchanged ==
  ASSUME history_ival' = history_ival PROVE IntInUse' = IntInUse /\ RecentInt' = RecentInt
BY DEF IntInUse, RecentInt, Filled, FilledTo

\* The other history is untouched.
LEMMA FloatUnchanged ==
  ASSUME history_fval' = history_fval PROVE FloatInUse' = FloatInUse /\ RecentFloat' = RecentFloat
BY DEF FloatInUse, RecentFloat, Filled, FilledTo

\* The invariant is kept and both histories record or stutter, in every step.
LEMMA StepInv ==
  ASSUME Inv, [Next]_vars
  PROVE  Inv' /\ [INT!Next]_<<result_int, RecentInt>> /\ [FLOAT!Next]_<<result_float, RecentFloat>>
<1> USE DEF calcVars, intVars, floatVars
<1>0. /\ \E n \in 0..HISTORY_MAX_ITEMS : FilledTo(IntInUse, n)
      /\ \E n \in 0..HISTORY_MAX_ITEMS : FilledTo(FloatInUse, n)
      BY DEF Inv, NoGaps
<1>1. CASE Result
  <2>1. CASE calc_mode = "integer" /\ \E v \in IVal : gui_history_add(MaskWidth(v, integer_width), FZero)
    <3>1. PICK v \in IVal : gui_history_add(MaskWidth(v, integer_width), FZero)
          BY <2>1
    <3>2. /\ history_ival' = WithInt(history_ival, MaskWidth(v, integer_width))
          /\ result_int' = Number(MaskWidth(v, integer_width))
          /\ history_fval' = history_fval /\ result_float' = result_float
          BY <2>1, <3>1 DEF gui_history_add
    <3>3. TypeOK'
          BY <3>1, <3>2, IntRecorded DEF gui_history_add, Inv, TypeOK
    <3>4. RowsAreTheCopy'
          BY <3>1 DEF gui_history_add, Inv, RowsAreTheCopy, Shown
    <3> QED BY <1>0, <3>2, <3>3, <3>4, IntRecorded, FloatUnchanged DEF Inv, NoGaps
  <2>2. CASE calc_mode = "float" /\ \E v \in FVal : gui_history_add(IZero, v)
    <3>1. PICK v \in FVal : gui_history_add(IZero, v)
          BY <2>2
    <3>2. /\ history_fval' = WithFloat(history_fval, v) /\ result_float' = v
          /\ history_ival' = history_ival /\ result_int' = result_int
          BY <2>2, <3>1 DEF gui_history_add
    <3>3. TypeOK'
          BY <3>1, <3>2, FloatRecorded DEF gui_history_add, Inv, TypeOK
    <3>4. RowsAreTheCopy'
          BY <3>1 DEF gui_history_add, Inv, RowsAreTheCopy, Shown
    <3> QED BY <1>0, <3>2, <3>3, <3>4, FloatRecorded, IntUnchanged DEF Inv, NoGaps
  <2> QED BY <1>1, <2>1, <2>2 DEF Result
<1>2. CASE history_open_int
  <2>1. TypeOK'
        BY <1>2 DEF history_open_int, Inv, TypeOK
  <2>2. RowsAreTheCopy'
        BY <1>2 DEF history_open_int, Inv, TypeOK, RowsAreTheCopy, Shown
  <2> QED BY <1>0, <1>2, <2>1, <2>2, IntUnchanged, FloatUnchanged DEF history_open_int, Inv, NoGaps
<1>3. CASE history_open_float
  <2>1. TypeOK' /\ RowsAreTheCopy'
        BY <1>3 DEF history_open_float, Inv, TypeOK, RowsAreTheCopy
  <2> QED BY <1>0, <1>3, <2>1, IntUnchanged, FloatUnchanged DEF history_open_float, Inv, NoGaps
<1>4. CASE CloseInt \/ CloseFloat
  <2>1. ASSUME CloseInt PROVE TypeOK' /\ RowsAreTheCopy'
    <3>1. TypeOK'
          BY <2>1 DEF CloseInt, Inv, TypeOK
    <3>2. RowsAreTheCopy'
          BY <2>1 DEF CloseInt, Inv, RowsAreTheCopy, Shown
    <3> QED BY <3>1, <3>2
  <2>2. ASSUME CloseFloat PROVE TypeOK' /\ RowsAreTheCopy'
    <3>1. TypeOK'
          BY <2>2 DEF CloseFloat, Inv, TypeOK
    <3>2. RowsAreTheCopy'
          BY <2>2 DEF CloseFloat, Inv, RowsAreTheCopy, Shown
    <3> QED BY <3>1, <3>2
  <2>3. TypeOK' /\ RowsAreTheCopy'
        BY <1>4, <2>1, <2>2
  <2> QED BY <1>0, <1>4, <2>3, IntUnchanged, FloatUnchanged DEF CloseInt, CloseFloat, Inv, NoGaps
<1>5. ASSUME NEW row \in Row, SelectInt(row)
      PROVE  Inv' /\ [INT!Next]_<<result_int, RecentInt>> /\ [FLOAT!Next]_<<result_float, RecentFloat>>
  <2> DEFINE x == history_ival_copy[row].ival
  <2>1. x \in IVal
        BY DEF Inv, TypeOK, IntEntry
  <2>2. /\ history_ival' = WithInt(history_ival, MaskWidth(x, integer_width))
        /\ result_int' = Number(MaskWidth(x, integer_width))
        /\ history_fval' = history_fval /\ result_float' = result_float
        BY <1>5 DEF SelectInt
  <2>3. TypeOK' /\ RowsAreTheCopy'
        BY <1>5, <2>1, <2>2, IntRecorded DEF SelectInt, Inv, TypeOK, RowsAreTheCopy
  <2> QED BY <1>0, <2>1, <2>2, <2>3, IntRecorded, FloatUnchanged DEF Inv, NoGaps
<1>6. ASSUME NEW row \in Row, SelectFloat(row)
      PROVE  Inv' /\ [INT!Next]_<<result_int, RecentInt>> /\ [FLOAT!Next]_<<result_float, RecentFloat>>
  <2> DEFINE x == history_fval_copy[row]
  <2>1. x \in FVal
        BY DEF Inv, TypeOK
  <2>2. /\ history_fval' = WithFloat(history_fval, x) /\ result_float' = x
        /\ history_ival' = history_ival /\ result_int' = result_int
        BY <1>6 DEF SelectFloat
  <2>3. TypeOK' /\ RowsAreTheCopy'
        BY <1>6, <2>1, <2>2, FloatRecorded DEF SelectFloat, Inv, TypeOK, RowsAreTheCopy
  <2> QED BY <1>0, <2>1, <2>2, <2>3, FloatRecorded, IntUnchanged DEF Inv, NoGaps
<1>7. CASE ChangeSettings
  <2>1. TypeOK' /\ RowsAreTheCopy'
        BY <1>7 DEF ChangeSettings, Inv, TypeOK, RowsAreTheCopy
  <2> QED BY <1>0, <1>7, <2>1, IntUnchanged, FloatUnchanged DEF ChangeSettings, Inv, NoGaps
<1>8. CASE UNCHANGED vars
  <2>1. TypeOK' /\ RowsAreTheCopy'
        BY <1>8 DEF vars, Inv, TypeOK, RowsAreTheCopy
  <2> QED BY <1>0, <1>8, <2>1, IntUnchanged, FloatUnchanged DEF vars, Inv, NoGaps
<1> QED BY <1>1, <1>2, <1>3, <1>4, <1>5, <1>6, <1>7, <1>8 DEF Next, gui_history_open
-----------------------------------------------------------------------------
(* The theorems                                                             *)

\* Every variable of gui_history.c keeps its type, and the entries in use stay
\* at the front of the arrays.
THEOREM Invariant == Spec => []Inv
<1>1. Inv /\ [Next]_vars => Inv'
      BY StepInv
<1> QED BY InitInv, <1>1, PTL DEF Spec

\* The arrays, copies and rows are always well formed.
THEOREM TypeCorrect == Spec => []TypeOK
<1>1. Inv => TypeOK
      BY DEF Inv
<1> QED BY Invariant, <1>1, PTL

\* A window never lists an unused entry before a used one (history_add_int).
THEOREM Gapless == Spec => []NoGaps
<1>1. Inv => NoGaps
      BY DEF Inv
<1> QED BY Invariant, <1>1, PTL

\* A click on a row gives the number printed in it whatever was recorded, and
\* whichever settings changed, since the window was opened (gui_click_val_msg).
THEOREM HonestRows == Spec => RowGivesWhatItShows
<1> DEFINE Honest == \A row \in Row :
             /\ SelectInt(row) =>
                  LET n == rows_int[row]
                  IN  (\E v \in IVal : Number(MaskWidth(v, integer_width)) = n) => result_int' = n
             /\ SelectFloat(row) => result_float' = rows_float[row]
<1>1. Inv /\ [Next]_vars => [Honest]_vars
  <2> SUFFICES ASSUME Inv PROVE Honest
      OBVIOUS
  <2>1. ASSUME NEW row \in Row, SelectInt(row),
               \E v \in IVal : Number(MaskWidth(v, integer_width)) = rows_int[row]
        PROVE  result_int' = rows_int[row]
    <3> DEFINE x == history_ival_copy[row].ival
    <3>1. /\ x \in IVal
          /\ integer_width \in Width
          /\ use_unsigned \in BOOLEAN
          BY DEF Inv, TypeOK, IntEntry
    <3>2. result_int' = Number(MaskWidth(x, integer_width))
          BY <2>1 DEF SelectInt
    <3>3. rows_int[row] \in {U64(x), I64(x)}
          BY <2>1 DEF SelectInt, Inv, RowsAreTheCopy, Shown
    <3> QED BY <2>1, <3>1, <3>2, <3>3, RangeAssumption DEF Number
  <2>2. ASSUME NEW row \in Row, SelectFloat(row)
        PROVE  result_float' = rows_float[row]
        BY <2>2 DEF SelectFloat, Inv, RowsAreTheCopy
  <2> QED BY <2>1, <2>2
<1> QED BY Invariant, <1>1, PTL DEF Spec, RowGivesWhatItShows

\* The integer history implements the bounded, newest first list.
THEOREM IntHistoryImplements == Spec => ImplementsRecentInt
<1>1. Init => INT!Init
  <2>1. ASSUME Init PROVE FilledTo(IntInUse, 0)
        BY <2>1 DEF Init, FilledTo, IntInUse, Row, Empty
  <2>2. ASSUME Init PROVE Filled(IntInUse) = 0
        BY <2>1, <2>2, FilledIs
  <2>3. ASSUME Init PROVE RecentInt = <<>>
        BY <2>2, <2>3 DEF RecentInt
  <2>4. ASSUME Init PROVE result_int = U64(IZero)
        BY <2>4 DEF Init
  <2> QED BY <2>3, <2>4 DEF INT!Init
<1>2. Inv /\ [Next]_vars => [INT!Next]_<<result_int, RecentInt>>
      BY StepInv
<1> QED BY Invariant, <1>1, <1>2, PTL DEF Spec, ImplementsRecentInt, INT!Spec, INT!vars

\* The floating history implements the bounded, newest first list.
THEOREM FloatHistoryImplements == Spec => ImplementsRecentFloat
<1>1. Init => FLOAT!Init
  <2>1. ASSUME Init PROVE FilledTo(FloatInUse, 0)
        BY <2>1 DEF Init, FilledTo, FloatInUse, Row
  <2>2. ASSUME Init PROVE Filled(FloatInUse) = 0
        BY <2>1, <2>2, FilledIs
  <2>3. ASSUME Init PROVE RecentFloat = <<>>
        BY <2>2, <2>3 DEF RecentFloat
  <2>4. ASSUME Init PROVE result_float = FZero
        BY <2>4 DEF Init
  <2> QED BY <2>3, <2>4 DEF FLOAT!Init
<1>2. Inv /\ [Next]_vars => [FLOAT!Next]_<<result_float, RecentFloat>>
      BY StepInv
<1> QED BY Invariant, <1>1, <1>2, PTL DEF Spec, ImplementsRecentFloat, FLOAT!Spec, FLOAT!vars

\* The history of each mode is the bounded list of its recent results, newest first.
THEOREM HistoryImplements == Spec => ImplementsRecent
BY IntHistoryImplements, FloatHistoryImplements DEF ImplementsRecent

-----------------------------------------------------------------------------
(* The conversion window                                                    *)

CONSTANTS Values, ConstantValues, NoWindow

VARIABLES
  mode, top, typed, arg_pending, window_conversion, window_constants,
  convert_from_row, value_to_convert, active, entries, coloured

Units == INSTANCE Conversion

\* While the window is open, its rows are those of the number it opened on and of the
\* button that is down.
UnitsInv ==
  window_conversion # NoWindow =>
    /\ convert_from_row = active
    /\ coloured = {active}
    /\ entries = Units!AllValues(window_conversion, active, value_to_convert)

\* Every step keeps it.
LEMMA UnitsStep ==
  ASSUME UnitsInv, [Units!Next]_Units!vars
  PROVE  UnitsInv'
<1>1. ASSUME NEW x, Units!Type(x) \/ Units!Result(x) PROVE UnitsInv'
      BY <1>1 DEF UnitsInv, Units!Type, Units!Result, Units!windowVars
<1>2. CASE Units!SetMode
      BY <1>2 DEF UnitsInv, Units!SetMode, Units!windowVars
<1>3. ASSUME NEW category, Units!ucv_activate(category) PROVE UnitsInv'
      BY <1>3 DEF UnitsInv, Units!ucv_activate
<1>4. ASSUME NEW row, Units!rb_toggle(row) PROVE UnitsInv'
      BY <1>4 DEF UnitsInv, Units!rb_toggle
<1>5. ASSUME NEW row, Units!Select(row) PROVE UnitsInv'
      BY <1>5 DEF UnitsInv, Units!Select
<1>6. CASE Units!Cancel
      BY <1>6 DEF UnitsInv, Units!Cancel
<1>7. CASE Units!constants_activate \/ Units!CancelConstants
      BY <1>7 DEF UnitsInv, Units!constants_activate, Units!CancelConstants, Units!windowVars
<1>8. ASSUME NEW x, Units!SelectConstant(x) PROVE UnitsInv'
      BY <1>8 DEF UnitsInv, Units!SelectConstant, Units!windowVars
<1>9. CASE UNCHANGED Units!vars
      BY <1>9 DEF UnitsInv, Units!vars, Units!windowVars
<1> QED BY <1>1, <1>2, <1>3, <1>4, <1>5, <1>6, <1>7, <1>8, <1>9 DEF Units!Next

\* An open window is never behind its button: only the row of the button that is down is
\* in colour, and every row is converted from that one, from the number the window opened
\* on (gui_menu_conversion.c, rb_toggle).
THEOREM RowsAreCurrent == Units!Spec => []UnitsInv
<1>1. Units!Init => UnitsInv
      BY DEF Units!Init, UnitsInv
<1> QED BY <1>1, UnitsStep, PTL DEF Units!Spec

\* A row that is taken becomes the number shown, whatever was typed or calculated since the
\* window opened, and only in floating point mode (entry_enter_pressed).
THEOREM RowTaken == Units!Spec => Units!SelectGivesRow
<1> DEFINE Takes ==
      \A row \in DOMAIN entries :
        window_conversion # NoWindow /\ Units!Select(row)
          => Units!Shown' = entries[row] /\ ~arg_pending' /\ mode = "float"
<1>1. UnitsInv => Takes
  <2> SUFFICES ASSUME UnitsInv, NEW row \in DOMAIN entries, window_conversion # NoWindow,
                      Units!Select(row)
               PROVE  Units!Shown' = entries[row] /\ ~arg_pending' /\ mode = "float"
      OBVIOUS
  <2>1. /\ mode = "float" /\ arg_pending' = FALSE
        /\ top' = Units!calculate_value(window_conversion, convert_from_row, row, value_to_convert)
        BY DEF Units!Select, Units!GiveAndPeek
  <2>2. entries[row] = Units!calculate_value(window_conversion, active, row, value_to_convert)
        BY DEF UnitsInv, Units!AllValues
  <2>3. convert_from_row = active
        BY DEF UnitsInv
  <2> QED BY <2>1, <2>2, <2>3, Zenon DEF Units!Shown
<1> HIDE DEF Takes
<1>2. []UnitsInv => [][Takes]_Units!vars
      BY <1>1, PTL
<1>3. [][Takes]_Units!vars => Units!SelectGivesRow
      BY PTL DEF Units!SelectGivesRow, Takes
<1> QED BY <1>2, <1>3, RowsAreCurrent, PTL

\* The tables have so many rows.
LEMMA TableLengths ==
  /\ Len(Units!length_name_val) = 10
  /\ Len(Units!area_name_val) = 10
  /\ Len(Units!volume_name_val) = 12
  /\ Len(Units!mass_name_val) = 10
  /\ Len(Units!speed_name_val) = 5
  /\ Len(Units!pressure_name_val) = 5
  /\ Len(Units!force_name_val) = 3
  /\ Len(Units!energy_name_val) = 9
  /\ Len(Units!power_name_val) = 5
  /\ Len(Units!torque_name_val) = 3
<1>1. Len(Units!length_name_val) = 10
      BY DEF Units!length_name_val
<1>2. Len(Units!area_name_val) = 10
      BY DEF Units!area_name_val
<1>3. Len(Units!volume_name_val) = 12
      BY DEF Units!volume_name_val
<1>4. Len(Units!mass_name_val) = 10
      BY DEF Units!mass_name_val
<1>5. Len(Units!speed_name_val) = 5
      BY DEF Units!speed_name_val
<1>6. Len(Units!pressure_name_val) = 5
      BY DEF Units!pressure_name_val
<1>7. Len(Units!force_name_val) = 3
      BY DEF Units!force_name_val
<1>8. Len(Units!energy_name_val) = 9
      BY DEF Units!energy_name_val
<1>9. Len(Units!power_name_val) = 5
      BY DEF Units!power_name_val
<1>10. Len(Units!torque_name_val) = 3
      BY DEF Units!torque_name_val
<1> QED BY <1>1, <1>2, <1>3, <1>4, <1>5, <1>6, <1>7, <1>8, <1>9, <1>10

\* Every category has a first row, and it converts from its own unit: it shows the number as
\* it is.
LEMMA FirstRow ==
  ASSUME NEW category \in Units!Categories, NEW x
  PROVE  /\ 0 \in Units!Rows(category)
         /\ Units!calculate_value(category, 0, 0, x) = Units!Plain(x)
<1>1. CASE category = "temperature"
  <2>1. Units!get_temperature_val(0, 0, x) = x
        BY DEF Units!get_temperature_val
  <2>2. "temperature" \notin DOMAIN Units!Factors
        BY DEF Units!Factors
  <2> QED BY <1>1, <2>1, <2>2 DEF Units!calculate_value, Units!Rows, Units!num_rows
<1>2. CASE category = "fuel_economy"
  <2>1. Units!get_fuel_economy_val(0, 0, x) = Units!Plain(x)
        BY DEF Units!get_fuel_economy_val
  <2>2. "fuel_economy" \notin DOMAIN Units!Factors
        BY DEF Units!Factors
  <2> QED BY <1>2, <2>1, <2>2 DEF Units!calculate_value, Units!Rows, Units!num_rows
<1>3. CASE category \in DOMAIN Units!Factors
  <2>1. category # "temperature" /\ category # "fuel_economy"
        BY <1>3 DEF Units!Factors
  <2>2. Units!Factors[category] \in
          {Units!length_name_val, Units!area_name_val, Units!volume_name_val,
           Units!mass_name_val, Units!speed_name_val, Units!pressure_name_val,
           Units!force_name_val, Units!energy_name_val, Units!power_name_val,
           Units!torque_name_val}
        BY <1>3 DEF Units!Factors
  <2>3. Len(Units!Factors[category]) \in {3, 5, 9, 10, 12}
        BY <2>2, TableLengths, Zenon
  <2>4. Units!num_rows(category) \in {3, 5, 9, 10, 12}
        BY <1>3, <2>3, Zenon DEF Units!num_rows
  <2>5. 0 \in Units!Rows(category)
        BY <2>4 DEF Units!Rows
  <2>6. Units!calculate_value(category, 0, 0, x) = Units!Plain(x)
        BY <2>1 DEF Units!calculate_value
  <2> QED BY <2>5, <2>6
<1> QED BY <1>1, <1>2, <1>3 DEF Units!Categories

\* A window opens on the number the user sees, typed or calculated, and leaves it on the
\* display; only a zero that is no temperature is taken as one (ucv_activate).
THEOREM OpensHonest == Units!Spec => Units!OpensOnShown
<1> DEFINE Opens ==
      window_conversion = NoWindow /\ window_conversion' # NoWindow =>
        /\ Units!Shown' = Units!Shown
        /\ \/ entries'[0] = Units!Shown
           \/ Units!Shown = Units!Plain(Units!Zero) /\ entries'[0] = Units!Plain(Units!One)
                /\ window_conversion' # "temperature"
<1>1. ASSUME NEW category \in Units!Categories, Units!ucv_activate(category) PROVE Opens
  <2>1. PICK x \in Values : Units!Shown = Units!Plain(x)
        BY <1>1 DEF Units!ucv_activate
  <2> DEFINE y == Units!fix_value(category, x)
  <2>2. Units!Plain(x).x = x
        BY DEF Units!Plain, Units!Number
  <2>3. /\ top' = Units!Plain(x)
        /\ value_to_convert' = y /\ window_conversion' = category
        /\ entries' = Units!AllValues(category, 0, value_to_convert')
        /\ UNCHANGED <<mode, typed, arg_pending>>
        BY <1>1, <2>1, <2>2 DEF Units!ucv_activate, Units!GiveIfPending
  <2>4. Units!Shown' = Units!Shown
        BY <2>1, <2>3 DEF Units!Shown
  <2>5. \/ y = x
        \/ x = Units!Zero /\ y = Units!One /\ category # "temperature"
        BY DEF Units!fix_value
  <2> HIDE DEF y
  <2>6. entries'[0] = Units!Plain(y)
        BY <2>3, FirstRow DEF Units!AllValues
  <2> QED BY <2>1, <2>3, <2>4, <2>5, <2>6
<1>2. ASSUME [Units!Next]_Units!vars, ~\E category \in Units!Categories : Units!ucv_activate(category)
      PROVE  window_conversion = NoWindow => window_conversion' = NoWindow
  <2>1. ASSUME NEW y, Units!Type(y) \/ Units!Result(y) PROVE UNCHANGED window_conversion
        BY <2>1 DEF Units!Type, Units!Result, Units!windowVars
  <2>2. CASE Units!SetMode
        BY <2>2 DEF Units!SetMode, Units!windowVars
  <2>3. ASSUME NEW row, Units!rb_toggle(row) \/ Units!Select(row), window_conversion = NoWindow
        PROVE  FALSE
        BY <2>3 DEF Units!rb_toggle, Units!Select
  <2>4. CASE Units!Cancel
        BY <2>4 DEF Units!Cancel
  <2>5. CASE Units!constants_activate \/ Units!CancelConstants
        BY <2>5 DEF Units!constants_activate, Units!CancelConstants, Units!windowVars
  <2>6. ASSUME NEW y, Units!SelectConstant(y) PROVE UNCHANGED window_conversion
        BY <2>6 DEF Units!SelectConstant, Units!windowVars
  <2>7. CASE UNCHANGED Units!vars
        BY <2>7 DEF Units!vars, Units!windowVars
  <2> QED BY <1>2, <2>1, <2>2, <2>3, <2>4, <2>5, <2>6, <2>7 DEF Units!Next
<1> HIDE DEF Opens
<1>3. [Units!Next]_Units!vars => Opens
  <2>1. CASE \E category \in Units!Categories : Units!ucv_activate(category)
        BY <1>1, <2>1
  <2>2. CASE ~\E category \in Units!Categories : Units!ucv_activate(category)
        BY <1>2, <2>2 DEF Opens
  <2> QED BY <2>1, <2>2
<1>4. [][Units!Next]_Units!vars => [][Opens]_Units!vars
      BY <1>3, PTL
<1>5. [][Opens]_Units!vars => Units!OpensOnShown
      BY PTL DEF Units!OpensOnShown, Opens
<1> QED BY <1>4, <1>5, PTL DEF Units!Spec
=============================================================================
