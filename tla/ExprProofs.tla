----------------------------- MODULE ExprProofs -----------------------------
(***************************************************************************)
(* The engine implements ExprCalc: what its two stacks compute is what the *)
(* grammar says of the expression that was typed.                          *)
(*                                                                         *)
(* The first half is about expressions only.  An expression is a list of   *)
(* numbers and operators in turn, with brackets opened before numbers; the *)
(* n operators of it that still wait are those on the operator stack, and  *)
(* within a bracket they bind ever tighter.  Its value, a recursion over   *)
(* the operator that binds loosest, is therefore a fold from the right:    *)
(* the value of each right operand is the operator behind it applied to    *)
(* its number and the next value.                                          *)
(*                                                                         *)
(* The second half is about the machine: slot i of the arguments holds the *)
(* i-th number, and the loop of process_bin_ops computes that fold, one    *)
(* operator in a turn.  The invariant ExprInv says that the stacks agree   *)
(* with the expression, and that the two popped slots which [=] reads hold *)
(* what the grammar says it repeats.                                       *)
(***************************************************************************)
EXTENDS CalcExpr, CalcEngineProofs, FiniteSetTheorems

-----------------------------------------------------------------------------
(* The recursive definitions of ExprCalc                                    *)

\* The largest element of a set of positions exists.
LEMMA LatestIsMax ==
  ASSUME NEW k \in Nat, NEW S, S \subseteq 1..k, S # {}
  PROVE  Abstract!Latest(S) \in S /\ \A j \in S : j <= Abstract!Latest(S)
<1> DEFINE T == {n \in Nat : (\E x \in S : x >= k - n) =>
                               \E x \in S : \A j \in S : j <= x}
<1>1. 0 \in T
      OBVIOUS
<1>2. ASSUME NEW n \in Nat, n \in T PROVE n + 1 \in T
  <2> SUFFICES ASSUME \E x \in S : x >= k - (n + 1), ~\E x \in S : x >= k - n
               PROVE  \E x \in S : \A j \in S : j <= x
      BY <1>2
  <2>1. PICK x \in S : x >= k - (n + 1)
        OBVIOUS
  <2>2. \A j \in S : j <= x
    <3> SUFFICES ASSUME NEW j \in S PROVE j <= x
        OBVIOUS
    <3>1. j \in 1..k /\ x \in 1..k /\ ~(j >= k - n)
          OBVIOUS
    <3> QED BY <3>1, <2>1
  <2> QED BY <2>2
<1>3. k \in T
  <2> HIDE DEF T
  <2> QED BY <1>1, <1>2, Induction
<1>4. \E x \in S : x >= k - k
  <2>1. PICK x : x \in S
        OBVIOUS
  <2>2. x \in 1..k
        BY <2>1
  <2> QED BY <2>1, <2>2
<1>5. \E x \in S : \A j \in S : j <= x
      BY <1>3, <1>4
<1>6. Abstract!Latest(S) = CHOOSE i \in S : \A j \in S : j <= i
      BY DEF Abstract!Latest
<1> QED BY <1>5, <1>6

\* Recognising the largest position.
LEMMA LatestIs ==
  ASSUME NEW k \in Nat, NEW S, S \subseteq 1..k, NEW x \in S, \A j \in S : j <= x
  PROVE  Abstract!Latest(S) = x
<1>1. Abstract!Latest(S) \in S /\ x <= Abstract!Latest(S)
      BY LatestIsMax
<1>2. Abstract!Latest(S) <= x /\ Abstract!Latest(S) \in 1..k /\ x \in 1..k
      BY <1>1
<1> QED BY <1>1, <1>2

\* The root of e[l..h] lies between l and h, or there is none.
LEMMA RootRange ==
  ASSUME NEW e, Len(e) \in Nat, NEW l \in Nat, NEW h \in Nat
  PROVE  LET r == Abstract!RootOf(e, l, h)
         IN  r = 0 \/ (r \in 1..Len(e) /\ l < r /\ r < h)
<1> DEFINE ops == {i \in Abstract!Ops(e) : l < i /\ i < h}
           S == {i \in ops : \A j \in ops : Priority(e[i].op) <= Priority(e[j].op)}
<1>1. Abstract!RootOf(e, l, h) = Abstract!Latest(S)
      BY DEF Abstract!RootOf
<1>2. S \subseteq 1..Len(e)
      BY DEF Abstract!Ops
<1>3. CASE S = {}
      BY <1>1, <1>3 DEF Abstract!Latest
<1>4. CASE S # {}
  <2> HIDE DEF S
  <2>1. Abstract!Latest(S) \in S
        BY <1>2, <1>4, LatestIsMax
  <2> QED BY <2>1, <1>1, <1>2 DEF S
<1> QED BY <1>3, <1>4

ValueStep(v, e, p) ==
  LET r == Abstract!RootOf(e, p[1], p[2])
  IN  IF r = 0 THEN e[p[1]].val
      ELSE IF e[r].dropped THEN v[<<p[1], r - 1>>]
           ELSE FopBinary(e[r].op, v[<<p[1], r - 1>>], v[<<r + 1, p[2]>>])

IsValue(v, e) == v = [p \in (1..Len(e)) \X (1..Len(e)) |-> ValueStep(v, e, p)]

\* The recursive function of ValueOf exists: each call is on a shorter stretch.
LEMMA ValueExists ==
  ASSUME NEW e, Len(e) \in Nat
  PROVE  \E v : IsValue(v, e)
<1> DEFINE P == (1..Len(e)) \X (1..Len(e))
           Upto(v, n) == /\ v = [p \in P |-> v[p]]
                         /\ \A p \in P : (p[2] - p[1]) + Len(e) <= n => v[p] = ValueStep(v, e, p)
           S == {n \in Nat : \E v : Upto(v, n)}
<1>0. ASSUME NEW p \in P, NEW v, NEW w,
             \A q \in P : q[2] - q[1] < p[2] - p[1] => v[q] = w[q]
      PROVE  ValueStep(v, e, p) = ValueStep(w, e, p)
  <2> DEFINE r == Abstract!RootOf(e, p[1], p[2])
  <2>1. p[1] \in 1..Len(e) /\ p[2] \in 1..Len(e)
        OBVIOUS
  <2>2. r = 0 \/ (r \in 1..Len(e) /\ p[1] < r /\ r < p[2])
        BY <2>1, RootRange
  <2> HIDE DEF r
  <2>3. CASE r = 0
        BY <2>3 DEF ValueStep, r
  <2>4. CASE r # 0
    <3>1. /\ <<p[1], r - 1>> \in P /\ (r - 1) - p[1] < p[2] - p[1]
          /\ <<r + 1, p[2]>> \in P /\ p[2] - (r + 1) < p[2] - p[1]
          BY <2>1, <2>2, <2>4
    <3>2. v[<<p[1], r - 1>>] = w[<<p[1], r - 1>>] /\ v[<<r + 1, p[2]>>] = w[<<r + 1, p[2]>>]
      <4>1. <<p[1], r - 1>>[1] = p[1] /\ <<p[1], r - 1>>[2] = r - 1
            /\ <<r + 1, p[2]>>[1] = r + 1 /\ <<r + 1, p[2]>>[2] = p[2]
            OBVIOUS
      <4> QED BY <3>1, <4>1, <1>0
    <3> QED BY <3>2 DEF ValueStep, r
  <2> QED BY <2>3, <2>4
<1>1. 0 \in S
  <2>1. Upto([p \in P |-> 0], 0)
        OBVIOUS
  <2> QED BY <2>1
<1>2. ASSUME NEW n \in Nat, n \in S PROVE n + 1 \in S
  <2>1. PICK v : Upto(v, n)
        BY <1>2
  <2> DEFINE w == [p \in P |-> IF (p[2] - p[1]) + Len(e) <= n THEN v[p] ELSE ValueStep(v, e, p)]
  <2>2. ASSUME NEW p \in P, (p[2] - p[1]) + Len(e) <= n + 1
        PROVE  w[p] = ValueStep(w, e, p)
    <3>1. p[1] \in 1..Len(e) /\ p[2] \in 1..Len(e)
          OBVIOUS
    <3>2. \A q \in P : q[2] - q[1] < p[2] - p[1] => v[q] = w[q]
      <4> SUFFICES ASSUME NEW q \in P, q[2] - q[1] < p[2] - p[1] PROVE v[q] = w[q]
          OBVIOUS
      <4>1. q[1] \in 1..Len(e) /\ q[2] \in 1..Len(e)
            OBVIOUS
      <4>2. (q[2] - q[1]) + Len(e) <= n
            BY <4>1, <3>1, <2>2
      <4> QED BY <4>2
    <3>3. w[p] = ValueStep(v, e, p)
          BY <2>1
    <3>4. ValueStep(v, e, p) = ValueStep(w, e, p)
      <4> HIDE DEF w
      <4> QED BY <3>2, <1>0
    <3> QED BY <3>3, <3>4
  <2>3. Upto(w, n + 1)
    <3>1. w = [p \in P |-> w[p]]
          OBVIOUS
    <3> HIDE DEF w
    <3> QED BY <2>2, <3>1
  <2>4. n + 1 \in Nat /\ \E x : Upto(x, n + 1)
    <3> HIDE DEF Upto, w
    <3> QED BY <2>3
  <2> HIDE DEF Upto, w
  <2> QED BY <2>4
<1>3. 2 * Len(e) \in S
  <2> HIDE DEF S
  <2> QED BY <1>1, <1>2, Induction
<1>4. PICK v : Upto(v, 2 * Len(e))
      BY <1>3
<1>5. ASSUME NEW p \in P PROVE v[p] = ValueStep(v, e, p)
  <2>1. p[1] \in 1..Len(e) /\ p[2] \in 1..Len(e)
        OBVIOUS
  <2>2. (p[2] - p[1]) + Len(e) <= 2 * Len(e)
        BY <2>1
  <2> QED BY <1>4, <2>2
<1>6. v = [p \in P |-> ValueStep(v, e, p)]
  <2>1. v = [p \in P |-> v[p]]
        BY <1>4
  <2> HIDE DEF P
  <2> QED BY <2>1, <1>5
<1> QED BY <1>6 DEF IsValue

\* The equation the definition of ValueOf means.
LEMMA ValueUnfold ==
  ASSUME NEW e, Len(e) \in Nat, NEW l \in 1..Len(e), NEW h \in 1..Len(e)
  PROVE  LET r == Abstract!RootOf(e, l, h)
         IN  Abstract!ValueOf(e, l, h) =
               IF r = 0 THEN e[l].val
               ELSE IF e[r].dropped THEN Abstract!ValueOf(e, l, r - 1)
                    ELSE FopBinary(e[r].op, Abstract!ValueOf(e, l, r - 1),
                                   Abstract!ValueOf(e, r + 1, h))
<1> DEFINE v == CHOOSE v : IsValue(v, e)
           r == Abstract!RootOf(e, l, h)
<1>1. IsValue(v, e)
      BY ValueExists, Zenon
<1>2. \A lo, hi : Abstract!ValueOf(e, lo, hi) = v[<<lo, hi>>]
      BY Zenon DEF Abstract!ValueOf, IsValue, ValueStep
<1> HIDE DEF v
<1>3. v[<<l, h>>] = ValueStep(v, e, <<l, h>>)
      BY <1>1 DEF IsValue
<1>4. ValueStep(v, e, <<l, h>>) =
        IF r = 0 THEN e[l].val
        ELSE IF e[r].dropped THEN v[<<l, r - 1>>]
             ELSE FopBinary(e[r].op, v[<<l, r - 1>>], v[<<r + 1, h>>])
      BY DEF ValueStep
<1> QED BY <1>2, <1>3, <1>4

-----------------------------------------------------------------------------
(* The shape of an expression: numbers and operators in turn, with brackets *)
(* opened before a number.  ob[i] is how many are open at the i-th number.  *)

Item == [kind : {"num", "op", "open"}, val : FVal, op : BinaryOps \cup {"nop"},
         dropped : BOOLEAN]

Levels(n) == {ob \in [0..n -> Nat] : \A i, j \in 0..n : i <= j => ob[i] <= ob[j]}

NumAt(ob, i) == 2 * i + 1 + ob[i]
OpAt(ob, i)  == 2 * i + 2 + ob[i]

\* Operators of one bracket bind ever tighter, because one that binds as tight as
\* those before it has their value computed.
Shaped(e, n, ob) ==
  /\ n \in Nat /\ ob \in Levels(n)
  /\ e \in Seq(Item) /\ Len(e) = NumAt(ob, n)
  /\ \A i \in 0..n : e[NumAt(ob, i)] = Abstract!Num(e[NumAt(ob, i)].val)
  /\ \A i \in 0..n - 1 : e[OpAt(ob, i)].kind = "op" /\ e[OpAt(ob, i)].op \in BinaryOps
  /\ \A p \in 1..Len(e) : \/ e[p].kind = "open"
                          \/ \E i \in 0..n : p = NumAt(ob, i)
                          \/ \E i \in 0..n - 1 : p = OpAt(ob, i)
  /\ \A i, j \in 0..n - 1 :
       i < j /\ ob[i] = ob[j] => Priority(e[OpAt(ob, i)].op) < Priority(e[OpAt(ob, j)].op)

\* The innermost bracket begins with the b-th number.
Starts(ob, n, b) ==
  /\ b \in 0..n
  /\ ob[b] = ob[n]
  /\ b > 0 => ob[b - 1] < ob[n]

\* Numbers and operators are at different positions, in the order of their indexes.
LEMMA Positions ==
  ASSUME NEW n \in Nat, NEW ob \in Levels(n)
  PROVE  /\ \A i \in 0..n : /\ ob[i] \in Nat /\ ob[i] <= ob[n]
                            /\ NumAt(ob, i) \in Nat /\ 1 <= NumAt(ob, i)
                            /\ OpAt(ob, i) = NumAt(ob, i) + 1
                            /\ NumAt(ob, i) <= NumAt(ob, n)
         /\ \A i, j \in 0..n : i < j => OpAt(ob, i) < NumAt(ob, j)
         /\ \A i \in 0..n - 1 : i \in 0..n /\ OpAt(ob, i) < NumAt(ob, n)
<1>1. ob \in [0..n -> Nat] /\ \A i, j \in 0..n : i <= j => ob[i] <= ob[j]
      BY DEF Levels
<1>2. ASSUME NEW i \in 0..n
      PROVE  /\ ob[i] \in Nat /\ ob[i] <= ob[n]
             /\ NumAt(ob, i) \in Nat /\ 1 <= NumAt(ob, i)
             /\ OpAt(ob, i) = NumAt(ob, i) + 1
             /\ NumAt(ob, i) <= NumAt(ob, n)
  <2>1. ob[i] \in Nat /\ ob[n] \in Nat /\ ob[i] <= ob[n]
        BY <1>1
  <2> QED BY <2>1 DEF NumAt, OpAt
<1>3. ASSUME NEW i \in 0..n, NEW j \in 0..n, i < j PROVE OpAt(ob, i) < NumAt(ob, j)
  <2>1. ob[i] \in Nat /\ ob[j] \in Nat /\ ob[i] <= ob[j]
        BY <1>1, <1>3
  <2> QED BY <2>1, <1>3 DEF NumAt, OpAt
<1>4. ASSUME NEW i \in 0..n - 1 PROVE i \in 0..n /\ OpAt(ob, i) < NumAt(ob, n)
  <2>1. i \in 0..n /\ n \in 0..n /\ i < n
        OBVIOUS
  <2> QED BY <2>1, <1>3
<1> QED BY <1>2, <1>3, <1>4

\* Where the items of an expression of that shape are.
LEMMA ShapedItems ==
  ASSUME NEW e, NEW n, NEW ob, Shaped(e, n, ob)
  PROVE  /\ Len(e) \in Nat /\ Len(e) >= 1
         /\ DOMAIN e = 1..Len(e)
         /\ \A p \in 1..Len(e) : e[p] \in Item
         /\ \A i \in 0..n : NumAt(ob, i) \in 1..Len(e) /\ e[NumAt(ob, i)].kind = "num"
                            /\ e[NumAt(ob, i)].val \in FVal
         /\ \A i \in 0..n - 1 : OpAt(ob, i) \in 1..Len(e)
<1>1. /\ n \in Nat /\ ob \in Levels(n) /\ e \in Seq(Item) /\ Len(e) = NumAt(ob, n)
      /\ \A i \in 0..n : e[NumAt(ob, i)] = Abstract!Num(e[NumAt(ob, i)].val)
      BY DEF Shaped
<1>2. Len(e) \in Nat /\ DOMAIN e = 1..Len(e) /\ \A p \in 1..Len(e) : e[p] \in Item
      BY <1>1
<1>3. ASSUME NEW i \in 0..n
      PROVE  NumAt(ob, i) \in 1..Len(e) /\ e[NumAt(ob, i)].kind = "num"
             /\ e[NumAt(ob, i)].val \in FVal
  <2>1. NumAt(ob, i) \in Nat /\ 1 <= NumAt(ob, i) /\ NumAt(ob, i) <= NumAt(ob, n)
        BY <1>1, Positions
  <2>2. NumAt(ob, i) \in 1..Len(e)
        BY <2>1, <1>1, <1>2
  <2>3. e[NumAt(ob, i)].kind = "num"
    <3>1. PICK v : e[NumAt(ob, i)] = Abstract!Num(v)
          BY <1>1
    <3> QED BY <3>1 DEF Abstract!Num
  <2>4. e[NumAt(ob, i)] \in Item
        BY <2>2, <1>2
  <2>5. e[NumAt(ob, i)].val \in FVal
        BY <2>4 DEF Item
  <2> QED BY <2>2, <2>3, <2>5
<1>4. ASSUME NEW i \in 0..n - 1 PROVE OpAt(ob, i) \in 1..Len(e)
  <2>1. /\ i \in 0..n /\ OpAt(ob, i) < NumAt(ob, n)
        /\ OpAt(ob, i) = NumAt(ob, i) + 1 /\ NumAt(ob, i) \in Nat
        BY <1>1, Positions
  <2> QED BY <2>1, <1>1, <1>2
<1>5. Len(e) >= 1
      BY <1>1, Positions
<1> QED BY <1>2, <1>3, <1>4, <1>5

\* Where operators and brackets are.
LEMMA OpsAre ==
  ASSUME NEW e, NEW n, NEW ob, Shaped(e, n, ob), NEW p \in 1..Len(e)
  PROVE  e[p].kind = "op" <=> \E i \in 0..n - 1 : p = OpAt(ob, i)
<1>1. \A i \in 0..n : p = NumAt(ob, i) => e[p].kind = "num"
      BY ShapedItems
<1>2. \A i \in 0..n - 1 : p = OpAt(ob, i) => e[p].kind = "op"
      BY DEF Shaped
<1>3. \/ e[p].kind = "open"
      \/ \E i \in 0..n : p = NumAt(ob, i)
      \/ \E i \in 0..n - 1 : p = OpAt(ob, i)
      BY DEF Shaped
<1> QED BY <1>1, <1>2, <1>3

\* All other items are open brackets.
LEMMA OpensAre ==
  ASSUME NEW e, NEW n, NEW ob, Shaped(e, n, ob), NEW p \in 1..Len(e)
  PROVE  e[p].kind = "open" <=> /\ \A i \in 0..n : p # NumAt(ob, i)
                                /\ \A i \in 0..n - 1 : p # OpAt(ob, i)
<1>1. \A i \in 0..n : p = NumAt(ob, i) => e[p].kind = "num"
      BY ShapedItems
<1>2. \A i \in 0..n - 1 : p = OpAt(ob, i) => e[p].kind = "op"
      BY DEF Shaped
<1>3. \/ e[p].kind = "open"
      \/ \E i \in 0..n : p = NumAt(ob, i)
      \/ \E i \in 0..n - 1 : p = OpAt(ob, i)
      BY DEF Shaped
<1> QED BY <1>1, <1>2, <1>3

\* The innermost bracket begins with one of the numbers.
LEMMA StartExists ==
  ASSUME NEW n \in Nat, NEW ob \in Levels(n)
  PROVE  \E b : Starts(ob, n, b)
<1> DEFINE S == {k \in Nat : (k <= n /\ ob[k] = ob[n]) => \E b : Starts(ob, n, b)}
<1>0. \A i \in 0..n : ob[i] \in Nat /\ ob[i] <= ob[n]
      BY Positions
<1>1. 0 \in S
  <2>1. ob[0] = ob[n] => Starts(ob, n, 0)
        BY DEF Starts
  <2> QED BY <2>1
<1>2. ASSUME NEW k \in Nat, k \in S PROVE k + 1 \in S
  <2> SUFFICES ASSUME k + 1 <= n, ob[k + 1] = ob[n] PROVE \E b : Starts(ob, n, b)
      OBVIOUS
  <2>1. CASE ob[k] = ob[n]
        BY <2>1, <1>2
  <2>2. CASE ob[k] # ob[n]
    <3>1. k \in 0..n /\ k + 1 \in 0..n /\ n \in 0..n /\ (k + 1) - 1 = k
          OBVIOUS
    <3>2. ob[k] < ob[n]
          BY <3>1, <2>2, <1>0
    <3>3. Starts(ob, n, k + 1)
          BY <3>1, <3>2 DEF Starts
    <3> QED BY <3>3
  <2> QED BY <2>1, <2>2
<1>3. n \in S
  <2> HIDE DEF S
  <2> QED BY <1>1, <1>2, Induction
<1> QED BY <1>3

\* Behind the start of the innermost bracket there are numbers and operators only.
LEMMA InnerLevels ==
  ASSUME NEW n \in Nat, NEW ob \in Levels(n), NEW b, Starts(ob, n, b)
  PROVE  /\ \A i \in b..n : i \in 0..n /\ ob[i] = ob[n]
                             /\ NumAt(ob, i) = 2 * i + 1 + ob[n]
                             /\ OpAt(ob, i) = 2 * i + 2 + ob[n]
         /\ \A p \in NumAt(ob, b)..NumAt(ob, n) :
              \/ \E i \in b..n : p = NumAt(ob, i)
              \/ \E i \in b..n - 1 : p = OpAt(ob, i)
<1>1. b \in 0..n /\ ob[b] = ob[n] /\ b \in Nat
      BY DEF Starts
<1>2. ASSUME NEW i \in b..n
      PROVE  i \in 0..n /\ ob[i] = ob[n]
  <2>1. i \in 0..n /\ b <= i
        BY <1>1
  <2>2. ob[b] <= ob[i] /\ ob[i] <= ob[n] /\ ob[i] \in Nat /\ ob[n] \in Nat
        BY <2>1, <1>1 DEF Levels
  <2> QED BY <2>1, <2>2, <1>1
<1>3. ob[n] \in Nat
      BY DEF Levels
<1>4. ASSUME NEW p \in NumAt(ob, b)..NumAt(ob, n)
      PROVE  \/ \E i \in b..n : p = NumAt(ob, i)
             \/ \E i \in b..n - 1 : p = OpAt(ob, i)
  <2> DEFINE q == p - (1 + ob[n])
             i == q \div 2
  <2>1. NumAt(ob, b) = 2 * b + 1 + ob[n] /\ NumAt(ob, n) = 2 * n + 1 + ob[n]
        BY <1>1 DEF NumAt
  <2>2. q \in Nat /\ 2 * b <= q /\ q <= 2 * n /\ p = q + 1 + ob[n] /\ p \in Int
        BY <2>1, <1>1, <1>3
  <2> HIDE DEF q
  <2>3. i \in Nat /\ (q = 2 * i \/ q = 2 * i + 1)
        BY <2>2
  <2> HIDE DEF i
  <2>4. i \in b..n
        BY <2>2, <2>3, <1>1
  <2>5. CASE q = 2 * i
    <3>1. p = NumAt(ob, i)
          BY <2>5, <2>2, <2>4, <1>2, <2>3, <1>3 DEF NumAt
    <3> QED BY <3>1, <2>4
  <2>6. CASE q = 2 * i + 1
    <3>1. p = OpAt(ob, i)
          BY <2>6, <2>2, <2>4, <1>2, <2>3, <1>3 DEF OpAt
    <3>2. i \in b..n - 1
          BY <2>6, <2>2, <2>3, <2>4, <1>1
    <3> QED BY <3>1, <3>2
  <2> QED BY <2>3, <2>5, <2>6
<1> QED BY <1>2, <1>4 DEF NumAt, OpAt

\* Inner gives that number.
LEMMA InnerIs ==
  ASSUME NEW e, NEW n, NEW ob, Shaped(e, n, ob), NEW b, Starts(ob, n, b)
  PROVE  /\ Abstract!Inner(e) = NumAt(ob, b)
         /\ Abstract!Opens(e) = {} <=> ob[n] = 0
         /\ ob[n] > 0 => /\ NumAt(ob, b) - 1 \in Abstract!Opens(e)
                         /\ \A p \in Abstract!Opens(e) : p <= NumAt(ob, b) - 1
<1>0. n \in Nat /\ ob \in Levels(n) /\ Len(e) = NumAt(ob, n)
      BY DEF Shaped
<1>1. b \in 0..n /\ ob[b] = ob[n] /\ b \in Nat /\ ob[n] \in Nat
      BY <1>0 DEF Starts, Levels
<1>2. NumAt(ob, b) = 2 * b + 1 + ob[n]
      BY <1>1 DEF NumAt
<1>3. Len(e) \in Nat /\ NumAt(ob, b) \in 1..Len(e)
      BY <1>1, ShapedItems
<1>4. Abstract!Opens(e) \subseteq 1..Len(e)
      BY DEF Abstract!Opens
<1>5. \A p \in Abstract!Opens(e) : p <= NumAt(ob, b) - 1
  <2> SUFFICES ASSUME NEW p \in Abstract!Opens(e), ~(p <= NumAt(ob, b) - 1) PROVE FALSE
      OBVIOUS
  <2>1. p \in NumAt(ob, b)..NumAt(ob, n) /\ p \in 1..Len(e) /\ e[p].kind = "open"
        BY <1>0, <1>3, <1>4 DEF Abstract!Opens
  <2>2. \/ \E i \in b..n : p = NumAt(ob, i)
        \/ \E i \in b..n - 1 : p = OpAt(ob, i)
        BY <2>1, <1>0, InnerLevels
  <2>3. b..n \subseteq 0..n /\ b..n - 1 \subseteq 0..n - 1
        BY <1>1, <1>0
  <2> QED BY <2>1, <2>2, <2>3, OpensAre
<1>6. CASE ob[n] = 0
  <2>1. b = 0
    <3> SUFFICES ASSUME b > 0 PROVE FALSE
        BY <1>1
    <3>1. ob[b - 1] < 0 /\ b - 1 \in 0..n
          BY <1>6, <1>1, <1>0 DEF Starts
    <3> QED BY <3>1, <1>0, Positions
  <2>2. Abstract!Opens(e) = {}
    <3> SUFFICES ASSUME NEW p \in Abstract!Opens(e) PROVE FALSE
        OBVIOUS
    <3>1. NumAt(ob, b) = 1 /\ p \in 1..Len(e) /\ p <= NumAt(ob, b) - 1
          BY <2>1, <1>2, <1>4, <1>5, <1>6
    <3> QED BY <3>1, <1>3
  <2> QED BY <2>1, <2>2, <1>2, <1>6 DEF Abstract!Inner, Abstract!Latest
<1>7. CASE ob[n] > 0
  <2> DEFINE x == NumAt(ob, b) - 1
  <2>1. x = 2 * b + ob[n] /\ x \in 1..Len(e)
        BY <1>1, <1>2, <1>3, <1>7
  <2>2. ASSUME NEW i \in 0..n PROVE x # NumAt(ob, i)
    <3>1. CASE i < b
      <4>1. b - 1 \in 0..n /\ i <= b - 1 /\ b > 0
            BY <3>1, <1>0, <1>1
      <4>2. ob[i] <= ob[b - 1] /\ ob[b - 1] < ob[n] /\ ob[i] \in Nat /\ ob[b - 1] \in Nat
            BY <4>1, <1>0 DEF Starts, Levels
      <4>3. x = 2 * b + ob[n] /\ i \in Nat /\ b \in Nat /\ ob[n] \in Nat
            BY <2>1, <1>1
      <4> HIDE DEF x
      <4> QED BY <3>1, <4>2, <4>3 DEF NumAt
    <3>2. CASE i >= b
      <4>1. ob[i] = ob[n]
            BY <3>2, <1>0, <1>1, InnerLevels
      <4> QED BY <4>1, <3>2, <2>1, <1>1 DEF NumAt
    <3> QED BY <3>1, <3>2, <1>1
  <2>3. ASSUME NEW i \in 0..n - 1 PROVE x # OpAt(ob, i)
    <3>1. CASE i < b
      <4>1. b - 1 \in 0..n /\ i <= b - 1 /\ b > 0 /\ i \in 0..n
            BY <3>1, <1>1, <1>0
      <4>2. ob[i] <= ob[b - 1] /\ ob[b - 1] < ob[n] /\ ob[i] \in Nat /\ ob[b - 1] \in Nat
            BY <4>1, <1>0 DEF Starts, Levels
      <4> QED BY <4>1, <4>2, <2>1, <1>1, SMTT(60) DEF OpAt
    <3>2. CASE i >= b
      <4>1. i \in 0..n /\ i \in b..n
            BY <3>2, <1>0, <1>1
      <4>2. ob[i] = ob[n]
            BY <4>1, <1>0, InnerLevels
      <4> QED BY <4>1, <4>2, <3>2, <2>1, <1>1 DEF OpAt
    <3> QED BY <3>1, <3>2, <1>1
  <2>4. x \in Abstract!Opens(e)
    <3>1. e[x].kind = "open"
          BY <2>1, <2>2, <2>3, OpensAre
    <3> QED BY <3>1, <2>1 DEF Abstract!Opens
  <2>5. Abstract!Latest(Abstract!Opens(e)) = x
        BY <2>4, <1>3, <1>4, <1>5, LatestIs
  <2>6. Abstract!Inner(e) = NumAt(ob, b)
        BY <2>5, <1>2, <1>1 DEF Abstract!Inner
  <2> QED BY <2>4, <2>6, <1>5, <1>7
<1> QED BY <1>1, <1>6, <1>7

-----------------------------------------------------------------------------
(* Evaluation of the innermost bracket                                      *)

\* The value of an operator with its operands.
Combine(item, a, b) == IF item.dropped THEN a ELSE FopBinary(item.op, a, b)

\* x begins with e.
Extends(x, e) == Len(x) \in Nat /\ Len(e) <= Len(x) /\ \A p \in 1..Len(e) : x[p] = e[p]

\* A stretch of one number has no operator.
LEMMA RootOfOne ==
  ASSUME NEW x, NEW l \in Nat
  PROVE  Abstract!RootOf(x, l, l) = 0
<1> DEFINE ops == {i \in Abstract!Ops(x) : l < i /\ i < l}
<1>1. ops = {}
      BY DEF Abstract!Ops
<1>2. {i \in ops : \A j \in ops : Priority(x[i].op) <= Priority(x[j].op)} = {}
      BY <1>1
<1> QED BY <1>2 DEF Abstract!RootOf, Abstract!Latest

\* The operators bind ever tighter, so the first of a stretch is its root.
LEMMA RootIs ==
  ASSUME NEW e, NEW n, NEW ob, Shaped(e, n, ob), NEW b, Starts(ob, n, b),
         NEW x, Extends(x, e), NEW j \in b..n - 1
  PROVE  Abstract!RootOf(x, NumAt(ob, j), Len(e)) = OpAt(ob, j)
<1>0. /\ n \in Nat /\ ob \in Levels(n) /\ Len(e) = NumAt(ob, n)
      /\ b \in 0..n /\ b \in Nat /\ j \in Nat /\ j \in 0..n - 1 /\ j \in b..n /\ j \in 0..n
      BY DEF Shaped, Starts
<1>1. Len(e) \in Nat /\ Len(x) \in Nat /\ Len(e) <= Len(x)
      BY ShapedItems DEF Extends
<1>2. /\ \A i \in b..n : i \in 0..n /\ ob[i] = ob[n]
                         /\ NumAt(ob, i) = 2 * i + 1 + ob[n]
                         /\ OpAt(ob, i) = 2 * i + 2 + ob[n]
      /\ ob[n] \in Nat
      BY <1>0, InnerLevels DEF Levels
<1> DEFINE l == NumAt(ob, j)
           h == Len(e)
           ops == {i \in Abstract!Ops(x) : l < i /\ i < h}
           S == {i \in ops : \A k \in ops : Priority(x[i].op) <= Priority(x[k].op)}
           r == OpAt(ob, j)
<1>3. ASSUME NEW i \in j..n - 1
      PROVE  OpAt(ob, i) \in ops /\ x[OpAt(ob, i)] = e[OpAt(ob, i)]
  <2>1. i \in b..n /\ i \in 0..n - 1
        BY <1>0
  <2>2. OpAt(ob, i) \in 1..Len(e) /\ e[OpAt(ob, i)].kind = "op"
        BY <2>1, ShapedItems DEF Shaped
  <2>3. l < OpAt(ob, i) /\ OpAt(ob, i) < h
    <3>1. OpAt(ob, i) = 2 * i + 2 + ob[n] /\ l = 2 * j + 1 + ob[n]
          BY <2>1, <1>2, <1>0
    <3>2. n \in b..n
          BY <1>0
    <3>3. h = 2 * n + 1 + ob[n]
          BY <3>2, <1>2, <1>0
    <3>4. i \in Nat /\ j \in Nat /\ n \in Nat /\ ob[n] \in Nat /\ j <= i /\ i <= n - 1
          BY <1>0, <1>2
    <3> HIDE DEF l, h
    <3> QED BY <3>1, <3>3, <3>4
  <2>4. x[OpAt(ob, i)] = e[OpAt(ob, i)] /\ OpAt(ob, i) \in 1..Len(x)
        BY <2>2, <1>1 DEF Extends
  <2> QED BY <2>2, <2>3, <2>4 DEF Abstract!Ops
<1>4. ASSUME NEW p \in ops
      PROVE  \E i \in j..n - 1 : p = OpAt(ob, i)
  <2>1. p \in 1..Len(x) /\ x[p].kind = "op" /\ l < p /\ p < h
        BY DEF Abstract!Ops
  <2>2. p \in 1..Len(e) /\ e[p].kind = "op"
        BY <2>1, <1>1 DEF Extends
  <2>3. PICK i \in 0..n - 1 : p = OpAt(ob, i)
        BY <2>2, OpsAre
  <2>4. i >= j
    <3> SUFFICES ASSUME i < j PROVE FALSE
        BY <1>0
    <3>1. OpAt(ob, i) < NumAt(ob, j)
          BY <1>0, Positions
    <3>2. OpAt(ob, i) \in 1..Len(e) /\ l \in 1..Len(e)
          BY <1>0, ShapedItems
    <3> QED BY <3>1, <3>2, <2>1, <2>3
  <2> QED BY <2>3, <2>4, <1>0
<1>5. r \in ops /\ x[r] = e[r] /\ r \in 1..Len(x)
  <2>1. j \in j..n - 1
        BY <1>0
  <2> QED BY <2>1, <1>3 DEF Abstract!Ops
<1>6. ASSUME NEW i \in j..n - 1, i # j
      PROVE  Priority(e[r].op) < Priority(e[OpAt(ob, i)].op)
  <2>1. i \in 0..n - 1 /\ j < i /\ ob[i] = ob[j]
        BY <1>0, <1>2, <1>6
  <2> QED BY <2>1, <1>0 DEF Shaped
<1>7. ASSUME NEW i \in j..n - 1
      PROVE  Priority(e[OpAt(ob, i)].op) \in 0..2
  <2>1. i \in 0..n - 1
        BY <1>0
  <2> QED BY <2>1, PriorityRange DEF Shaped
<1> HIDE DEF ops, r
<1>8. S = {r}
  <2>1. r \in S
    <3> SUFFICES ASSUME NEW k \in ops PROVE Priority(x[r].op) <= Priority(x[k].op)
        BY <1>5
    <3>1. PICK i \in j..n - 1 : k = OpAt(ob, i)
          BY <1>4
    <3>2. x[k] = e[k]
          BY <3>1, <1>3
    <3>3. CASE i = j
      <4>1. k = r /\ Priority(x[r].op) \in 0..2
            BY <3>1, <3>3, <1>5, <1>7 DEF r
      <4> QED BY <4>1
    <3>4. CASE i # j
      <4>1. Priority(e[r].op) < Priority(e[k].op)
            BY <3>1, <3>4, <1>6
      <4>2. Priority(e[r].op) \in 0..2 /\ Priority(e[k].op) \in 0..2
        <5>1. j \in j..n - 1
              BY <1>0
        <5> QED BY <5>1, <3>1, <1>7 DEF r
      <4> QED BY <4>1, <4>2, <3>2, <1>5
    <3> QED BY <3>3, <3>4
  <2>2. ASSUME NEW k \in S PROVE k = r
    <3>1. PICK i \in j..n - 1 : k = OpAt(ob, i)
          BY <1>4
    <3>2. Priority(x[k].op) <= Priority(x[r].op) /\ x[k] = e[k]
          BY <1>5, <3>1, <1>3
    <3>3. CASE i = j
          BY <3>3, <3>1 DEF r
    <3>4. CASE i # j
      <4>1. Priority(e[r].op) < Priority(e[k].op)
            BY <3>1, <3>4, <1>6
      <4>2. Priority(e[r].op) \in 0..2 /\ Priority(e[k].op) \in 0..2
        <5>1. j \in j..n - 1
              BY <1>0
        <5> QED BY <5>1, <3>1, <1>7 DEF r
      <4> QED BY <4>1, <4>2, <3>2, <1>5
    <3> QED BY <3>3, <3>4
  <2> QED BY <2>1, <2>2
<1>9. Abstract!RootOf(x, l, h) = Abstract!Latest(S)
      BY DEF Abstract!RootOf, ops
<1>10. Abstract!Latest({r}) = r
  <2>1. {r} \subseteq 1..Len(x) /\ r \in {r} /\ \A k \in {r} : k <= r
        BY <1>5, <1>1
  <2> HIDE DEF r
  <2> QED BY <2>1, <1>1, LatestIs
<1> QED BY <1>8, <1>9, <1>10 DEF r

\* Its value is that number.
LEMMA ValueOfOne ==
  ASSUME NEW x, Len(x) \in Nat, NEW l \in 1..Len(x)
  PROVE  Abstract!ValueOf(x, l, l) = x[l].val
<1>1. Abstract!RootOf(x, l, l) = 0
      BY RootOfOne
<1> QED BY <1>1, ValueUnfold

\* The value of the innermost bracket, from right to left.
LEMMA ValueAt ==
  ASSUME NEW e, NEW n, NEW ob, Shaped(e, n, ob), NEW b, Starts(ob, n, b),
         NEW x, Extends(x, e)
  PROVE  /\ Abstract!ValueOf(x, NumAt(ob, n), Len(e)) = e[Len(e)].val
         /\ \A j \in b..n - 1 :
              Abstract!ValueOf(x, NumAt(ob, j), Len(e)) =
                Combine(e[OpAt(ob, j)], e[NumAt(ob, j)].val,
                        Abstract!ValueOf(x, NumAt(ob, j + 1), Len(e)))
<1>0. /\ n \in Nat /\ ob \in Levels(n) /\ Len(e) = NumAt(ob, n) /\ b \in 0..n
      /\ Len(e) \in Nat /\ Len(e) >= 1
      /\ Len(x) \in Nat /\ Len(e) <= Len(x) /\ \A p \in 1..Len(e) : x[p] = e[p]
      BY ShapedItems DEF Shaped, Starts, Extends
<1>1. Len(e) \in 1..Len(x) /\ Len(e) \in 1..Len(e)
      BY <1>0
<1>2. Abstract!ValueOf(x, NumAt(ob, n), Len(e)) = e[Len(e)].val
  <2>1. Abstract!ValueOf(x, Len(e), Len(e)) = x[Len(e)].val
        BY <1>0, <1>1, ValueOfOne
  <2> QED BY <2>1, <1>0, <1>1
<1>3. ASSUME NEW j \in b..n - 1
      PROVE  Abstract!ValueOf(x, NumAt(ob, j), Len(e)) =
                Combine(e[OpAt(ob, j)], e[NumAt(ob, j)].val,
                        Abstract!ValueOf(x, NumAt(ob, j + 1), Len(e)))
  <2> DEFINE l == NumAt(ob, j)
             r == OpAt(ob, j)
  <2>1. /\ j \in 0..n - 1 /\ j \in 0..n /\ j + 1 \in 0..n /\ j \in b..n /\ j + 1 \in b..n
        /\ j \in Nat
        BY <1>0
  <2>2. Abstract!RootOf(x, l, Len(e)) = r
        BY RootIs
  <2>3. l \in 1..Len(e) /\ r \in 1..Len(e) /\ NumAt(ob, j + 1) \in 1..Len(e)
        BY <2>1, ShapedItems
  <2>4. r - 1 = l /\ r + 1 = NumAt(ob, j + 1)
    <3>1. ob[j] = ob[n] /\ ob[j + 1] = ob[n] /\ ob[n] \in Nat
          BY <2>1, <1>0, InnerLevels DEF Levels
    <3> QED BY <3>1, <2>1 DEF NumAt, OpAt
  <2> HIDE DEF l, r
  <2>5. l \in 1..Len(x) /\ r \in 1..Len(x) /\ r # 0
        BY <2>3, <1>0
  <2>6. Abstract!ValueOf(x, l, l) = e[l].val
        BY <2>3, <2>5, <1>0, ValueOfOne
  <2>7. x[r] = e[r]
        BY <2>3, <1>0
  <2>8. Abstract!ValueOf(x, l, Len(e)) =
          IF r = 0 THEN x[l].val
          ELSE IF x[r].dropped THEN Abstract!ValueOf(x, l, r - 1)
               ELSE FopBinary(x[r].op, Abstract!ValueOf(x, l, r - 1),
                              Abstract!ValueOf(x, r + 1, Len(e)))
        BY <2>2, <2>5, <1>0, <1>1, ValueUnfold
  <2> QED BY <2>4, <2>5, <2>6, <2>7, <2>8 DEF Combine, l, r
<1> QED BY <1>2, <1>3

-----------------------------------------------------------------------------
(* Changes of an expression that keep its shape                             *)

\* Positions before and behind a cut.
LEMMA CutArithmetic ==
  ASSUME NEW i \in Nat, NEW b \in Nat, NEW x \in Nat, NEW y \in Nat, NEW c \in Nat,
         NEW l \in Nat, i + 1 <= b, x <= y - c, l = 2 * b + 1 + y - c
  PROVE  /\ 2 * i + 1 + x \in 1..l - 1
         /\ 2 * i + 2 + x \in 1..l - 1
OBVIOUS

\* What replacing the end by one number makes of the length.
LEMMA CutLength ==
  ASSUME NEW b \in Nat, NEW y \in Nat, NEW c \in Nat, NEW l, c <= y, l = (2 * b + 1 + y) - c
  PROVE  l \in Nat /\ l >= 1 /\ l = 2 * b + 1 + (y - c) /\ l = 2 * b + 1 + y - c
OBVIOUS

\* f is a prefix of e that ends before its b-th number, or c brackets earlier, and
\* a number behind it.
IsCut(f, e, ob, b, c, ob1) ==
  /\ c \in Nat /\ c <= ob[b]
  /\ b > 0 => c <= ob[b] - ob[b - 1]
  /\ f \in Seq(Item) /\ Len(f) = NumAt(ob, b) - c
  /\ \A p \in 1..Len(f) - 1 : f[p] = e[p]
  /\ f[Len(f)] = Abstract!Num(f[Len(f)].val)
  /\ ob1 \in [0..b -> Nat] /\ ob1[b] = ob[b] - c
  /\ \A i \in 0..b - 1 : ob1[i] = ob[i]

\* Replacing everything from the k-th number on by a number keeps the shape.
LEMMA CutShaped ==
  ASSUME NEW e, NEW n, NEW ob, Shaped(e, n, ob), NEW b \in 0..n, NEW c, NEW f, NEW ob1,
         IsCut(f, e, ob, b, c, ob1)
  PROVE  /\ Shaped(f, b, ob1)
         /\ NumAt(ob1, b) = Len(f)
         /\ \A i \in 0..b - 1 :
              /\ NumAt(ob1, i) = NumAt(ob, i) /\ f[NumAt(ob1, i)] = e[NumAt(ob, i)]
              /\ OpAt(ob1, i) = OpAt(ob, i) /\ f[OpAt(ob1, i)] = e[OpAt(ob, i)]
<1> USE DEF IsCut
<1>0. /\ n \in Nat /\ ob \in Levels(n) /\ e \in Seq(Item) /\ Len(e) = NumAt(ob, n)
      /\ b \in Nat /\ b <= n /\ n \in 0..n
      BY DEF Shaped
<1>1. /\ \A i \in 0..n : ob[i] \in Nat
      /\ \A i, j \in 0..n : i <= j => ob[i] <= ob[j]
      BY <1>0 DEF Levels
<1>2. /\ ob1 \in [0..b -> Nat] /\ ob1[b] = ob[b] - c
      /\ \A i \in 0..b - 1 : i \in 0..n /\ i \in 0..b /\ ob1[i] = ob[i]
      BY <1>0, SMTT(60)
<1>3. \A i \in 0..b - 1 : ob[i] <= ob[b] - c
  <2> SUFFICES ASSUME NEW i \in 0..b - 1 PROVE ob[i] <= ob[b] - c
      OBVIOUS
  <2>1. b > 0 /\ b - 1 \in 0..n /\ i \in 0..n /\ i <= b - 1 /\ b \in 0..n
        BY <1>0
  <2>2. ob[i] <= ob[b - 1] /\ ob[i] \in Nat /\ ob[b - 1] \in Nat /\ ob[b] \in Nat
        BY <2>1, <1>1
  <2>3. c \in Nat /\ c <= ob[b] - ob[b - 1]
        BY <2>1
  <2> HIDE DEF IsCut
  <2> QED BY <2>2, <2>3
<1>4. ob1 \in Levels(b)
  <2> SUFFICES ASSUME NEW i \in 0..b, NEW j \in 0..b, i <= j PROVE ob1[i] <= ob1[j]
      BY <1>2 DEF Levels
  <2>1. CASE j = b /\ i # b
    <3>1. i \in 0..b - 1
          BY <2>1, <1>0
    <3> QED BY <3>1, <2>1, <1>2, <1>3
  <2>2. CASE j = b /\ i = b
        BY <2>2, <1>2
  <2>3. CASE j # b
    <3>1. i \in 0..b - 1 /\ j \in 0..b - 1
          BY <2>3, <1>0
    <3> QED BY <3>1, <1>1, <1>2
  <2> QED BY <2>1, <2>2, <2>3
<1>5. NumAt(ob1, b) = Len(f) /\ Len(f) \in Nat /\ Len(f) = 2 * b + 1 + ob[b] - c
      /\ Len(f) >= 1
  <2>1. ob[b] \in Nat /\ b \in Nat /\ ob1[b] = ob[b] - c
        BY <1>0, <1>1, <1>2
  <2>2. Len(f) = (2 * b + 1 + ob[b]) - c /\ NumAt(ob1, b) = 2 * b + 1 + (ob[b] - c)
        BY <2>1 DEF NumAt
  <2>3. Len(f) \in Nat /\ Len(f) >= 1 /\ Len(f) = 2 * b + 1 + (ob[b] - c)
        /\ Len(f) = 2 * b + 1 + ob[b] - c
        BY <2>1, <2>2, CutLength
  <2> QED BY <2>2, <2>3
<1>6. ASSUME NEW i \in 0..b - 1
      PROVE  /\ NumAt(ob1, i) = NumAt(ob, i) /\ f[NumAt(ob1, i)] = e[NumAt(ob, i)]
             /\ OpAt(ob1, i) = OpAt(ob, i) /\ f[OpAt(ob1, i)] = e[OpAt(ob, i)]
  <2>1. ob1[i] = ob[i] /\ i \in 0..n /\ ob[i] <= ob[b] - c /\ ob[i] \in Nat /\ ob[b] \in Nat
        BY <1>0, <1>1, <1>2, <1>3
  <2>2. NumAt(ob1, i) = NumAt(ob, i) /\ OpAt(ob1, i) = OpAt(ob, i)
        BY <2>1 DEF NumAt, OpAt
  <2>3. NumAt(ob, i) \in 1..Len(f) - 1 /\ OpAt(ob, i) \in 1..Len(f) - 1
    <3>1. i \in Nat /\ b \in Nat /\ i + 1 <= b /\ Len(f) = 2 * b + 1 + ob[b] - c /\ Len(f) \in Nat
          BY <1>0, <1>5, SMTT(60)
    <3>2. NumAt(ob, i) = 2 * i + 1 + ob[i] /\ OpAt(ob, i) = 2 * i + 2 + ob[i]
          BY DEF NumAt, OpAt
    <3>3. ob[i] <= ob[b] - c /\ ob[i] \in Nat /\ ob[b] \in Nat /\ c \in Nat
          BY <2>1
    <3>4. i \in Nat /\ ob[i] \in Nat /\ b \in Nat /\ ob[b] \in Nat /\ Len(f) \in Nat
          /\ i + 1 <= b /\ ob[i] <= ob[b] - c /\ Len(f) = 2 * b + 1 + ob[b] - c
          BY <3>1, <3>3
    <3>5. 2 * i + 1 + ob[i] \in 1..Len(f) - 1 /\ 2 * i + 2 + ob[i] \in 1..Len(f) - 1
      <4> HIDE <2>1, <1>0, <1>5
      <4> QED BY <3>4, CutArithmetic
    <3> QED BY <3>2, <3>5
  <2> QED BY <2>2, <2>3
<1>7. Len(f) <= NumAt(ob, b) /\ NumAt(ob, b) <= Len(e) /\ Len(e) \in Nat /\ NumAt(ob, b) \in Nat
      BY <1>0, <1>5, Positions
<1>8. Shaped(f, b, ob1)
  <2>1. ASSUME NEW i \in 0..b PROVE f[NumAt(ob1, i)] = Abstract!Num(f[NumAt(ob1, i)].val)
    <3>1. CASE i = b
          BY <3>1, <1>5
    <3>2. CASE i # b
      <4>1. i \in 0..b - 1 /\ i \in 0..n
            BY <3>2, <1>0
      <4>2. e[NumAt(ob, i)] = Abstract!Num(e[NumAt(ob, i)].val)
            BY <4>1 DEF Shaped
      <4> QED BY <4>1, <4>2, <1>6
    <3> QED BY <3>1, <3>2
  <2>2. ASSUME NEW i \in 0..b - 1
        PROVE  f[OpAt(ob1, i)].kind = "op" /\ f[OpAt(ob1, i)].op \in BinaryOps
    <3>1. i \in 0..n - 1
          BY <1>0
    <3>2. e[OpAt(ob, i)].kind = "op" /\ e[OpAt(ob, i)].op \in BinaryOps
          BY <3>1 DEF Shaped
    <3> QED BY <3>2, <1>6
  <2>3. ASSUME NEW p \in 1..Len(f)
        PROVE  \/ f[p].kind = "open"
               \/ \E i \in 0..b : p = NumAt(ob1, i)
               \/ \E i \in 0..b - 1 : p = OpAt(ob1, i)
    <3>1. CASE p = Len(f)
      <4>1. NumAt(ob1, b) = p /\ b \in 0..b
            BY <3>1, <1>5, <1>0
      <4> QED BY <4>1
    <3>2. CASE p # Len(f)
      <4>1. p \in 1..Len(f) - 1 /\ p \in 1..Len(e) /\ f[p] = e[p] /\ p < NumAt(ob, b)
        <5>1. p \in 1..Len(f) - 1 /\ p \in 1..Len(e) /\ p < NumAt(ob, b)
              BY <3>2, <1>5, <1>7, SMTT(60)
        <5> QED BY <5>1
      <4>2. ASSUME NEW i \in 0..n, p = NumAt(ob, i) PROVE i \in 0..b - 1
        <5> SUFFICES ASSUME b <= i PROVE FALSE
            BY <1>0
        <5>1. CASE i = b
              BY <5>1, <4>1, <4>2, <1>7
        <5>2. CASE i # b
          <6>1. OpAt(ob, b) < NumAt(ob, i) /\ OpAt(ob, b) = NumAt(ob, b) + 1
                BY <5>2, <1>0, Positions
          <6> QED BY <6>1, <4>1, <4>2, <1>7
        <5> QED BY <5>1, <5>2
      <4>3. ASSUME NEW i \in 0..n - 1, p = OpAt(ob, i) PROVE i \in 0..b - 1
        <5> SUFFICES ASSUME b <= i PROVE FALSE
            BY <1>0
        <5>0. i \in 0..n
              BY <1>0
        <5>1. CASE i = b
          <6>1. OpAt(ob, b) = NumAt(ob, b) + 1
                BY <5>0, <1>0, Positions
          <6>2. p = NumAt(ob, b) + 1 /\ p < NumAt(ob, b)
                BY <5>1, <6>1, <4>1, <4>3
          <6> QED BY <6>2, <1>7
        <5>2. CASE i # b
          <6>0. b < i /\ i \in 0..n /\ b \in 0..n
                BY <5>0, <5>2, <1>0
          <6>1. OpAt(ob, b) < NumAt(ob, i) /\ OpAt(ob, b) = NumAt(ob, b) + 1
                /\ OpAt(ob, i) = NumAt(ob, i) + 1 /\ NumAt(ob, i) \in Nat
                BY <6>0, <1>0, Positions
          <6>2. p = NumAt(ob, i) + 1 /\ p < NumAt(ob, b) /\ NumAt(ob, b) \in Nat
                BY <6>1, <4>1, <4>3, <1>7
          <6> HIDE DEF IsCut
          <6> QED BY <6>1, <6>2
        <5> QED BY <5>1, <5>2
      <4>4. \/ e[p].kind = "open"
            \/ \E i \in 0..n : p = NumAt(ob, i)
            \/ \E i \in 0..n - 1 : p = OpAt(ob, i)
            BY <4>1 DEF Shaped
      <4>5. 0..b - 1 \subseteq 0..b
            BY <1>0
      <4> QED BY <4>1, <4>2, <4>3, <4>4, <4>5, <1>6
    <3> QED BY <3>1, <3>2
  <2>4. ASSUME NEW i \in 0..b - 1, NEW j \in 0..b - 1, i < j, ob1[i] = ob1[j]
        PROVE  Priority(f[OpAt(ob1, i)].op) < Priority(f[OpAt(ob1, j)].op)
    <3>1. i \in 0..n - 1 /\ j \in 0..n - 1 /\ ob[i] = ob[j]
          BY <2>4, <1>0, <1>2
    <3>2. Priority(e[OpAt(ob, i)].op) < Priority(e[OpAt(ob, j)].op)
          BY <2>4, <3>1 DEF Shaped
    <3> QED BY <3>2, <1>6
  <2> QED BY <2>1, <2>2, <2>3, <2>4, <1>0, <1>4, <1>5 DEF Shaped
<1> QED BY <1>5, <1>6, <1>8

\* An operator and a number at the end of e.
IsPushed(g, e, n, ob, cop, ob1) ==
  /\ g \in Seq(Item) /\ Len(g) = Len(e) + 2
  /\ \A p \in 1..Len(e) : g[p] = e[p]
  /\ g[Len(e) + 1] = Abstract!Op(cop)
  /\ g[Len(e) + 2] = Abstract!Num(g[Len(e) + 2].val)
  /\ ob1 \in [0..n + 1 -> Nat] /\ ob1[n + 1] = ob[n]
  /\ \A i \in 0..n : ob1[i] = ob[i]

\* An operator and a number behind it keep the shape.
LEMMA PushShaped ==
  ASSUME NEW e, NEW n, NEW ob, Shaped(e, n, ob), NEW cop \in BinaryOps,
         \A i \in 0..n - 1 : ob[i] = ob[n] => Priority(e[OpAt(ob, i)].op) < Priority(cop),
         NEW g, NEW ob1, IsPushed(g, e, n, ob, cop, ob1)
  PROVE  /\ Shaped(g, n + 1, ob1)
         /\ NumAt(ob1, n + 1) = Len(g) /\ OpAt(ob1, n) = Len(e) + 1
         /\ \A i \in 0..n : NumAt(ob1, i) = NumAt(ob, i)
                            /\ g[NumAt(ob1, i)] = e[NumAt(ob, i)]
         /\ \A i \in 0..n - 1 : OpAt(ob1, i) = OpAt(ob, i)
                                /\ g[OpAt(ob1, i)] = e[OpAt(ob, i)]
<1> USE DEF IsPushed
<1>0. n \in Nat /\ ob \in Levels(n) /\ e \in Seq(Item) /\ Len(e) = NumAt(ob, n) /\ n \in 0..n
      BY DEF Shaped
<1>1. /\ \A i \in 0..n : ob[i] \in Nat
      /\ \A i, j \in 0..n : i <= j => ob[i] <= ob[j]
      BY <1>0 DEF Levels
<1>2. /\ ob1 \in [0..n + 1 -> Nat] /\ ob1[n + 1] = ob[n]
      /\ \A i \in 0..n : ob1[i] = ob[i]
      BY <1>0, <1>1
<1>3. ob1 \in Levels(n + 1)
  <2> SUFFICES ASSUME NEW i \in 0..n + 1, NEW j \in 0..n + 1, i <= j PROVE ob1[i] <= ob1[j]
      BY <1>2 DEF Levels
  <2>1. CASE i = n + 1
        BY <2>1, <1>0, <1>1, <1>2
  <2>2. CASE j = n + 1 /\ i # n + 1
    <3>1. i \in 0..n /\ i <= n
          BY <2>2, <1>0
    <3> QED BY <3>1, <2>2, <1>0, <1>1, <1>2
  <2>3. CASE j # n + 1
    <3>1. i \in 0..n /\ j \in 0..n
          BY <2>3, <1>0
    <3> QED BY <3>1, <1>1, <1>2
  <2> QED BY <2>1, <2>2, <2>3
<1>4. Len(e) = 2 * n + 1 + ob[n] /\ Len(e) \in Nat /\ Len(e) >= 1
      BY <1>0, <1>1 DEF NumAt
<1>5. NumAt(ob1, n + 1) = Len(g) /\ OpAt(ob1, n) = Len(e) + 1
      BY <1>0, <1>1, <1>2, <1>4, SMTT(60) DEF NumAt, OpAt
<1>6. ASSUME NEW i \in 0..n
      PROVE  NumAt(ob1, i) = NumAt(ob, i) /\ g[NumAt(ob1, i)] = e[NumAt(ob, i)]
  <2>1. NumAt(ob, i) \in 1..Len(e)
        BY ShapedItems
  <2>2. NumAt(ob1, i) = NumAt(ob, i)
        BY <1>2 DEF NumAt
  <2> QED BY <2>1, <2>2
<1>7. ASSUME NEW i \in 0..n - 1
      PROVE  OpAt(ob1, i) = OpAt(ob, i) /\ g[OpAt(ob1, i)] = e[OpAt(ob, i)]
  <2>1. OpAt(ob, i) \in 1..Len(e) /\ i \in 0..n
        BY ShapedItems, <1>0
  <2>2. OpAt(ob1, i) = OpAt(ob, i)
        BY <2>1, <1>2 DEF OpAt
  <2> QED BY <2>1, <2>2
<1>8. g[OpAt(ob1, n)] = Abstract!Op(cop) /\ g[OpAt(ob1, n)].kind = "op"
      /\ g[OpAt(ob1, n)].op = cop
      BY <1>5 DEF Abstract!Op
<1>9. Shaped(g, n + 1, ob1)
  <2>1. ASSUME NEW i \in 0..n + 1 PROVE g[NumAt(ob1, i)] = Abstract!Num(g[NumAt(ob1, i)].val)
    <3>1. CASE i = n + 1
          BY <3>1, <1>5
    <3>2. CASE i # n + 1
      <4>1. i \in 0..n
            BY <3>2, <1>0
      <4>2. e[NumAt(ob, i)] = Abstract!Num(e[NumAt(ob, i)].val)
            BY <4>1 DEF Shaped
      <4> QED BY <4>1, <4>2, <1>6
    <3> QED BY <3>1, <3>2
  <2>2. ASSUME NEW i \in 0..(n + 1) - 1
        PROVE  g[OpAt(ob1, i)].kind = "op" /\ g[OpAt(ob1, i)].op \in BinaryOps
    <3>1. CASE i = n
          BY <3>1, <1>8
    <3>2. CASE i # n
      <4>1. i \in 0..n - 1
            BY <3>2, <1>0
      <4>2. e[OpAt(ob, i)].kind = "op" /\ e[OpAt(ob, i)].op \in BinaryOps
            BY <4>1 DEF Shaped
      <4> QED BY <4>1, <4>2, <1>7
    <3> QED BY <3>1, <3>2
  <2>3. ASSUME NEW p \in 1..Len(g)
        PROVE  \/ g[p].kind = "open"
               \/ \E i \in 0..n + 1 : p = NumAt(ob1, i)
               \/ \E i \in 0..(n + 1) - 1 : p = OpAt(ob1, i)
    <3>1. CASE p = Len(e) + 2
          BY <3>1, <1>5, <1>0
    <3>2. CASE p = Len(e) + 1
          BY <3>2, <1>5, <1>0
    <3>3. CASE p # Len(e) + 2 /\ p # Len(e) + 1
      <4>1. p \in 1..Len(e) /\ g[p] = e[p]
            BY <3>3, <1>4
      <4>2. \/ e[p].kind = "open"
            \/ \E i \in 0..n : p = NumAt(ob, i)
            \/ \E i \in 0..n - 1 : p = OpAt(ob, i)
            BY <4>1 DEF Shaped
      <4>3. 0..n \subseteq 0..n + 1 /\ 0..n - 1 \subseteq 0..(n + 1) - 1
            BY <1>0
      <4> QED BY <4>1, <4>2, <4>3, <1>6, <1>7
    <3> QED BY <3>1, <3>2, <3>3
  <2>4. ASSUME NEW i \in 0..(n + 1) - 1, NEW j \in 0..(n + 1) - 1, i < j, ob1[i] = ob1[j]
        PROVE  Priority(g[OpAt(ob1, i)].op) < Priority(g[OpAt(ob1, j)].op)
    <3>0. i \in 0..n - 1 /\ i \in 0..n /\ j \in 0..n
          BY <2>4, <1>0
    <3>1. CASE j = n
      <4>1. ob[i] = ob[n]
            BY <3>0, <3>1, <2>4, <1>2
      <4> QED BY <4>1, <3>0, <3>1, <1>7, <1>8
    <3>2. CASE j # n
      <4>1. j \in 0..n - 1 /\ ob[i] = ob[j]
            BY <3>0, <3>2, <2>4, <1>0, <1>2
      <4>2. Priority(e[OpAt(ob, i)].op) < Priority(e[OpAt(ob, j)].op)
            BY <3>0, <4>1, <2>4 DEF Shaped
      <4> QED BY <4>1, <4>2, <3>0, <1>7
    <3> QED BY <3>1, <3>2
  <2>5. n + 1 \in Nat
        BY <1>0
  <2> QED BY <2>1, <2>2, <2>3, <2>4, <2>5, <1>3, <1>5 DEF Shaped
<1> QED BY <1>5, <1>6, <1>7, <1>9

\* A bracket opened before the last number.
IsOpened(g, e, n, ob, ob1) ==
  /\ g \in Seq(Item) /\ Len(g) = Len(e) + 1
  /\ \A p \in 1..Len(e) - 1 : g[p] = e[p]
  /\ g[Len(e)].kind = "open"
  /\ g[Len(e) + 1] = Abstract!Num(g[Len(e) + 1].val)
  /\ ob1 \in [0..n -> Nat] /\ ob1[n] = ob[n] + 1
  /\ \A i \in 0..n - 1 : ob1[i] = ob[i]

\* So does an open bracket before the last number.
LEMMA OpenShaped ==
  ASSUME NEW e, NEW n, NEW ob, Shaped(e, n, ob), NEW g, NEW ob1, IsOpened(g, e, n, ob, ob1)
  PROVE  /\ Shaped(g, n, ob1)
         /\ NumAt(ob1, n) = Len(g)
         /\ \A i \in 0..n - 1 :
              /\ NumAt(ob1, i) = NumAt(ob, i) /\ g[NumAt(ob1, i)] = e[NumAt(ob, i)]
              /\ OpAt(ob1, i) = OpAt(ob, i) /\ g[OpAt(ob1, i)] = e[OpAt(ob, i)]
<1> USE DEF IsOpened
<1>0. n \in Nat /\ ob \in Levels(n) /\ e \in Seq(Item) /\ Len(e) = NumAt(ob, n) /\ n \in 0..n
      BY DEF Shaped
<1>1. /\ \A i \in 0..n : ob[i] \in Nat
      /\ \A i, j \in 0..n : i <= j => ob[i] <= ob[j]
      BY <1>0 DEF Levels
<1>2. /\ ob1 \in [0..n -> Nat] /\ ob1[n] = ob[n] + 1
      /\ \A i \in 0..n - 1 : i \in 0..n /\ ob1[i] = ob[i]
      BY <1>0, <1>1
<1>3. ob1 \in Levels(n)
  <2> SUFFICES ASSUME NEW i \in 0..n, NEW j \in 0..n, i <= j PROVE ob1[i] <= ob1[j]
      BY <1>2 DEF Levels
  <2>0. ob[i] <= ob[j] /\ ob[i] \in Nat /\ ob[j] \in Nat
        BY <1>1
  <2>1. CASE i = n
    <3>1. j = n
          BY <2>1, <1>0
    <3> QED BY <3>1, <2>1, <1>0, <1>1, <1>2
  <2>2. CASE j = n /\ i # n
    <3>1. i \in 0..n - 1
          BY <2>2, <1>0
    <3> QED BY <3>1, <2>0, <2>2, <1>2
  <2>3. CASE j # n
    <3>1. i \in 0..n - 1 /\ j \in 0..n - 1
          BY <2>3, <1>0, SMTT(60)
    <3> QED BY <3>1, <2>0, <1>2
  <2> QED BY <2>1, <2>2, <2>3
<1>4. Len(e) = 2 * n + 1 + ob[n] /\ Len(e) \in Nat /\ Len(e) >= 1
      BY <1>0, <1>1 DEF NumAt
<1>5. NumAt(ob1, n) = Len(g)
      BY <1>0, <1>1, <1>2, <1>4 DEF NumAt
<1>6. ASSUME NEW i \in 0..n - 1
      PROVE  /\ ob1[i] = ob[i]
             /\ NumAt(ob1, i) = NumAt(ob, i) /\ g[NumAt(ob1, i)] = e[NumAt(ob, i)]
             /\ OpAt(ob1, i) = OpAt(ob, i) /\ g[OpAt(ob1, i)] = e[OpAt(ob, i)]
  <2>0. i \in 0..n
        BY <1>0
  <2>1. /\ OpAt(ob, i) < Len(e) /\ OpAt(ob, i) = NumAt(ob, i) + 1
        /\ NumAt(ob, i) \in 1..Len(e) /\ OpAt(ob, i) \in 1..Len(e)
        BY <2>0, <1>0, Positions, ShapedItems
  <2>2. NumAt(ob1, i) = NumAt(ob, i) /\ OpAt(ob1, i) = OpAt(ob, i)
        BY <1>2 DEF NumAt, OpAt
  <2>3. NumAt(ob, i) \in 1..Len(e) - 1 /\ OpAt(ob, i) \in 1..Len(e) - 1
        BY <2>1, <1>4
  <2> QED BY <2>2, <2>3, <1>2
<1>7. Shaped(g, n, ob1)
  <2>1. ASSUME NEW i \in 0..n PROVE g[NumAt(ob1, i)] = Abstract!Num(g[NumAt(ob1, i)].val)
    <3>1. CASE i = n
          BY <3>1, <1>5
    <3>2. CASE i # n
      <4>1. i \in 0..n - 1
            BY <3>2, <1>0
      <4>2. e[NumAt(ob, i)] = Abstract!Num(e[NumAt(ob, i)].val)
            BY DEF Shaped
      <4> QED BY <4>1, <4>2, <1>6
    <3> QED BY <3>1, <3>2
  <2>2. ASSUME NEW i \in 0..n - 1
        PROVE  g[OpAt(ob1, i)].kind = "op" /\ g[OpAt(ob1, i)].op \in BinaryOps
    <3>1. e[OpAt(ob, i)].kind = "op" /\ e[OpAt(ob, i)].op \in BinaryOps
          BY DEF Shaped
    <3> QED BY <3>1, <1>6
  <2>3. ASSUME NEW p \in 1..Len(g)
        PROVE  \/ g[p].kind = "open"
               \/ \E i \in 0..n : p = NumAt(ob1, i)
               \/ \E i \in 0..n - 1 : p = OpAt(ob1, i)
    <3>1. CASE p = Len(e) + 1
          BY <3>1, <1>5, <1>0
    <3>2. CASE p = Len(e)
          BY <3>2
    <3>3. CASE p # Len(e) + 1 /\ p # Len(e)
      <4>1. p \in 1..Len(e) - 1 /\ p \in 1..Len(e) /\ g[p] = e[p] /\ p # NumAt(ob, n)
            BY <3>3, <1>4, <1>0
      <4>2. \/ e[p].kind = "open"
            \/ \E i \in 0..n : p = NumAt(ob, i)
            \/ \E i \in 0..n - 1 : p = OpAt(ob, i)
            BY <4>1 DEF Shaped
      <4>3. \A i \in 0..n : i # n => i \in 0..n - 1
            BY <1>0
      <4>4. 0..n - 1 \subseteq 0..n
            BY <1>0
      <4> QED BY <4>1, <4>2, <4>3, <4>4, <1>6
    <3> QED BY <3>1, <3>2, <3>3
  <2>4. ASSUME NEW i \in 0..n - 1, NEW j \in 0..n - 1, i < j, ob1[i] = ob1[j]
        PROVE  Priority(g[OpAt(ob1, i)].op) < Priority(g[OpAt(ob1, j)].op)
    <3>1. ob[i] = ob[j]
          BY <2>4, <1>2
    <3>2. Priority(e[OpAt(ob, i)].op) < Priority(e[OpAt(ob, j)].op)
          BY <2>4, <3>1 DEF Shaped
    <3> QED BY <3>2, <1>6
  <2> QED BY <2>1, <2>2, <2>3, <2>4, <1>0, <1>3, <1>5 DEF Shaped
<1> QED BY <1>5, <1>6, <1>7

\* The brackets before the first number left out.
IsTail(g, e, n, ob, ob1) ==
  /\ g \in Seq(Item) /\ Len(g) = Len(e) - ob[0]
  /\ \A p \in 1..Len(g) : g[p] = e[p + ob[0]]
  /\ ob1 \in [0..n -> Nat] /\ \A i \in 0..n : ob1[i] = ob[i] - ob[0]

\* What follows the brackets opened before the first number keeps the shape.
LEMMA TailShaped ==
  ASSUME NEW e, NEW n, NEW ob, Shaped(e, n, ob), NEW g, NEW ob1, IsTail(g, e, n, ob, ob1)
  PROVE  /\ Shaped(g, n, ob1)
         /\ \A i \in 0..n : g[NumAt(ob1, i)] = e[NumAt(ob, i)]
         /\ \A i \in 0..n - 1 : g[OpAt(ob1, i)] = e[OpAt(ob, i)]
<1> USE DEF IsTail
<1> DEFINE c == ob[0]
<1>0. n \in Nat /\ ob \in Levels(n) /\ e \in Seq(Item) /\ Len(e) = NumAt(ob, n)
      /\ n \in 0..n /\ 0 \in 0..n
      BY DEF Shaped
<1>1. /\ \A i \in 0..n : ob[i] \in Nat /\ c <= ob[i]
      /\ \A i, j \in 0..n : i <= j => ob[i] <= ob[j]
      /\ c \in Nat
  <2>1. ob \in [0..n -> Nat] /\ \A i, j \in 0..n : i <= j => ob[i] <= ob[j]
        BY <1>0 DEF Levels
  <2>2. \A i \in 0..n : 0 <= i /\ ob[i] \in Nat
        BY <2>1
  <2> QED BY <2>1, <2>2, <1>0
<1> HIDE DEF c
<1>2. /\ ob1 \in [0..n -> Nat]
      /\ \A i \in 0..n : ob1[i] = ob[i] - c
      BY DEF c
<1>3. ob1 \in Levels(n)
  <2> SUFFICES ASSUME NEW i \in 0..n, NEW j \in 0..n, i <= j PROVE ob1[i] <= ob1[j]
      BY <1>2 DEF Levels
  <2>1. ob[i] <= ob[j] /\ ob[i] \in Nat /\ ob[j] \in Nat
        BY <1>1
  <2> QED BY <2>1, <1>1, <1>2
<1>4. Len(e) = 2 * n + 1 + ob[n] /\ Len(e) \in Nat /\ Len(e) >= 1 /\ ob[n] \in Nat
      BY <1>0, <1>1, SMTT(60) DEF NumAt
<1>5. NumAt(ob1, n) = Len(g) /\ Len(g) \in Nat
      BY <1>0, <1>1, <1>2, <1>4, SMTT(60) DEF NumAt, c
<1>6. ASSUME NEW i \in 0..n
      PROVE  NumAt(ob, i) = NumAt(ob1, i) + c /\ g[NumAt(ob1, i)] = e[NumAt(ob, i)]
             /\ NumAt(ob1, i) \in 1..Len(g)
  <2>1. ob[i] \in Nat /\ c <= ob[i] /\ ob1[i] = ob[i] - c /\ i \in Nat /\ c \in Nat
        BY <1>1, <1>2
  <2>2. NumAt(ob, i) = NumAt(ob1, i) + c /\ NumAt(ob1, i) \in Nat /\ 1 <= NumAt(ob1, i)
        BY <2>1, SMTT(60) DEF NumAt
  <2>3. NumAt(ob, i) <= Len(e)
        BY ShapedItems
  <2>4. NumAt(ob1, i) \in 1..Len(g)
        BY <2>1, <2>2, <2>3, <1>4, <1>5 DEF c
  <2> QED BY <2>2, <2>4 DEF c
<1>7. ASSUME NEW i \in 0..n - 1
      PROVE  OpAt(ob, i) = OpAt(ob1, i) + c /\ g[OpAt(ob1, i)] = e[OpAt(ob, i)]
             /\ OpAt(ob1, i) \in 1..Len(g)
  <2>0. i \in 0..n
        BY <1>0
  <2>1. ob[i] \in Nat /\ c <= ob[i] /\ ob1[i] = ob[i] - c /\ i \in Nat /\ c \in Nat
        BY <2>0, <1>1, <1>2
  <2>2. OpAt(ob, i) = OpAt(ob1, i) + c /\ OpAt(ob1, i) \in Nat /\ 1 <= OpAt(ob1, i)
    <3> HIDE DEF IsTail
    <3> QED BY <2>1 DEF OpAt
  <2>3. OpAt(ob, i) <= Len(e)
        BY ShapedItems
  <2>4. OpAt(ob1, i) \in 1..Len(g)
        BY <2>1, <2>2, <2>3, <1>4, <1>5 DEF c
  <2> QED BY <2>2, <2>4 DEF c
<1>8. Shaped(g, n, ob1)
  <2>1. ASSUME NEW i \in 0..n PROVE g[NumAt(ob1, i)] = Abstract!Num(g[NumAt(ob1, i)].val)
    <3>1. e[NumAt(ob, i)] = Abstract!Num(e[NumAt(ob, i)].val)
          BY DEF Shaped
    <3> QED BY <3>1, <1>6
  <2>2. ASSUME NEW i \in 0..n - 1
        PROVE  g[OpAt(ob1, i)].kind = "op" /\ g[OpAt(ob1, i)].op \in BinaryOps
    <3>1. e[OpAt(ob, i)].kind = "op" /\ e[OpAt(ob, i)].op \in BinaryOps
          BY DEF Shaped
    <3> QED BY <3>1, <1>7
  <2>3. ASSUME NEW p \in 1..Len(g)
        PROVE  \/ g[p].kind = "open"
               \/ \E i \in 0..n : p = NumAt(ob1, i)
               \/ \E i \in 0..n - 1 : p = OpAt(ob1, i)
    <3>1. p + c \in 1..Len(e) /\ g[p] = e[p + c] /\ p \in Nat
      <4>1. p + c \in 1..Len(e) /\ p \in Nat
        <5>1. Len(g) = Len(e) - c
              BY DEF c
        <5>2. Len(e) \in Nat /\ c \in Nat
              BY <1>1, ShapedItems
        <5> QED BY ONLY <5>1, <5>2
      <4>2. g[p] = e[p + c]
            BY DEF c
      <4> QED BY <4>1, <4>2
    <3>2. \/ e[p + c].kind = "open"
          \/ \E i \in 0..n : p + c = NumAt(ob, i)
          \/ \E i \in 0..n - 1 : p + c = OpAt(ob, i)
          BY <3>1 DEF Shaped
    <3>3. ASSUME NEW i \in 0..n, p + c = NumAt(ob, i) PROVE p = NumAt(ob1, i)
          BY <3>3, <3>1, <1>1, <1>6
    <3>4. ASSUME NEW i \in 0..n - 1, p + c = OpAt(ob, i) PROVE p = OpAt(ob1, i)
          BY <3>4, <3>1, <1>1, <1>7
    <3> QED BY <3>1, <3>2, <3>3, <3>4
  <2>4. ASSUME NEW i \in 0..n - 1, NEW j \in 0..n - 1, i < j, ob1[i] = ob1[j]
        PROVE  Priority(g[OpAt(ob1, i)].op) < Priority(g[OpAt(ob1, j)].op)
    <3>1. ob[i] = ob[j]
      <4>1. i \in 0..n /\ j \in 0..n
            BY <1>0
      <4>2. ob[i] \in Nat /\ ob[j] \in Nat /\ ob1[i] = ob[i] - c /\ ob1[j] = ob[j] - c /\ c \in Nat
            BY <4>1, <1>1, <1>2
      <4> QED BY <4>2, <2>4, SMTT(60)
    <3>2. Priority(e[OpAt(ob, i)].op) < Priority(e[OpAt(ob, j)].op)
          BY <2>4, <3>1 DEF Shaped
    <3> QED BY <3>2, <1>7
  <2> QED BY <2>1, <2>2, <2>3, <2>4, <1>0, <1>3, <1>5 DEF Shaped
<1> QED BY <1>6, <1>7, <1>8

\* Nothing changed but whether operators are dropped.
LEMMA SettleShaped ==
  ASSUME NEW e, NEW n, NEW ob, Shaped(e, n, ob),
         NEW g, g \in Seq(Item), Len(g) = Len(e),
         \A p \in 1..Len(e) : /\ g[p].kind = e[p].kind /\ g[p].op = e[p].op
                              /\ e[p].kind # "op" => g[p] = e[p]
  PROVE  Shaped(g, n, ob)
<1>0. /\ n \in Nat /\ ob \in Levels(n) /\ e \in Seq(Item) /\ Len(e) = NumAt(ob, n)
      /\ \A i \in 0..n : NumAt(ob, i) \in 1..Len(e) /\ e[NumAt(ob, i)].kind = "num"
      /\ \A i \in 0..n - 1 : OpAt(ob, i) \in 1..Len(e)
  <2>1. /\ \A i \in 0..n : NumAt(ob, i) \in 1..Len(e) /\ e[NumAt(ob, i)].kind = "num"
        /\ \A i \in 0..n - 1 : OpAt(ob, i) \in 1..Len(e)
        BY ShapedItems
  <2> QED BY <2>1 DEF Shaped
<1>1. \A i \in 0..n : g[NumAt(ob, i)] = Abstract!Num(g[NumAt(ob, i)].val)
  <2> SUFFICES ASSUME NEW i \in 0..n PROVE g[NumAt(ob, i)] = Abstract!Num(g[NumAt(ob, i)].val)
      OBVIOUS
  <2>1. e[NumAt(ob, i)] = Abstract!Num(e[NumAt(ob, i)].val)
        BY DEF Shaped
  <2>2. g[NumAt(ob, i)] = e[NumAt(ob, i)]
        BY <1>0
  <2> QED BY <2>1, <2>2
<1>2. \A i \in 0..n - 1 : /\ g[OpAt(ob, i)].kind = "op" /\ g[OpAt(ob, i)].op \in BinaryOps
                          /\ g[OpAt(ob, i)].op = e[OpAt(ob, i)].op
      BY <1>0 DEF Shaped
<1>3. \A p \in 1..Len(g) : \/ g[p].kind = "open"
                           \/ \E i \in 0..n : p = NumAt(ob, i)
                           \/ \E i \in 0..n - 1 : p = OpAt(ob, i)
  <2> SUFFICES ASSUME NEW p \in 1..Len(g)
               PROVE  \/ g[p].kind = "open"
                      \/ \E i \in 0..n : p = NumAt(ob, i)
                      \/ \E i \in 0..n - 1 : p = OpAt(ob, i)
      OBVIOUS
  <2>1. \/ e[p].kind = "open"
        \/ \E i \in 0..n : p = NumAt(ob, i)
        \/ \E i \in 0..n - 1 : p = OpAt(ob, i)
        BY DEF Shaped
  <2> QED BY <2>1
<1>4. \A i, j \in 0..n - 1 :
        i < j /\ ob[i] = ob[j] => Priority(g[OpAt(ob, i)].op) < Priority(g[OpAt(ob, j)].op)
  <2>1. \A i, j \in 0..n - 1 :
          i < j /\ ob[i] = ob[j] => Priority(e[OpAt(ob, i)].op) < Priority(e[OpAt(ob, j)].op)
        BY DEF Shaped
  <2> QED BY <2>1, <1>2
<1> QED BY <1>0, <1>1, <1>2, <1>3, <1>4 DEF Shaped

-----------------------------------------------------------------------------
(* The values of the right operands.  An operator on the stack binds tighter *)
(* than those before it or is in a later bracket, so its result is the right *)
(* operand of the one before it.                                            *)

IsFold(v, e, n, ob) ==
  /\ v[n] = e[Len(e)].val
  /\ \A j \in 0..n - 1 : v[j] = Combine(e[OpAt(ob, j)], e[NumAt(ob, j)].val, v[j + 1])
  /\ \A j \in 0..n : v[j] \in FVal

\* The values of the right operands exist.
LEMMA FoldExists ==
  ASSUME NEW e, NEW n, NEW ob, Shaped(e, n, ob),
         \A i \in 0..n - 1 : HasFop(e[OpAt(ob, i)].op)
  PROVE  \E v : IsFold(v, e, n, ob)
<1> DEFINE Upto(v, k) ==
             /\ v[n] = e[Len(e)].val
             /\ \A j \in n - k..n - 1 :
                  v[j] = Combine(e[OpAt(ob, j)], e[NumAt(ob, j)].val, v[j + 1])
           S == {k \in Nat : k <= n => \E v \in [0..n -> FVal] : Upto(v, k)}
<1>0. n \in Nat /\ n \in 0..n /\ Len(e) = NumAt(ob, n)
      BY DEF Shaped
<1>1. \A i \in 0..n : e[NumAt(ob, i)].val \in FVal
      BY ShapedItems
<1>2. 0 \in S
  <2> DEFINE v == [i \in 0..n |-> e[NumAt(ob, i)].val]
  <2>1. v \in [0..n -> FVal] /\ v[n] = e[Len(e)].val
        BY <1>0, <1>1
  <2> HIDE DEF v
  <2>2. n - 0..n - 1 = {}
        BY <1>0
  <2>3. Upto(v, 0)
        BY <2>1, <2>2
  <2> HIDE DEF Upto
  <2> QED BY <2>1, <2>3
<1>3. ASSUME NEW k \in Nat, k \in S PROVE k + 1 \in S
  <2> SUFFICES ASSUME k + 1 <= n PROVE \E v \in [0..n -> FVal] : Upto(v, k + 1)
      OBVIOUS
  <2>1. PICK v \in [0..n -> FVal] : Upto(v, k)
        BY <1>3, <1>0
  <2> DEFINE i == n - (k + 1)
             x == Combine(e[OpAt(ob, i)], e[NumAt(ob, i)].val, v[i + 1])
             w == [v EXCEPT ![i] = x]
  <2>2. i \in 0..n - 1 /\ i \in 0..n /\ i + 1 \in 0..n /\ i \in Nat /\ n - k = i + 1 /\ i # n
        BY <1>0
  <2> HIDE DEF i
  <2>3. x \in FVal
    <3>1. HasFop(e[OpAt(ob, i)].op) /\ e[OpAt(ob, i)].op \in BinaryOps
          BY <2>2 DEF Shaped
    <3>2. e[NumAt(ob, i)].val \in FVal /\ v[i + 1] \in FVal
          BY <2>2, <1>1
    <3> QED BY <3>1, <3>2, OperationsClosed DEF Combine
  <2> HIDE DEF x
  <2>4. w \in [0..n -> FVal] /\ w[i] = x /\ \A j \in 0..n : j # i => w[j] = v[j]
        BY <2>2, <2>3
  <2> HIDE DEF w
  <2>5. Upto(w, k + 1)
    <3>1. w[n] = e[Len(e)].val
          BY <2>1, <2>2, <2>4, <1>0
    <3>2. ASSUME NEW j \in n - (k + 1)..n - 1
          PROVE  w[j] = Combine(e[OpAt(ob, j)], e[NumAt(ob, j)].val, w[j + 1])
      <4>1. j \in i..n - 1 /\ j \in 0..n /\ j + 1 \in 0..n /\ j + 1 # i
            BY <2>2, <1>0 DEF i
      <4>2. CASE j = i
            BY <4>2, <4>1, <2>4 DEF x
      <4>3. CASE j # i
        <5>1. j \in n - k..n - 1
              BY <4>1, <4>3, <2>2, <1>0
        <5>2. v[j] = Combine(e[OpAt(ob, j)], e[NumAt(ob, j)].val, v[j + 1])
              BY <5>1, <2>1
        <5> QED BY <5>2, <4>1, <4>3, <2>4
      <4> QED BY <4>2, <4>3
    <3> QED BY <3>1, <3>2
  <2> HIDE DEF Upto
  <2> QED BY <2>4, <2>5
<1>4. n \in S
  <2> HIDE DEF S
  <2> QED BY <1>0, <1>2, <1>3, Induction
<1>5. PICK v \in [0..n -> FVal] : Upto(v, n)
      BY <1>0, <1>4
<1>6. IsFold(v, e, n, ob)
  <2>1. n - n = 0
        BY <1>0
  <2> QED BY <1>5, <2>1 DEF IsFold
<1> QED BY <1>6

\* In the innermost bracket they are the values of its stretches.
LEMMA FoldIsValue ==
  ASSUME NEW e, NEW n, NEW ob, Shaped(e, n, ob), NEW b, Starts(ob, n, b),
         NEW x, Extends(x, e), NEW v, IsFold(v, e, n, ob), NEW j \in b..n
  PROVE  Abstract!ValueOf(x, NumAt(ob, j), Len(e)) = v[j]
<1> DEFINE S == {k \in Nat : k <= n - b =>
                   Abstract!ValueOf(x, NumAt(ob, n - k), Len(e)) = v[n - k]}
<1>0. n \in Nat /\ b \in Nat /\ b <= n /\ Len(e) = NumAt(ob, n)
      BY DEF Shaped, Starts
<1>1. 0 \in S
  <2>1. Abstract!ValueOf(x, NumAt(ob, n), Len(e)) = e[Len(e)].val
        BY ValueAt
  <2>2. v[n] = e[Len(e)].val /\ n - 0 = n
        BY <1>0 DEF IsFold
  <2> QED BY <2>1, <2>2
<1>2. ASSUME NEW k \in Nat, k \in S PROVE k + 1 \in S
  <2> SUFFICES ASSUME k + 1 <= n - b
               PROVE  Abstract!ValueOf(x, NumAt(ob, n - (k + 1)), Len(e)) = v[n - (k + 1)]
      OBVIOUS
  <2> DEFINE i == n - (k + 1)
  <2>1. i \in b..n - 1 /\ i + 1 = n - k /\ i \in 0..n - 1
        BY <1>0
  <2>2. Abstract!ValueOf(x, NumAt(ob, n - k), Len(e)) = v[n - k]
        BY <1>2, <1>0
  <2> HIDE DEF i
  <2>3. Abstract!ValueOf(x, NumAt(ob, i + 1), Len(e)) = v[i + 1]
        BY <2>1, <2>2
  <2>4. Abstract!ValueOf(x, NumAt(ob, i), Len(e)) =
          Combine(e[OpAt(ob, i)], e[NumAt(ob, i)].val,
                  Abstract!ValueOf(x, NumAt(ob, i + 1), Len(e)))
        BY <2>1, ValueAt
  <2>5. v[i] = Combine(e[OpAt(ob, i)], e[NumAt(ob, i)].val, v[i + 1])
        BY <2>1 DEF IsFold
  <2> QED BY <2>3, <2>4, <2>5 DEF i
<1>3. n - j \in Nat /\ n - j <= n - b /\ n - (n - j) = j
      BY <1>0
<1>4. n - j \in S
  <2> HIDE DEF S
  <2> QED BY <1>1, <1>2, <1>3, Induction
<1> QED BY <1>3, <1>4

-----------------------------------------------------------------------------
(* Sequences                                                                *)

\* The value of the innermost bracket from its j-th number on is the j-th of these
\* values.
LEMMA FoldOfAll ==
  ASSUME NEW e, NEW n, NEW ob, Shaped(e, n, ob), NEW b, Starts(ob, n, b),
         NEW v, IsFold(v, e, n, ob), NEW j \in b..n
  PROVE  Abstract!ValueOf(e, NumAt(ob, j), Len(e)) = v[j]
<1>1. Len(e) \in Nat
      BY ShapedItems
<1>2. Extends(e, e)
      BY <1>1 DEF Extends
<1> QED BY <1>2, FoldIsValue

\* Append, item by item.
LEMMA AppendFacts ==
  ASSUME NEW S, NEW s \in Seq(S), NEW x \in S
  PROVE  /\ Append(s, x) \in Seq(S)
         /\ Len(s) \in Nat /\ Len(Append(s, x)) = Len(s) + 1
         /\ \A p \in 1..Len(s) : Append(s, x)[p] = s[p]
         /\ Append(s, x)[Len(s) + 1] = x
OBVIOUS

\* A prefix, item by item.
LEMMA PrefixFacts ==
  ASSUME NEW S, NEW s \in Seq(S), NEW k \in 0..Len(s)
  PROVE  /\ SubSeq(s, 1, k) \in Seq(S)
         /\ Len(SubSeq(s, 1, k)) = k
         /\ \A p \in 1..k : SubSeq(s, 1, k)[p] = s[p]
OBVIOUS

\* A suffix, item by item.
LEMMA TailFacts ==
  ASSUME NEW S, NEW s \in Seq(S), NEW k \in 0..Len(s)
  PROVE  /\ SubSeq(s, k + 1, Len(s)) \in Seq(S)
         /\ Len(SubSeq(s, k + 1, Len(s))) = Len(s) - k
         /\ \A p \in 1..Len(s) - k : SubSeq(s, k + 1, Len(s))[p] = s[p + k]
OBVIOUS

\* Two items appended.
LEMMA PairFacts ==
  ASSUME NEW S, NEW s \in Seq(S), NEW x \in S, NEW y \in S
  PROVE  /\ s \o <<x, y>> \in Seq(S)
         /\ Len(s) \in Nat /\ Len(s \o <<x, y>>) = Len(s) + 2
         /\ \A p \in 1..Len(s) : (s \o <<x, y>>)[p] = s[p]
         /\ (s \o <<x, y>>)[Len(s) + 1] = x
         /\ (s \o <<x, y>>)[Len(s) + 2] = y
OBVIOUS

\* The items that ExprCalc makes.
LEMMA ItemTypes ==
  /\ \A v \in FVal : Abstract!Num(v) \in Item /\ Abstract!Num(v).kind = "num"
                     /\ Abstract!Num(v).val = v
  /\ \A cop \in BinaryOps : Abstract!Op(cop) \in Item /\ Abstract!Op(cop).kind = "op"
                            /\ Abstract!Op(cop).op = cop /\ ~Abstract!Op(cop).dropped
  /\ Abstract!Open \in Item /\ Abstract!Open.kind = "open"
BY InputsAssumption DEF Item, Abstract!Num, Abstract!Op, Abstract!Open

-----------------------------------------------------------------------------
(* An expression that ends with an operator is taken with the value shown    *)
(* behind it, which is that of the number before the operator.              *)

Full(x) == IF Abstract!Dangling(x) THEN Append(x, Abstract!Num(x[Len(x) - 1].val)) ELSE x

ExprShape(x, n, ob) ==
  /\ x \in Seq(Item)
  /\ Shaped(Full(x), n, ob)
  /\ Abstract!Dangling(x) => n > 0 /\ ob[n] = ob[n - 1]

\* An expression and the same with the value shown behind a dangling operator.
LEMMA FullFacts ==
  ASSUME NEW x, NEW n, NEW ob, ExprShape(x, n, ob)
  PROVE  /\ n \in Nat /\ ob \in Levels(n) /\ Len(x) \in Nat /\ Len(x) >= 1
         /\ Len(Full(x)) = NumAt(ob, n)
         /\ \A p \in 1..Len(x) : Full(x)[p] = x[p]
         /\ ~Abstract!Dangling(x) => Full(x) = x /\ x[Len(x)].kind # "op"
         /\ Abstract!Dangling(x) =>
              /\ n - 1 \in 0..n - 1 /\ n - 1 \in Nat
              /\ Len(Full(x)) = Len(x) + 1 /\ x[Len(x)].kind = "op"
              /\ Len(x) = OpAt(ob, n - 1) /\ Len(x) - 1 = NumAt(ob, n - 1)
              /\ Full(x)[Len(Full(x))] = Abstract!Num(Full(x)[NumAt(ob, n - 1)].val)
<1>0. n \in Nat /\ ob \in Levels(n) /\ Full(x) \in Seq(Item) /\ Len(Full(x)) = NumAt(ob, n)
      BY DEF ExprShape, Shaped
<1>1. CASE ~Abstract!Dangling(x)
  <2>1. Full(x) = x
        BY <1>1 DEF Full
  <2>2. Len(Full(x)) \in Nat /\ Len(Full(x)) >= 1
        BY ShapedItems DEF ExprShape
  <2> QED BY <1>0, <1>1, <2>1, <2>2 DEF Abstract!Dangling, Abstract!Last
<1>2. CASE Abstract!Dangling(x)
  <2> DEFINE z == Abstract!Num(x[Len(x) - 1].val)
             T == Item \cup {z}
  <2>1. Full(x) = Append(x, z)
        BY <1>2 DEF Full
  <2>2. x \in Seq(T) /\ z \in T
        BY DEF ExprShape
  <2> HIDE DEF T, z
  <2>3. /\ Len(x) \in Nat /\ Len(Full(x)) = Len(x) + 1
        /\ \A p \in 1..Len(x) : Full(x)[p] = x[p]
        /\ Full(x)[Len(x) + 1] = z
        BY <2>1, <2>2, AppendFacts
  <2>4. /\ n > 0 /\ ob[n] = ob[n - 1] /\ ob[n] \in Nat
        BY <1>0, <1>2 DEF ExprShape, Levels
  <2>5. Len(x) = OpAt(ob, n - 1) /\ Len(x) - 1 = NumAt(ob, n - 1) /\ Len(x) >= 2
    <3>1. n \in Nat /\ Len(x) \in Nat /\ Len(Full(x)) = Len(x) + 1
          BY <1>0, <2>3
    <3>2. Len(Full(x)) = 2 * n + 1 + ob[n]
          BY <1>0 DEF NumAt
    <3>3. OpAt(ob, n - 1) = 2 * (n - 1) + 2 + ob[n] /\ NumAt(ob, n - 1) = 2 * (n - 1) + 1 + ob[n]
          BY <2>4 DEF NumAt, OpAt
    <3> HIDE DEF Full
    <3> QED BY <3>1, <3>2, <3>3, <2>4, SMTT(60)
  <2>6. Len(x) - 1 \in 1..Len(x)
        BY <2>3, <2>5
  <2>7. Full(x)[Len(Full(x))] = Abstract!Num(Full(x)[NumAt(ob, n - 1)].val)
        BY <2>3, <2>5, <2>6 DEF z
  <2> QED BY <1>0, <1>2, <2>3, <2>4, <2>5, <2>7 DEF Abstract!Dangling, Abstract!Last
<1> QED BY <1>1, <1>2

\* x is s and an operator behind it, and the k-th operator of the innermost bracket
\* is the first that binds at least as tight.
IsBehind(x, s, n, ob, b, k) ==
  /\ x \in Seq(Item) /\ Len(x) = Len(s) + 1
  /\ \A p \in 1..Len(s) : x[p] = s[p]
  /\ x[Len(x)].kind = "op"
  /\ k \in b..n
  /\ k > b => Priority(s[OpAt(ob, k - 1)].op) < Priority(x[Len(x)].op)
  /\ \A i \in k..n - 1 : ~(Priority(s[OpAt(ob, i)].op) < Priority(x[Len(x)].op))

\* Its left operand starts with the k-th number.
LEMMA OperandStartIs ==
  ASSUME NEW s, NEW n, NEW ob, Shaped(s, n, ob), NEW b, Starts(ob, n, b),
         NEW x, NEW k, IsBehind(x, s, n, ob, b, k)
  PROVE  Abstract!OperandStart(x) = NumAt(ob, k)
<1> USE DEF IsBehind
<1> DEFINE looser == {i \in Abstract!Ops(x) : Abstract!Inner(x) <= i /\ i < Len(x)
                                /\ Priority(x[i].op) < Priority(x[Len(x)].op)}
<1>0. /\ n \in Nat /\ ob \in Levels(n) /\ Len(s) = NumAt(ob, n) /\ Len(s) \in Nat
      /\ b \in 0..n /\ b \in Nat /\ k \in Nat /\ k \in 0..n
  <2>1. Len(s) \in Nat
        BY ShapedItems
  <2>2. n \in Nat /\ ob \in Levels(n) /\ Len(s) = NumAt(ob, n) /\ b \in 0..n
        BY DEF Shaped, Starts
  <2> QED BY <2>1, <2>2
<1>1. /\ \A i \in b..n : i \in 0..n /\ ob[i] = ob[n]
                         /\ NumAt(ob, i) = 2 * i + 1 + ob[n]
                         /\ OpAt(ob, i) = 2 * i + 2 + ob[n]
      /\ ob[n] \in Nat
  <2>1. ob[n] \in Nat /\ Starts(ob, n, b)
        BY <1>0 DEF Levels
  <2> QED BY <2>1, <1>0, InnerLevels
<1>2. Abstract!Inner(x) = NumAt(ob, b)
  <2>1. Abstract!Opens(x) = Abstract!Opens(s)
        BY <1>0 DEF Abstract!Opens
  <2>2. Abstract!Inner(s) = NumAt(ob, b)
        BY InnerIs
  <2> QED BY <2>1, <2>2 DEF Abstract!Inner
<1>3. ASSUME NEW p \in looser
      PROVE  \E j \in b..k - 1 : p = OpAt(ob, j)
  <2>1. p \in 1..Len(s) /\ s[p].kind = "op" /\ x[p] = s[p] /\ NumAt(ob, b) <= p
        /\ Priority(x[p].op) < Priority(x[Len(x)].op)
        BY <1>0, <1>2 DEF Abstract!Ops
  <2>2. PICK j \in 0..n - 1 : p = OpAt(ob, j)
        BY <2>1, OpsAre
  <2>3. j >= b
    <3> SUFFICES ASSUME j < b PROVE FALSE
        BY <1>0
    <3>1. OpAt(ob, j) < NumAt(ob, b)
          BY <1>0, Positions
    <3>2. OpAt(ob, j) \in 1..Len(s) /\ NumAt(ob, b) \in 1..Len(s)
          BY <1>0, ShapedItems
    <3> QED BY <3>1, <3>2, <2>1, <2>2
  <2>4. j < k
    <3> SUFFICES ASSUME j >= k PROVE FALSE
        BY <1>0
    <3>1. j \in k..n - 1
          BY <1>0
    <3> QED BY <3>1, <2>1, <2>2
  <2> QED BY <2>2, <2>3, <2>4, <1>0
<1>4. CASE k = b
  <2>1. looser = {}
        BY <1>3, <1>4, <1>0
  <2> QED BY <2>1, <1>2, <1>4 DEF Abstract!OperandStart
<1>5. CASE k > b
  <2> DEFINE r == OpAt(ob, k - 1)
  <2>1. k - 1 \in b..n /\ k - 1 \in 0..n - 1 /\ k \in b..n /\ k - 1 \in Nat
        BY <1>0, <1>5
  <2>2. r \in 1..Len(s) /\ s[r].kind = "op" /\ x[r] = s[r]
        BY <2>1, ShapedItems DEF Shaped
  <2>3. r = 2 * (k - 1) + 2 + ob[n] /\ NumAt(ob, b) = 2 * b + 1 + ob[n]
        BY <2>1, <1>0, <1>1, SMTT(60)
  <2>4. NumAt(ob, b) <= r /\ r < Len(x) /\ r \in 1..Len(x)
    <3>1. b + 1 <= k /\ ob[n] \in Nat
          BY <1>0, <1>1, <1>5
    <3> HIDE DEF r
    <3>2. r \in 1..Len(s)
          BY <2>2
    <3>3. NumAt(ob, b) <= r
          BY <3>1, <2>3, <1>0
    <3> QED BY <3>2, <3>3, <1>0
  <2>5. r \in looser
        BY <2>2, <2>4, <1>2, <1>5 DEF Abstract!Ops
  <2>6. ASSUME NEW p \in looser PROVE p <= r
    <3>1. PICK j \in b..k - 1 : p = OpAt(ob, j)
          BY <1>3
    <3>2. j \in b..n /\ j <= k - 1 /\ j \in Nat
          BY <1>0
    <3>3. p = 2 * j + 2 + ob[n]
          BY <3>1, <3>2, <1>1
    <3>4. k \in Nat /\ ob[n] \in Nat
          BY <1>0, <1>1
    <3> HIDE DEF r, looser, IsBehind
    <3> QED BY <3>2, <3>3, <3>4, <2>3
  <2>7. looser \subseteq 1..Len(x) /\ Len(x) \in Nat
        BY <1>0 DEF Abstract!Ops
  <2> HIDE DEF looser, r
  <2>8. Abstract!Latest(looser) = r
        BY <2>5, <2>6, <2>7, LatestIs
  <2>9. Abstract!OperandStart(x) = r + 1
    <3>1. Abstract!OperandStart(x) = IF looser = {} THEN Abstract!Inner(x) ELSE Abstract!Latest(looser) + 1
          BY DEF Abstract!OperandStart, looser
    <3> QED BY <3>1, <2>5, <2>8
  <2>10. NumAt(ob, k) = 2 * k + 1 + ob[n]
        BY <2>1, <1>1
  <2>11. k \in Nat /\ ob[n] \in Nat
        BY <1>0, <1>1
  <2> HIDE DEF IsBehind
  <2> QED BY <2>3, <2>9, <2>10, <2>11
<1> QED BY <1>4, <1>5, <1>0

\* Without the operator it ends with, an expression has the shape of the rest.
IsFront(s, x, n, ob, ob1) ==
  /\ Shaped(s, n - 1, ob1)
  /\ Len(s) + 1 = Len(x)
  /\ \A p \in 1..Len(x) - 1 : s[p] = x[p]
  /\ \A i \in 0..n - 1 : NumAt(ob1, i) = NumAt(ob, i)
                         /\ s[NumAt(ob1, i)] = Full(x)[NumAt(ob, i)]
  /\ \A i \in 0..n - 2 : OpAt(ob1, i) = OpAt(ob, i)
                         /\ s[OpAt(ob1, i)] = Full(x)[OpAt(ob, i)]

\* Without its dangling operator an expression ends with the number before it.
LEMMA FrontShaped ==
  ASSUME NEW x, NEW n, NEW ob, ExprShape(x, n, ob), Abstract!Dangling(x),
         NEW ob1 \in [0..n - 1 -> Nat], \A i \in 0..n - 1 : ob1[i] = ob[i]
  PROVE  IsFront(Abstract!Front(x), x, n, ob, ob1)
<1> DEFINE b   == n - 1
           s   == Abstract!Front(x)
           y   == Full(x)
<1>1. /\ n \in Nat /\ ob \in Levels(n) /\ Len(x) \in Nat /\ Len(x) >= 1
      /\ n - 1 \in 0..n - 1 /\ n - 1 \in Nat /\ n - 1 \in 0..n
      /\ Len(y) = Len(x) + 1 /\ Len(x) - 1 = NumAt(ob, n - 1)
      /\ \A p \in 1..Len(x) : y[p] = x[p]
  <2>1. /\ n \in Nat /\ ob \in Levels(n) /\ Len(x) \in Nat /\ Len(x) >= 1
        /\ n - 1 \in 0..n - 1 /\ n - 1 \in Nat
        /\ Len(y) = Len(x) + 1 /\ Len(x) - 1 = NumAt(ob, n - 1)
        /\ \A p \in 1..Len(x) : y[p] = x[p]
        BY FullFacts
  <2> HIDE DEF y
  <2> QED BY <2>1
<1>2. x \in Seq(Item) /\ Shaped(y, n, ob)
      BY DEF ExprShape
<1> HIDE DEF y
<1>3. /\ s \in Seq(Item) /\ Len(s) = Len(x) - 1
      /\ \A p \in 1..Len(s) : s[p] = x[p]
  <2>1. Len(x) - 1 \in 0..Len(x)
        BY <1>1
  <2>2. s = SubSeq(x, 1, Len(x) - 1)
        BY DEF Abstract!Front
  <2> HIDE DEF s
  <2> QED BY <1>2, <2>1, <2>2, PrefixFacts
<1> HIDE DEF s
<1>4. /\ Len(s) = NumAt(ob, b) - 0 /\ \A p \in 1..Len(s) - 1 : s[p] = y[p]
      /\ s[Len(s)] = Abstract!Num(s[Len(s)].val)
  <2>1. Len(s) = NumAt(ob, b) /\ Len(s) \in Nat
        BY <1>1, <1>3
  <2>2. Len(s) \in 1..Len(y) /\ Len(s) \in 1..Len(s)
    <3>1. NumAt(ob, b) \in 1..Len(y)
          BY <1>1, <1>2, ShapedItems
    <3> QED BY <3>1, <2>1
  <2>3. s[Len(s)] = y[Len(s)]
        BY <2>2, <1>1, <1>3
  <2>4. y[NumAt(ob, b)] = Abstract!Num(y[NumAt(ob, b)].val)
        BY <1>1, <1>2 DEF Shaped
  <2>5. \A p \in 1..Len(s) - 1 : s[p] = y[p]
        BY <1>1, <1>3, <2>1, SMTT(60)
  <2> QED BY <2>1, <2>3, <2>4, <2>5
<1>5. 0 <= ob[b] /\ (b > 0 => 0 <= ob[b] - ob[b - 1]) /\ ob[b] \in Nat
  <2>1. ob[b] \in Nat
        BY <1>1 DEF Levels
  <2>2. ASSUME b > 0 PROVE 0 <= ob[b] - ob[b - 1]
    <3>1. b - 1 \in 0..n /\ b \in 0..n /\ b - 1 <= b
          BY <1>1, <2>2
    <3>2. ob[b - 1] <= ob[b] /\ ob[b - 1] \in Nat
          BY <3>1, <1>1 DEF Levels
    <3> QED BY <3>2, <2>1
  <2> QED BY <2>1, <2>2
<1>6. /\ Shaped(s, b, ob1)
      /\ NumAt(ob1, b) = Len(s)
      /\ \A i \in 0..b - 1 :
           /\ NumAt(ob1, i) = NumAt(ob, i) /\ s[NumAt(ob1, i)] = y[NumAt(ob, i)]
           /\ OpAt(ob1, i) = OpAt(ob, i) /\ s[OpAt(ob1, i)] = y[OpAt(ob, i)]
  <2>1. b \in 0..n /\ 0 \in Nat /\ ob1 \in [0..b -> Nat]
        BY <1>1
  <2>2. ob1[b] = ob[b] - 0 /\ \A i \in 0..b - 1 : ob1[i] = ob[i]
        BY <1>1, <1>5
  <2> HIDE DEF b
  <2>3. IsCut(s, y, ob, b, 0, ob1)
        BY <2>1, <2>2, <1>3, <1>4, <1>5 DEF IsCut
  <2> QED BY <2>1, <2>3, <1>2, CutShaped
<1>8. ASSUME NEW i \in 0..n - 1
      PROVE  NumAt(ob1, i) = NumAt(ob, i) /\ s[NumAt(ob1, i)] = y[NumAt(ob, i)]
  <2>0. ob1[i] = ob[i]
        OBVIOUS
  <2>1. NumAt(ob1, i) = NumAt(ob, i)
        BY <2>0 DEF NumAt
  <2>2. NumAt(ob, i) \in 1..Len(s)
    <3>0. i \in 0..n
          BY <1>1
    <3>1. i \in 0..n /\ NumAt(ob, i) \in 1..Len(y)
          BY <3>0, <1>2, ShapedItems
    <3>2. NumAt(ob, i) <= NumAt(ob, n - 1)
      <4>1. CASE i = n - 1
            BY <4>1, <3>1, <1>1
      <4>2. CASE i # n - 1
        <5>1. i < n - 1 /\ OpAt(ob, i) < NumAt(ob, n - 1) /\ OpAt(ob, i) = NumAt(ob, i) + 1
              BY <4>2, <3>1, <1>1, Positions
        <5>2. NumAt(ob, i) \in Nat /\ NumAt(ob, n - 1) \in Nat
              BY <3>1, <1>1, Positions
        <5> QED BY <5>1, <5>2
      <4> QED BY <4>1, <4>2
    <3> QED BY <3>1, <3>2, <1>1, <1>3
  <2>3. NumAt(ob, i) \in 1..Len(x)
        BY <2>2, <1>1, <1>3
  <2> QED BY <2>1, <2>2, <2>3, <1>1, <1>3
<1>9. \A i \in 0..n - 2 : OpAt(ob1, i) = OpAt(ob, i) /\ s[OpAt(ob1, i)] = y[OpAt(ob, i)]
  <2>1. b - 1 = n - 2
        BY <1>1
  <2> QED BY <2>1, <1>6
<1>10. Shaped(s, n - 1, ob1) /\ Len(s) + 1 = Len(x)
       BY <1>1, <1>3, <1>6
<1>11. \A p \in 1..Len(x) - 1 : s[p] = x[p]
       BY <1>3
<1> QED BY <1>8, <1>9, <1>10, <1>11 DEF IsFront, y, s

\* The display is the last number of the full expression.
LEMMA DisplayIs ==
  ASSUME NEW x, NEW n, NEW ob, ExprShape(x, n, ob)
  PROVE  Abstract!Display(x) = Full(x)[Len(Full(x))].val
<1>1. CASE ~Abstract!Dangling(x)
  <2>1. Full(x) = x
        BY <1>1, FullFacts
  <2> QED BY <1>1, <2>1 DEF Abstract!Display, Abstract!Last
<1>2. CASE Abstract!Dangling(x)
  <2> DEFINE s   == Abstract!Front(x)
             k   == n - 1
             ob1 == [i \in 0..n - 1 |-> ob[i]]
  <2>1. /\ Shaped(s, k, ob1)
        /\ Len(s) + 1 = Len(x)
        /\ \A p \in 1..Len(s) : s[p] = x[p]
        /\ NumAt(ob1, k) = NumAt(ob, k)
        /\ \A i \in 0..n - 2 : s[OpAt(ob1, i)] = Full(x)[OpAt(ob, i)]
    <3>1. n - 1 \in 0..n - 1 /\ n \in Nat /\ ob \in Levels(n)
          BY <1>2, FullFacts
    <3>2. ob1 \in [0..n - 1 -> Nat] /\ \A i \in 0..n - 1 : ob1[i] = ob[i]
          BY <3>1 DEF Levels
    <3> HIDE DEF ob1
    <3>3. IsFront(s, x, n, ob, ob1)
          BY <3>2, <1>2, FrontShaped
    <3>4. /\ Shaped(s, n - 1, ob1)
          /\ Len(s) + 1 = Len(x)
          /\ \A p \in 1..Len(x) - 1 : s[p] = x[p]
          /\ \A i \in 0..n - 1 : NumAt(ob1, i) = NumAt(ob, i)
          /\ \A i \in 0..n - 2 : s[OpAt(ob1, i)] = Full(x)[OpAt(ob, i)]
      <4> HIDE DEF s
      <4> QED BY <3>3 DEF IsFront
    <3>5. \A p \in 1..Len(s) : s[p] = x[p]
      <4>1. Len(s) = Len(x) - 1
        <5>1. Len(x) \in Nat /\ Len(s) \in Nat
              BY <3>4, FullFacts, ShapedItems
        <5> QED BY <5>1, <3>4
      <4> QED BY <3>4, <4>1
    <3> QED BY <3>1, <3>4, <3>5
  <2>2. /\ n \in Nat /\ k \in Nat /\ Len(x) \in Nat /\ Len(Full(x)) = Len(x) + 1
        /\ x[Len(x)].kind = "op" /\ Len(x) = OpAt(ob, k) /\ Len(x) - 1 = NumAt(ob, k)
        /\ Full(x)[Len(Full(x))] = Abstract!Num(Full(x)[NumAt(ob, k)].val)
        /\ \A p \in 1..Len(x) : Full(x)[p] = x[p]
        BY <1>2, FullFacts
  <2>3. x \in Seq(Item) /\ Shaped(Full(x), n, ob) /\ Len(x) >= 1
        BY FullFacts DEF ExprShape
  <2>4. ob1 \in Levels(k) /\ k \in 0..n - 1
        BY <2>1, <2>2 DEF Shaped
  <2> HIDE DEF s, k
  <2>5. PICK b : Starts(ob1, k, b)
        BY <2>2, <2>4, StartExists
  <2>6. k > b => Priority(s[OpAt(ob1, k - 1)].op) < Priority(x[Len(x)].op)
    <3> SUFFICES ASSUME k > b
                 PROVE  Priority(s[OpAt(ob1, k - 1)].op) < Priority(x[Len(x)].op)
        OBVIOUS
    <3>1. b \in 0..k /\ ob1[b] = ob1[k]
          BY <2>5 DEF Starts
    <3>2. k - 1 \in 0..n - 1 /\ k - 1 \in 0..n - 2 /\ k - 1 < k /\ k - 1 \in 0..k
          /\ k \in 0..k /\ k - 1 \in b..k
          BY <3>1, <2>2, <2>4 DEF k
    <3>3. ob1[k - 1] = ob1[k]
          BY <3>2, <2>2, <2>4, <2>5, InnerLevels, ZenonT(60)
    <3>4. ob[k - 1] = ob[k]
          BY <3>2, <3>3, <2>4
    <3>5. Priority(Full(x)[OpAt(ob, k - 1)].op) < Priority(Full(x)[OpAt(ob, k)].op)
          BY <3>2, <3>4, <2>3, <2>4 DEF Shaped
    <3>6. Full(x)[OpAt(ob, k)] = x[Len(x)]
          BY <2>2, <2>3
    <3> QED BY <3>2, <3>5, <3>6, <2>1
  <2>7. Abstract!OperandStart(x) = NumAt(ob1, k)
    <3>1. k \in b..k /\ k..k - 1 = {}
      <4>1. b \in 0..k
            BY <2>5 DEF Starts
      <4> QED BY <4>1, <2>2
    <3>2. Len(x) = Len(s) + 1
          BY <2>1
    <3>3. \A i \in k..k - 1 : ~(Priority(s[OpAt(ob1, i)].op) < Priority(x[Len(x)].op))
          BY <3>1
    <3> HIDE DEF ob1
    <3>4. /\ Shaped(s, k, ob1) /\ \A p \in 1..Len(s) : x[p] = s[p]
          /\ x \in Seq(Item) /\ x[Len(x)].kind = "op" /\ k \in b..k
          BY <3>1, <2>1, <2>2, <2>3
    <3>5. IsBehind(x, s, k, ob1, b, k)
          BY <3>2, <3>3, <3>4, <2>6 DEF IsBehind
    <3> QED BY <3>4, <3>5, <2>5, OperandStartIs
  <2>8. Abstract!Display(x) = Abstract!ValueOf(x, Len(x) - 1, Len(x) - 1)
        BY <1>2, <2>1, <2>2, <2>7 DEF Abstract!Display
  <2>9. Len(x) - 1 \in 1..Len(x)
    <3>1. NumAt(ob, k) \in Nat /\ 1 <= NumAt(ob, k)
      <4>1. k \in 0..n /\ ob \in Levels(n)
            BY <2>2, <2>4, FullFacts
      <4> QED BY <4>1, <2>2, Positions
    <3> QED BY <3>1, <2>2
  <2>10. Abstract!Display(x) = x[Len(x) - 1].val
        BY <2>2, <2>8, <2>9, ValueOfOne
  <2>11. Full(x)[Len(Full(x))].val = Full(x)[NumAt(ob, k)].val
    <3>1. \A v : Abstract!Num(v).val = v
          BY DEF Abstract!Num
    <3> QED BY <3>1, <2>2
  <2> QED BY <2>2, <2>9, <2>10, <2>11
<1> QED BY <1>1, <1>2

\* Settling adds that number and marks the operator dropped or not.
LEMMA SettledIs ==
  ASSUME NEW x, NEW n, NEW ob, ExprShape(x, n, ob), allow_repeated_equals \in BOOLEAN
  PROVE  LET s == Abstract!Settled(x)
             y == Full(x)
         IN  /\ Shaped(s, n, ob)
             /\ \A i \in 0..n : s[NumAt(ob, i)] = y[NumAt(ob, i)]
             /\ \A i \in 0..n - 1 :
                  /\ s[OpAt(ob, i)].op = y[OpAt(ob, i)].op
                  /\ s[OpAt(ob, i)].dropped =
                       IF Abstract!Dangling(x) /\ i = n - 1 THEN ~allow_repeated_equals
                       ELSE y[OpAt(ob, i)].dropped
<1> DEFINE s == Abstract!Settled(x)
           y == Full(x)
           v == Abstract!Display(x)
           it == [Abstract!Last(x) EXCEPT !.dropped = ~allow_repeated_equals]
<1>0. Shaped(y, n, ob) /\ x \in Seq(Item)
      BY DEF ExprShape
<1>1. CASE ~Abstract!Dangling(x)
  <2>1. Full(x) = x /\ Abstract!Settled(x) = x
        BY <1>1, FullFacts DEF Abstract!Settled
  <2> QED BY <1>0, <1>1, <2>1
<1>2. CASE Abstract!Dangling(x)
  <2>1. /\ n \in Nat /\ n - 1 \in 0..n - 1 /\ Len(x) \in Nat /\ Len(x) >= 1
        /\ Len(y) = Len(x) + 1 /\ x[Len(x)].kind = "op"
        /\ Len(x) = OpAt(ob, n - 1) /\ Len(y) = NumAt(ob, n) /\ n \in 0..n
        /\ \A p \in 1..Len(x) : y[p] = x[p]
    <3>1. /\ n \in Nat /\ n - 1 \in 0..n - 1 /\ Len(x) \in Nat /\ Len(x) >= 1
          /\ Len(y) = Len(x) + 1 /\ x[Len(x)].kind = "op"
          /\ Len(x) = OpAt(ob, n - 1) /\ Len(y) = NumAt(ob, n)
          /\ \A p \in 1..Len(x) : y[p] = x[p]
          BY <1>2, FullFacts
    <3> HIDE DEF y
    <3> QED BY <3>1
  <2>2. v = y[Len(y)].val
        BY DisplayIs
  <2>3. v \in FVal /\ y[Len(y)] = Abstract!Num(v)
    <3>1. y[NumAt(ob, n)].val \in FVal /\ y[NumAt(ob, n)] = Abstract!Num(y[NumAt(ob, n)].val)
      <4>1. y[NumAt(ob, n)].val \in FVal
            BY <1>0, <2>1, ShapedItems
      <4>2. y[NumAt(ob, n)] = Abstract!Num(y[NumAt(ob, n)].val)
            BY <1>0, <2>1 DEF Shaped
      <4> QED BY <4>1, <4>2
    <3> QED BY <3>1, <2>1, <2>2
  <2>4. s = Abstract!Front(x) \o <<it, Abstract!Num(v)>>
        BY <1>2 DEF Abstract!Settled
  <2> HIDE DEF y, v, s
  <2>5. /\ it \in Item /\ it.kind = "op" /\ it.op = x[Len(x)].op
        /\ it.dropped = ~allow_repeated_equals
    <3>1. x[Len(x)] \in Item
          BY <1>0, <2>1
    <3> QED BY <3>1, <2>1 DEF Item, Abstract!Last
  <2> HIDE DEF it
  <2>6. /\ s \in Seq(Item) /\ Len(s) = Len(y) /\ s[Len(x)] = it /\ s[Len(y)] = Abstract!Num(v)
        /\ \A p \in 1..Len(x) - 1 : s[p] = x[p]
    <3> DEFINE f == Abstract!Front(x)
    <3>1. /\ f \in Seq(Item) /\ Len(f) = Len(x) - 1
          /\ \A p \in 1..Len(x) - 1 : f[p] = x[p]
      <4>1. Len(x) - 1 \in 0..Len(x)
            BY <2>1
      <4> QED BY <1>0, <4>1, PrefixFacts DEF Abstract!Front
    <3> HIDE DEF f
    <3>2. Abstract!Num(v) \in Item
          BY <2>3, ItemTypes
    <3>3. /\ s \in Seq(Item) /\ Len(s) = Len(f) + 2 /\ Len(f) \in Nat
          /\ \A p \in 1..Len(f) : s[p] = f[p]
          /\ s[Len(f) + 1] = it /\ s[Len(f) + 2] = Abstract!Num(v)
      <4>1. s = f \o <<it, Abstract!Num(v)>>
            BY <2>4 DEF f
      <4> QED BY <3>1, <3>2, <2>5, <4>1, PairFacts
    <3>4. Len(f) + 1 = Len(x) /\ Len(f) + 2 = Len(y)
          BY <3>1, <3>3, <2>1, SMTT(60)
    <3> QED BY <3>1, <3>3, <3>4
  <2>7. \A p \in 1..Len(y) : /\ s[p].kind = y[p].kind /\ s[p].op = y[p].op
                             /\ p # Len(x) => s[p] = y[p]
    <3> SUFFICES ASSUME NEW p \in 1..Len(y)
                 PROVE  /\ s[p].kind = y[p].kind /\ s[p].op = y[p].op
                        /\ p # Len(x) => s[p] = y[p]
        OBVIOUS
    <3>1. CASE p = Len(x)
      <4>1. p \in 1..Len(x)
            BY <3>1, <2>1
      <4> QED BY <3>1, <4>1, <2>1, <2>5, <2>6
    <3>2. CASE p = Len(y)
          BY <3>2, <2>3, <2>6
    <3>3. CASE p # Len(x) /\ p # Len(y)
      <4>1. p \in 1..Len(x) - 1 /\ p \in 1..Len(x)
            BY <3>3, <2>1
      <4> QED BY <4>1, <2>1, <2>6
    <3> QED BY <3>1, <3>2, <3>3
  <2>8. Shaped(s, n, ob)
    <3>1. \A p \in 1..Len(y) : /\ s[p].kind = y[p].kind /\ s[p].op = y[p].op
                               /\ y[p].kind # "op" => s[p] = y[p]
      <4>1. Len(x) \in 1..Len(x)
            BY <2>1
      <4>2. y[Len(x)].kind = "op"
            BY <4>1, <2>1
      <4> QED BY <4>2, <2>7
    <3> QED BY <3>1, <1>0, <2>6, SettleShaped
  <2>9. ASSUME NEW i \in 0..n PROVE s[NumAt(ob, i)] = y[NumAt(ob, i)]
    <3>1. NumAt(ob, i) \in 1..Len(y) /\ y[NumAt(ob, i)].kind = "num"
          BY <1>0, ShapedItems
    <3>2. NumAt(ob, i) # Len(x)
      <4>1. Len(x) \in 1..Len(x)
            BY <2>1
      <4>2. y[Len(x)].kind = "op"
            BY <4>1, <2>1
      <4> QED BY <3>1, <4>2
    <3> QED BY <3>1, <3>2, <2>7
  <2>10. ASSUME NEW i \in 0..n - 1
         PROVE  /\ s[OpAt(ob, i)].op = y[OpAt(ob, i)].op
                /\ s[OpAt(ob, i)].dropped =
                     IF i = n - 1 THEN ~allow_repeated_equals ELSE y[OpAt(ob, i)].dropped
    <3>1. OpAt(ob, i) \in 1..Len(y)
          BY <1>0, ShapedItems
    <3>2. CASE i = n - 1
          BY <3>1, <3>2, <2>1, <2>5, <2>6, <2>7
    <3>3. CASE i # n - 1
      <4>1. OpAt(ob, i) # Len(x)
        <5>1. i \in 0..n /\ n - 1 \in 0..n /\ i < n - 1 /\ ob \in Levels(n)
              BY <3>3, <2>1, <1>0 DEF Shaped
        <5>2. OpAt(ob, i) < NumAt(ob, n - 1) /\ OpAt(ob, n - 1) = NumAt(ob, n - 1) + 1
              /\ NumAt(ob, n - 1) \in Nat
              BY <5>1, <2>1, Positions
        <5> QED BY <5>2, <3>1, <2>1
      <4> QED BY <3>1, <3>3, <4>1, <2>7
    <3> QED BY <3>2, <3>3
  <2> QED BY <2>8, <2>9, <2>10, <1>2 DEF s, y
<1> QED BY <1>1, <1>2

-----------------------------------------------------------------------------
(* Brackets closed                                                          *)

\* f is e with everything from the k-th number on replaced by its value.
Reduces(f, k, ok, e, n, ob, v) ==
  /\ k \in 0..n /\ Shaped(f, k, ok) /\ IsFold(v, f, k, ok)
  /\ \A i \in 0..k - 1 : /\ ok[i] = ob[i]
                         /\ f[NumAt(ok, i)] = e[NumAt(ob, i)]
                         /\ f[OpAt(ok, i)] = e[OpAt(ob, i)]

\* Replacing the end by its value twice is replacing it once.
LEMMA ReducesTransitive ==
  ASSUME NEW e, NEW n \in Nat, NEW ob, NEW v, NEW f, NEW k, NEW ok, NEW g, NEW l, NEW ol,
         Reduces(f, k, ok, e, n, ob, v), Reduces(g, l, ol, f, k, ok, v)
  PROVE  Reduces(g, l, ol, e, n, ob, v)
<1>1. k \in 0..n /\ l \in 0..k /\ Shaped(g, l, ol) /\ IsFold(v, g, l, ol)
      BY DEF Reduces
<1>2. l \in 0..n /\ 0..l - 1 \subseteq 0..k - 1
      BY <1>1
<1>3. \A i \in 0..l - 1 : /\ ol[i] = ob[i]
                          /\ g[NumAt(ol, i)] = e[NumAt(ob, i)]
                          /\ g[OpAt(ol, i)] = e[OpAt(ob, i)]
      BY <1>2 DEF Reduces
<1> QED BY <1>1, <1>2, <1>3 DEF Reduces

\* The expression itself, if its last number is the value.
LEMMA ReducesSame ==
  ASSUME NEW e, NEW n, NEW ob, NEW v, Shaped(e, n, ob), IsFold(v, e, n, ob)
  PROVE  Reduces(e, n, ob, e, n, ob, v)
<1>1. n \in 0..n
      BY DEF Shaped
<1> QED BY <1>1 DEF Reduces

\* Cutting at the k-th number is such a replacement.
LEMMA CutReduces ==
  ASSUME NEW e, NEW n, NEW ob, Shaped(e, n, ob), NEW b \in 0..n, NEW c \in Nat,
         c <= ob[b], b > 0 => c <= ob[b] - ob[b - 1],
         NEW v, IsFold(v, e, n, ob),
         NEW f, f \in Seq(Item), Len(f) = NumAt(ob, b) - c,
         \A p \in 1..Len(f) - 1 : f[p] = e[p],
         f[Len(f)] = Abstract!Num(v[b]),
         NEW ok \in [0..b -> Nat], ok[b] = ob[b] - c, \A i \in 0..b - 1 : ok[i] = ob[i]
  PROVE  Reduces(f, b, ok, e, n, ob, v)
<1>0. \A x : Abstract!Num(x).val = x
      BY DEF Abstract!Num
<1>1. f[Len(f)] = Abstract!Num(f[Len(f)].val) /\ f[Len(f)].val = v[b]
      BY <1>0
<1>2. /\ Shaped(f, b, ok)
      /\ NumAt(ok, b) = Len(f)
      /\ \A i \in 0..b - 1 :
           /\ NumAt(ok, i) = NumAt(ob, i) /\ f[NumAt(ok, i)] = e[NumAt(ob, i)]
           /\ OpAt(ok, i) = OpAt(ob, i) /\ f[OpAt(ok, i)] = e[OpAt(ob, i)]
  <2>1. IsCut(f, e, ob, b, c, ok)
        BY <1>1 DEF IsCut
  <2> QED BY <2>1, CutShaped, SMTT(60)
<1>3. IsFold(v, f, b, ok)
  <2>1. n \in Nat
        BY DEF Shaped
  <2>2. ASSUME NEW j \in 0..b - 1
        PROVE  v[j] = Combine(f[OpAt(ok, j)], f[NumAt(ok, j)].val, v[j + 1])
    <3>1. j \in 0..n - 1
          BY <2>1
    <3>2. v[j] = Combine(e[OpAt(ob, j)], e[NumAt(ob, j)].val, v[j + 1])
          BY <3>1 DEF IsFold
    <3> QED BY <3>2, <1>2
  <2>3. \A j \in 0..b : v[j] \in FVal
    <3>1. \A j \in 0..b : j \in 0..n
          BY <2>1
    <3> QED BY <3>1 DEF IsFold
  <2> QED BY <2>2, <2>3, <1>1 DEF IsFold
<1> QED BY <1>2, <1>3 DEF Reduces

\* Closing the innermost bracket is such a replacement.
LEMMA ClosedReduces ==
  ASSUME NEW e, NEW n, NEW ob, Shaped(e, n, ob), NEW b, Starts(ob, n, b), ob[n] > 0,
         NEW v, IsFold(v, e, n, ob),
         NEW ok \in [0..b -> Nat], ok[b] = ob[n] - 1, \A i \in 0..b - 1 : ok[i] = ob[i]
  PROVE  Reduces(Abstract!Closed(e), b, ok, e, n, ob, v)
<1> DEFINE f == Abstract!Closed(e)
           l == NumAt(ob, b) - 2
<1>1. /\ n \in Nat /\ ob \in Levels(n) /\ e \in Seq(Item) /\ b \in 0..n /\ b \in Nat
      /\ ob[b] = ob[n]
      /\ b > 0 => ob[b - 1] < ob[n]
      BY DEF Shaped, Starts
<1>2. /\ ob[n] \in Nat /\ ob[b] \in Nat
      /\ b > 0 => b - 1 \in 0..n /\ ob[b - 1] \in Nat
  <2>1. b > 0 => b - 1 \in 0..n
        BY <1>1
  <2>2. n \in 0..n /\ ob \in [0..n -> Nat]
        BY <1>1 DEF Levels
  <2> QED BY <2>1, <2>2, <1>1
<1>3. Abstract!Inner(e) = NumAt(ob, b)
      BY InnerIs
<1>4. Abstract!ValueOf(e, NumAt(ob, b), Len(e)) = v[b]
  <2>1. b \in b..n
        BY <1>1
  <2> QED BY <2>1, FoldOfAll
<1>5. v[b] \in FVal /\ Abstract!Num(v[b]) \in Item
  <2>1. v[b] \in FVal
        BY <1>1 DEF IsFold
  <2> QED BY <2>1, ItemTypes
<1>6. l \in 0..Len(e) /\ l + 1 = NumAt(ob, b) - 1
  <2>1. NumAt(ob, b) \in 1..Len(e) /\ Len(e) \in Nat
        BY <1>1, ShapedItems
  <2>2. NumAt(ob, b) >= 2
    <3>1. NumAt(ob, b) = 2 * b + 1 + ob[b]
          BY DEF NumAt
    <3>2. ob[b] >= 1 /\ ob[b] \in Nat /\ b \in Nat
          BY <1>1, <1>2
    <3> QED BY ONLY <3>1, <3>2
  <2> HIDE DEF l
  <2>3. l = NumAt(ob, b) - 2
        BY DEF l
  <2> QED BY <2>1, <2>2, <2>3
<1>7. f = Append(SubSeq(e, 1, l), Abstract!Num(v[b]))
      BY <1>3, <1>4 DEF Abstract!Closed
<1> HIDE DEF f, l
<1>8. /\ f \in Seq(Item) /\ Len(f) = l + 1
      /\ \A p \in 1..Len(f) - 1 : f[p] = e[p]
      /\ f[Len(f)] = Abstract!Num(v[b])
  <2> DEFINE s == SubSeq(e, 1, l)
  <2>1. s \in Seq(Item) /\ Len(s) = l /\ \A p \in 1..l : s[p] = e[p]
        BY <1>1, <1>6, PrefixFacts
  <2>2. f = Append(s, Abstract!Num(v[b]))
        BY <1>7
  <2> HIDE DEF s
  <2>3. /\ f \in Seq(Item) /\ Len(s) \in Nat /\ Len(f) = Len(s) + 1
        /\ \A p \in 1..Len(s) : f[p] = s[p]
        /\ f[Len(s) + 1] = Abstract!Num(v[b])
        BY <2>1, <2>2, <1>5, AppendFacts
  <2>4. Len(f) - 1 = l
        BY <2>1, <2>3
  <2> QED BY <2>1, <2>3, <2>4
<1>9. 1 <= ob[b] /\ (b > 0 => 1 <= ob[b] - ob[b - 1]) /\ ok[b] = ob[b] - 1
      /\ Len(f) = NumAt(ob, b) - 1
  <2>1. 1 <= ob[b] /\ ok[b] = ob[b] - 1
        BY <1>1, <1>2
  <2>2. b > 0 => 1 <= ob[b] - ob[b - 1]
    <3>1. SUFFICES ASSUME b > 0 PROVE 1 <= ob[b] - ob[b - 1]
          OBVIOUS
    <3>2. ob[b - 1] \in Nat /\ ob[b] \in Nat /\ ob[b - 1] < ob[b]
          BY <3>1, <1>1, <1>2
    <3> QED BY ONLY <3>2
  <2>3. Len(f) = NumAt(ob, b) - 1
        BY <1>6, <1>8
  <2> QED BY <2>1, <2>2, <2>3
<1>10. Reduces(f, b, ok, e, n, ob, v)
  <2>1. 1 \in Nat
        OBVIOUS
  <2> QED BY <1>1, <1>8, <1>9, <2>1, CutReduces
<1> QED BY <1>10 DEF f

\* c[k] is e with k brackets closed.
IsClosing(c, e, n) ==
  c = [k \in 0..n |-> IF k = 0 THEN e
                      ELSE IF Abstract!Opens(c[k - 1]) = {} THEN c[k - 1]
                           ELSE Abstract!Closed(c[k - 1])]

\* The expressions that CloseAll goes through.
LEMMA ClosingExists ==
  ASSUME NEW e
  PROVE  \A n \in Nat : \E c : IsClosing(c, e, n)
<1> DEFINE S == {n \in Nat : \E c : IsClosing(c, e, n)}
           Step(x) == IF Abstract!Opens(x) = {} THEN x ELSE Abstract!Closed(x)
<1>1. 0 \in S
  <2>1. IsClosing([k \in 0..0 |-> e], e, 0)
        BY DEF IsClosing
  <2> QED BY <2>1
<1>2. ASSUME NEW n \in Nat, n \in S PROVE n + 1 \in S
  <2>1. PICK c : IsClosing(c, e, n)
        BY <1>2
  <2>2. c = [k \in 0..n |-> IF k = 0 THEN e ELSE Step(c[k - 1])]
        BY <2>1 DEF IsClosing
  <2> HIDE DEF Step
  <2> DEFINE d == [k \in 0..n + 1 |-> IF k = n + 1 THEN Step(c[n]) ELSE c[k]]
  <2>3. \A k \in 0..n + 1 : d[k] = IF k = 0 THEN e ELSE Step(d[k - 1])
    <3> SUFFICES ASSUME NEW k \in 0..n + 1 PROVE d[k] = IF k = 0 THEN e ELSE Step(d[k - 1])
        OBVIOUS
    <3>1. CASE k = n + 1
          BY <3>1
    <3>2. CASE k \in 0..n
      <4>1. d[k] = c[k] /\ (k # 0 => d[k - 1] = c[k - 1])
            BY <3>2
      <4>2. c[k] = IF k = 0 THEN e ELSE Step(c[k - 1])
            BY <2>2, <3>2
      <4> QED BY <4>1, <4>2
    <3> QED BY <3>1, <3>2
  <2>4. d = [k \in 0..n + 1 |-> IF k = 0 THEN e ELSE Step(d[k - 1])]
    <3>1. d = [k \in 0..n + 1 |-> d[k]]
          OBVIOUS
    <3> HIDE DEF d
    <3> QED BY <2>3, <3>1
  <2>5. IsClosing(d, e, n + 1)
    <3> HIDE DEF d
    <3> QED BY <2>4 DEF IsClosing, Step
  <2> HIDE DEF d
  <2> QED BY <2>5
<1>3. \A n \in Nat : n \in S
  <2> HIDE DEF S
  <2> QED BY <1>1, <1>2, Induction
<1> QED BY <1>3

\* CloseAll gives the last of them.
LEMMA CloseAllIs ==
  ASSUME NEW e
  PROVE  \E c : IsClosing(c, e, MAX_PARENTHESES) /\ Abstract!CloseAll(e) = c[MAX_PARENTHESES]
<1> DEFINE c == CHOOSE c : IsClosing(c, e, MAX_PARENTHESES)
<1>1. IsClosing(c, e, MAX_PARENTHESES)
      BY SizesAssumption, ClosingExists, Zenon
<1>2. Abstract!CloseAll(e) = c[MAX_PARENTHESES]
      BY Zenon DEF Abstract!CloseAll, IsClosing
<1> QED BY <1>1, <1>2, Zenon

\* With its brackets closed an expression has only its first operators left, and
\* at least one if it does not begin with a bracket.
LEMMA CloseAllReduces ==
  ASSUME NEW e, NEW n, NEW ob, Shaped(e, n, ob), ob[n] <= MAX_PARENTHESES,
         NEW v, IsFold(v, e, n, ob)
  PROVE  \E m, om : /\ Reduces(Abstract!CloseAll(e), m, om, e, n, ob, v) /\ om[m] = 0
                    /\ ob[0] = 0 /\ n > 0 => m > 0
<1> DEFINE Good(x, k, m, om) ==
             /\ Reduces(x, m, om, e, n, ob, v)
             /\ om[m] = 0 \/ om[m] + k <= ob[n]
             /\ ob[0] = 0 => om[0] = 0 /\ (n > 0 => m > 0)
<1>0. n \in Nat /\ ob \in Levels(n) /\ ob[n] \in Nat /\ MAX_PARENTHESES \in Nat
  <2>1. n \in Nat /\ ob \in Levels(n)
        BY DEF Shaped
  <2> QED BY <2>1, SizesAssumption DEF Levels
<1>1. PICK c : IsClosing(c, e, MAX_PARENTHESES)
               /\ Abstract!CloseAll(e) = c[MAX_PARENTHESES]
      BY CloseAllIs
<1> DEFINE S == {k \in Nat : k <= MAX_PARENTHESES => \E m, om : Good(c[k], k, m, om)}
<1>2. 0 \in S
  <2>1. c[0] = e
        BY <1>0, <1>1 DEF IsClosing
  <2>2. Reduces(e, n, ob, e, n, ob, v)
        BY ReducesSame
  <2>3. Good(c[0], 0, n, ob)
        BY <2>1, <2>2, <1>0
  <2> HIDE DEF Good
  <2> QED BY <2>3
<1>3. ASSUME NEW k \in Nat, k \in S PROVE k + 1 \in S
  <2> SUFFICES ASSUME k + 1 <= MAX_PARENTHESES PROVE \E m, om : Good(c[k + 1], k + 1, m, om)
      OBVIOUS
  <2>1. PICK m, om : Good(c[k], k, m, om)
        BY <1>3, <1>0
  <2> DEFINE x == c[k]
  <2>2. /\ Shaped(x, m, om) /\ m \in 0..n /\ m \in Nat /\ om \in Levels(m) /\ om[m] \in Nat
        /\ IsFold(v, x, m, om)
    <3>1. Shaped(x, m, om) /\ m \in 0..n /\ IsFold(v, x, m, om)
          BY <2>1 DEF Reduces
    <3>2. m \in Nat /\ om \in Levels(m)
          BY <3>1 DEF Shaped
    <3> QED BY <3>1, <3>2 DEF Levels
  <2>3. c[k + 1] = IF Abstract!Opens(x) = {} THEN x ELSE Abstract!Closed(x)
    <3>1. k + 1 \in 0..MAX_PARENTHESES /\ k + 1 # 0 /\ (k + 1) - 1 = k
          BY <1>0
    <3> QED BY <3>1, <1>1 DEF IsClosing
  <2> HIDE DEF x
  <2>4. PICK b : Starts(om, m, b)
        BY <2>2, StartExists
  <2>5. Abstract!Opens(x) = {} <=> om[m] = 0
        BY <2>2, <2>4, InnerIs
  <2>6. CASE om[m] = 0
    <3>1. Good(c[k + 1], k + 1, m, om)
          BY <2>1, <2>3, <2>5, <2>6 DEF x
    <3> HIDE DEF Good
    <3> QED BY <3>1
  <2>7. CASE om[m] # 0
    <3> DEFINE ok == [i \in 0..b |-> IF i = b THEN om[m] - 1 ELSE om[i]]
    <3>1. b \in 0..m /\ b \in Nat /\ om[b] = om[m] /\ \A i \in 0..m : om[i] \in Nat
          BY <2>2, <2>4 DEF Starts, Levels
    <3>2. om[m] - 1 \in Nat /\ om[m] > 0
          BY <2>2, <2>7
    <3>3. ok \in [0..b -> Nat] /\ ok[b] = om[m] - 1 /\ \A i \in 0..b - 1 : ok[i] = om[i]
      <4>1. \A i \in 0..b : i \in 0..m
            BY <3>1, <2>2
      <4> QED BY <4>1, <3>1, <3>2
    <3> HIDE DEF ok
    <3>4. Reduces(Abstract!Closed(x), b, ok, x, m, om, v)
          BY <2>2, <2>4, <3>2, <3>3, ClosedReduces
    <3>5. Reduces(Abstract!Closed(x), b, ok, e, n, ob, v)
          BY <2>1, <3>4, <1>0, ReducesTransitive DEF x
    <3>6. ok[b] + (k + 1) <= ob[n]
      <4>1. om[m] + k <= ob[n]
            BY <2>1, <2>7
      <4> QED BY <4>1, <3>3, <2>2, <1>0
    <3>7. ASSUME ob[0] = 0 PROVE ok[0] = 0 /\ b > 0
      <4>1. om[0] = 0
            BY <2>1, <3>7
      <4>2. b # 0
            BY <4>1, <3>1, <2>7
      <4>3. 0 \in 0..b - 1
            BY <4>2, <3>1
      <4> QED BY <4>1, <4>2, <4>3, <3>1, <3>3
    <3>8. c[k + 1] = Abstract!Closed(x)
          BY <2>3, <2>5, <2>7
    <3>9. Good(c[k + 1], k + 1, b, ok)
          BY <3>5, <3>6, <3>7, <3>8
    <3> HIDE DEF Good
    <3> QED BY <3>9
  <2> QED BY <2>6, <2>7
<1>4. MAX_PARENTHESES \in S
  <2> HIDE DEF S
  <2> QED BY <1>0, <1>2, <1>3, Induction
<1>5. PICK m, om : Good(c[MAX_PARENTHESES], MAX_PARENTHESES, m, om)
      BY <1>0, <1>4
<1>6. om[m] \in Nat
  <2>1. Shaped(c[MAX_PARENTHESES], m, om)
        BY <1>5 DEF Reduces
  <2>2. m \in Nat /\ om \in Levels(m)
        BY <2>1 DEF Shaped
  <2> QED BY <2>2 DEF Levels
<1>7. om[m] = 0
      BY <1>0, <1>5, <1>6
<1> QED BY <1>1, <1>5, <1>7

-----------------------------------------------------------------------------
(* The value of the whole expression, and the operator evaluated last       *)

\* Without brackets the whole expression is the innermost bracket.
LEMMA StartsAtZero ==
  ASSUME NEW m \in Nat, NEW om \in Levels(m), om[m] = 0
  PROVE  Starts(om, m, 0) /\ \A i \in 0..m : om[i] = 0
<1>1. \A i \in 0..m : om[i] = 0
  <2>1. ASSUME NEW i \in 0..m PROVE om[i] = 0
    <3>1. om[i] <= om[m] /\ om[i] \in Nat
          BY Positions
    <3> QED BY <3>1
  <2> QED BY <2>1
<1>2. 0 \in 0..m
      OBVIOUS
<1> QED BY <1>1, <1>2 DEF Starts

\* The value of the whole expression is the value of the first right operand.
LEMMA FullValueIs ==
  ASSUME NEW s, NEW n, NEW ob, Shaped(s, n, ob), ob[n] <= MAX_PARENTHESES,
         NEW v, IsFold(v, s, n, ob)
  PROVE  Abstract!FullValue(s) = v[0]
<1> DEFINE f == Abstract!CloseAll(s)
<1>1. PICK m, om : Reduces(f, m, om, s, n, ob, v) /\ om[m] = 0
      BY CloseAllReduces
<1> HIDE DEF f
<1>2. Shaped(f, m, om) /\ IsFold(v, f, m, om)
      BY <1>1 DEF Reduces
<1>3. m \in Nat /\ om \in Levels(m)
      BY <1>2 DEF Shaped
<1>4. Starts(om, m, 0) /\ om[0] = 0 /\ 0 \in 0..m
  <2>1. 0 \in 0..m
        BY <1>3
  <2> QED BY <2>1, <1>1, <1>3, StartsAtZero
<1>5. Abstract!ValueOf(f, NumAt(om, 0), Len(f)) = v[0]
      BY <1>2, <1>4, FoldOfAll
<1>6. NumAt(om, 0) = 1
      BY <1>4 DEF NumAt
<1> QED BY <1>5, <1>6 DEF Abstract!FullValue, f

\* The outermost level that has an operator begins at the first number, behind its
\* brackets.
LEMMA OutermostOpsIs ==
  ASSUME NEW s, NEW n, NEW ob, Shaped(s, n, ob), n > 0
  PROVE  /\ ob[0] \in 0..Len(s)
         /\ Abstract!OutermostOps(s) = Abstract!CloseAll(SubSeq(s, ob[0] + 1, Len(s)))
<1> DEFINE first == CHOOSE i \in Abstract!Ops(s) : \A j \in Abstract!Ops(s) : i <= j
           opens == {i \in Abstract!Opens(s) : i < first}
<1>1. /\ n \in Nat /\ ob \in Levels(n) /\ 0 \in 0..n /\ 0 \in 0..n - 1 /\ ob[0] \in Nat
      /\ Len(s) \in Nat /\ OpAt(ob, 0) \in 1..Len(s)
  <2>1. n \in Nat /\ ob \in Levels(n)
        BY DEF Shaped
  <2>2. 0 \in 0..n /\ 0 \in 0..n - 1
        BY <2>1
  <2> QED BY <2>1, <2>2, ShapedItems DEF Levels
<1>2. OpAt(ob, 0) = ob[0] + 2 /\ NumAt(ob, 0) = ob[0] + 1
      BY <1>1 DEF OpAt, NumAt
<1>3. first = ob[0] + 2
  <2>1. ob[0] + 2 \in Abstract!Ops(s)
    <3>1. s[OpAt(ob, 0)].kind = "op"
          BY <1>1, OpsAre
    <3> QED BY <3>1, <1>1, <1>2 DEF Abstract!Ops
  <2>2. ASSUME NEW j \in Abstract!Ops(s) PROVE ob[0] + 2 <= j /\ j \in Nat
    <3>1. j \in 1..Len(s) /\ s[j].kind = "op"
          BY DEF Abstract!Ops
    <3>2. PICK i \in 0..n - 1 : j = OpAt(ob, i)
          BY <3>1, OpsAre
    <3>3. CASE i = 0
          BY <3>1, <3>2, <3>3, <1>2
    <3>4. CASE i # 0
      <4>1. i \in 0..n /\ 0 < i
            BY <3>4, <1>1
      <4>2. OpAt(ob, 0) < NumAt(ob, i) /\ OpAt(ob, i) = NumAt(ob, i) + 1
            /\ NumAt(ob, i) \in Nat
            BY <4>1, <1>1, Positions
      <4> QED BY <4>2, <3>2, <1>1, <1>2
    <3> QED BY <3>3, <3>4
  <2> DEFINE P(i) == \A j \in Abstract!Ops(s) : i <= j
  <2>3. P(ob[0] + 2)
        BY <2>2
  <2>4. first \in Abstract!Ops(s) /\ P(first)
    <3>1. first = CHOOSE i \in Abstract!Ops(s) : P(i)
          OBVIOUS
    <3> HIDE DEF P
    <3> QED BY <2>1, <2>3, <3>1
  <2>5. first <= ob[0] + 2 /\ ob[0] + 2 <= first /\ first \in Nat
    <3> HIDE DEF first
    <3> QED BY <2>1, <2>2, <2>4
  <2> HIDE DEF first
  <2> QED BY <2>5, <1>1
<1> HIDE DEF first
<1>4. Abstract!Latest(opens) = ob[0]
  <2>1. ASSUME NEW i PROVE i \in opens <=> i \in 1..ob[0]
    <3>1. ASSUME i \in opens PROVE i \in 1..ob[0]
      <4>1. i \in 1..Len(s) /\ s[i].kind = "open" /\ i < ob[0] + 2
            BY <3>1, <1>3 DEF Abstract!Opens
      <4>2. i # NumAt(ob, 0)
            BY <4>1, <1>1, OpensAre
      <4> QED BY <4>1, <4>2, <1>1, <1>2
    <3>2. ASSUME i \in 1..ob[0] PROVE i \in opens
      <4>1. i \in 1..Len(s) /\ i < ob[0] + 2 /\ i < NumAt(ob, 0) /\ i \in Nat
            BY <3>2, <1>1, <1>2
      <4>2. ASSUME NEW k \in 0..n PROVE NumAt(ob, 0) <= NumAt(ob, k) /\ NumAt(ob, k) \in Nat
        <5>1. CASE k = 0
              BY <5>1, <1>1, <1>2
        <5>2. CASE k # 0
          <6>1. OpAt(ob, 0) < NumAt(ob, k) /\ NumAt(ob, k) \in Nat
                BY <5>2, <1>1, Positions
          <6> QED BY <6>1, <1>1, <1>2
        <5> QED BY <5>1, <5>2
      <4>3. \A k \in 0..n : i # NumAt(ob, k)
            BY <4>1, <4>2, <1>1, <1>2
      <4>4. ASSUME NEW k \in 0..n - 1 PROVE i # OpAt(ob, k)
        <5>1. k \in 0..n
              BY <1>1
        <5>2. OpAt(ob, k) = NumAt(ob, k) + 1 /\ NumAt(ob, 0) <= NumAt(ob, k)
              /\ NumAt(ob, k) \in Nat
              BY <5>1, <4>2, <1>1, Positions
        <5> QED BY <5>2, <4>1, <1>1, <1>2
      <4>5. s[i].kind = "open"
            BY <4>1, <4>3, <4>4, OpensAre
      <4> QED BY <4>1, <4>5, <1>3 DEF Abstract!Opens
    <3> QED BY <3>1, <3>2
  <2> HIDE DEF opens
  <2>2. opens = 1..ob[0]
        BY <2>1
  <2>3. CASE ob[0] = 0
    <3>1. opens = {}
          BY <2>2, <2>3
    <3> QED BY <3>1, <2>3 DEF Abstract!Latest
  <2>4. CASE ob[0] # 0
    <3>1. ob[0] \in opens /\ \A j \in opens : j <= ob[0]
          BY <2>2, <2>4, <1>1
    <3>2. opens \subseteq 1..ob[0]
          BY <2>2
    <3> QED BY <3>1, <3>2, <1>1, LatestIs
  <2> QED BY <2>3, <2>4
<1>5. Abstract!OutermostOps(s) = Abstract!CloseAll(SubSeq(s, Abstract!Latest(opens) + 1, Len(s)))
      BY DEF Abstract!OutermostOps, first
<1>6. ob[0] \in 0..Len(s)
      BY <1>1, <1>2
<1> QED BY <1>4, <1>5, <1>6

\* The operator evaluated last is the first one, its right operand the first value.
LEMMA RootAndRightIs ==
  ASSUME NEW s, NEW n, NEW ob, Shaped(s, n, ob), n > 0, ob[n] <= MAX_PARENTHESES,
         NEW v, IsFold(v, s, n, ob)
  PROVE  Abstract!RootAndRight(s) = [op |-> s[OpAt(ob, 0)].op, val |-> v[1]]
<1> DEFINE g  == SubSeq(s, ob[0] + 1, Len(s))
           oc == [i \in 0..n |-> ob[i] - ob[0]]
           f  == Abstract!CloseAll(g)
<1>1. /\ n \in Nat /\ ob \in Levels(n) /\ s \in Seq(Item) /\ 0 \in 0..n /\ 0 \in 0..n - 1
      /\ n \in 0..n /\ 1 \in 0..n
  <2>1. n \in Nat /\ ob \in Levels(n) /\ s \in Seq(Item)
        BY DEF Shaped
  <2> QED BY <2>1
<1>2. ob[0] \in 0..Len(s) /\ Abstract!OutermostOps(s) = f
      BY OutermostOpsIs
<1>3. \A i \in 0..n : ob[i] \in Nat /\ ob[0] <= ob[i]
      BY <1>1 DEF Levels
<1>4. oc \in [0..n -> Nat] /\ \A i \in 0..n : oc[i] = ob[i] - ob[0]
  <2>1. \A i \in 0..n : ob[i] - ob[0] \in Nat
        BY <1>1, <1>3
  <2> QED BY <2>1
<1> HIDE DEF oc
<1>5. /\ g \in Seq(Item) /\ Len(g) = Len(s) - ob[0]
      /\ \A p \in 1..Len(g) : g[p] = s[p + ob[0]]
  <2>1. /\ g \in Seq(Item) /\ Len(g) = Len(s) - ob[0]
        /\ \A p \in 1..Len(s) - ob[0] : g[p] = s[p + ob[0]]
        BY <1>1, <1>2, TailFacts
  <2> HIDE DEF g
  <2> QED BY <2>1
<1> HIDE DEF g
<1>6. /\ Shaped(g, n, oc)
      /\ \A i \in 0..n : g[NumAt(oc, i)] = s[NumAt(ob, i)]
      /\ \A i \in 0..n - 1 : g[OpAt(oc, i)] = s[OpAt(ob, i)]
  <2>1. IsTail(g, s, n, ob, oc)
        BY <1>4, <1>5 DEF IsTail
  <2> QED BY <2>1, TailShaped
<1>7. IsFold(v, g, n, oc)
  <2>1. Len(g) = NumAt(oc, n) /\ Len(s) = NumAt(ob, n)
        BY <1>6 DEF Shaped
  <2>2. g[Len(g)] = s[Len(s)]
        BY <2>1, <1>1, <1>6
  <2>3. ASSUME NEW j \in 0..n - 1
        PROVE  v[j] = Combine(g[OpAt(oc, j)], g[NumAt(oc, j)].val, v[j + 1])
    <3>1. j \in 0..n
          BY <1>1
    <3>2. v[j] = Combine(s[OpAt(ob, j)], s[NumAt(ob, j)].val, v[j + 1])
          BY DEF IsFold
    <3> QED BY <3>1, <3>2, <1>6
  <2> QED BY <2>2, <2>3 DEF IsFold
<1>8. oc[n] <= MAX_PARENTHESES /\ oc[0] = 0
  <2>1. oc[n] = ob[n] - ob[0] /\ ob[n] \in Nat /\ ob[0] \in Nat /\ oc[0] = ob[0] - ob[0]
        BY <1>1, <1>3, <1>4
  <2> QED BY <2>1, SizesAssumption
<1>9. PICK m, om : Reduces(f, m, om, g, n, oc, v) /\ om[m] = 0 /\ m > 0
  <2> DEFINE Q(m, om) == Reduces(f, m, om, g, n, oc, v) /\ om[m] = 0
                         /\ (oc[0] = 0 /\ n > 0 => m > 0)
  <2>1. \E m, om : Q(m, om)
        BY <1>6, <1>7, <1>8, CloseAllReduces
  <2> QED BY <2>1, <1>8
<1> HIDE DEF f
<1>10. Shaped(f, m, om) /\ IsFold(v, f, m, om)
       BY <1>9 DEF Reduces
<1>11. m \in Nat /\ om \in Levels(m) /\ 0 \in 0..m - 1 /\ 1 \in 0..m /\ 0 \in 0..m
  <2>1. m \in Nat /\ om \in Levels(m)
        BY <1>10 DEF Shaped
  <2> QED BY <2>1, <1>9
<1>12. Starts(om, m, 0) /\ om[0] = 0 /\ om[1] = 0
       BY <1>9, <1>11, StartsAtZero
<1>13. NumAt(om, 0) = 1 /\ OpAt(om, 0) = 2 /\ NumAt(om, 1) = 3
       BY <1>12 DEF NumAt, OpAt
<1>14. Abstract!RootOf(f, 1, Len(f)) = 2
  <2>1. Len(f) \in Nat
        BY <1>10, ShapedItems
  <2>2. Extends(f, f)
        BY <2>1 DEF Extends
  <2>3. Abstract!RootOf(f, NumAt(om, 0), Len(f)) = OpAt(om, 0)
        BY <1>10, <1>11, <1>12, <2>2, RootIs
  <2> QED BY <2>3, <1>13
<1>15. Abstract!ValueOf(f, 3, Len(f)) = v[1]
  <2>1. Abstract!ValueOf(f, NumAt(om, 1), Len(f)) = v[1]
        BY <1>10, <1>11, <1>12, FoldOfAll
  <2> QED BY <2>1, <1>13
<1>16. f[2].op = s[OpAt(ob, 0)].op
  <2>1. f[OpAt(om, 0)] = g[OpAt(oc, 0)]
        BY <1>9, <1>11 DEF Reduces
  <2> QED BY <2>1, <1>1, <1>6, <1>13
<1>17. 2 + 1 = 3
       OBVIOUS
<1> QED BY <1>2, <1>14, <1>15, <1>16, <1>17 DEF Abstract!RootAndRight

-----------------------------------------------------------------------------
(* The slots of the stack that the helpers of calc.c write                  *)

Slots == 0..STACK_SIZE - 1

\* n has the arguments of m, but for el in slot k.
Writes(n, m, k, el) == \A i \in Slots : n.stack[i] = IF i = k THEN el ELSE m.stack[i]

SameStack(n, m) == n.stack = m.stack /\ n.shown = m.shown

\* stack_push writes the slot above the top.
LEMMA PushWrites ==
  ASSUME NEW m \in Machines, NEW el \in StackEl, m.stack_index < STACK_SIZE
  PROVE  Writes(StackPush(m, el), m, m.stack_index, el) /\ StackPush(m, el).shown = m.shown
<1> DEFINE h == [m EXCEPT !.stack[m.stack_index] = el, !.stack_index = @ + 1]
           n == StackPush(m, el)
           k == m.stack_index
<1>1. k \in Nat /\ k \in Slots /\ m.stack \in [Slots -> StackEl]
      BY IndexTypes, Sizes, SMTT(60) DEF Machines, Slots
<1>2. h.stack = [m.stack EXCEPT ![k] = el] /\ h.shown = m.shown
      BY DEF Machines
<1>3. n = [h EXCEPT !.pushed = Append(@, el)]
      BY DEF StackPush, HistoryUpdate
<1>4. n.stack = h.stack /\ n.shown = h.shown
  <2>1. h \in [DOMAIN h -> {h[x] : x \in DOMAIN h}] /\ DOMAIN h = DOMAIN m
        OBVIOUS
  <2>2. "stack" \in DOMAIN m /\ "shown" \in DOMAIN m
        BY DEF Machines
  <2> HIDE DEF h
  <2> QED BY <1>3, <2>1, <2>2
<1> HIDE DEF h, n, Slots
<1>5. \A i \in Slots : n.stack[i] = IF i = k THEN el ELSE m.stack[i]
      BY <1>1, <1>2, <1>4
<1> QED BY <1>2, <1>4, <1>5 DEF Writes, n

\* stack_pop writes nothing.
LEMMA PopKeeps ==
  ASSUME NEW m \in Machines, m.stack_index > 0
  PROVE  SameStack(StackPop(m), m)
BY DEF StackPop, Machines, SameStack

\* Taking an operator off writes nothing.
LEMMA BopPopKeeps ==
  ASSUME NEW m \in Machines
  PROVE  SameStack(BopPop(m), m)
BY DEF BopPop, Machines, SameStack

\* bop_push leaves the arguments alone.
LEMMA BopPushKeeps ==
  ASSUME NEW m \in Machines, m.bop_stack_index < BOP_STACK_SIZE, NEW cop, NEW priority
  PROVE  SameStack(BopPush(m, cop, priority), m)
         /\ BopPush(m, cop, priority).bin_op_was_entered = TRUE
BY DEF BopPush, Machines, SameStack

\* A display update shows the top.
LEMMA DisplayShows ==
  ASSUME NEW m, Sound(m)
  PROVE  /\ RequestDisplayUpdate(m).stack = m.stack
         /\ RequestDisplayUpdate(m).shown.el = StackTop(m)
<1> DEFINE n == RequestDisplayUpdate(m)
<1>1. m \in Machines /\ m.stack_index > 0
      BY IndexTypes DEF Sound
<1>2. n = [m EXCEPT !.shown = [el |-> StackTop(m), cop |-> TopOp(m)]]
      BY <1>1, StackPeekSound DEF RequestDisplayUpdate
<1>3. n.stack = m.stack /\ n.shown = [el |-> StackTop(m), cop |-> TopOp(m)]
      BY <1>1, <1>2 DEF Machines
<1> HIDE DEF n
<1> QED BY <1>3 DEF n

\* Where the top is.
LEMMA TopSlot ==
  ASSUME NEW m, Sound(m)
  PROVE  StackTop(m) = m.stack[m.stack_index - 1] /\ m.stack_index - 1 \in Slots
<1>1. m.stack_index \in Nat /\ m.stack_index >= 1 /\ m.stack_index <= STACK_SIZE
      BY IndexTypes DEF Sound
<1> QED BY <1>1, Sizes DEF StackTop, Slots

\* The result of an operator takes the slot of its left operand.
LEMMA EvaluateWrites ==
  ASSUME ConfigOK, NEW m \in Machines, m.stack_index >= 2,
         NEW cop, HasBop(cop, calc_mode), NEW k, m.stack_index = k + 2, k \in Nat
  PROVE  Writes(Evaluate(m, cop), m, k, ApplyBop(cop, m.stack[k], m.stack[k + 1]))
<1> DEFINE m1 == StackPop(m)
           m2 == StackPop(m1)
           a  == StackTop(m1)
           b  == StackTop(m)
           el == ApplyBop(cop, a, b)
<1>1. m1 \in Machines /\ m1.stack_index = k + 1 /\ SameStack(m1, m)
  <2>1. m1 \in Machines /\ m1.stack_index = m.stack_index - 1
        BY StackPopSound, IndexTypes
  <2> QED BY <2>1, PopKeeps, IndexTypes
<1>2. b = m.stack[k + 1] /\ b \in StackEl
      BY StackTopType, IndexTypes DEF StackTop
<1> HIDE DEF m1
<1>3. a = m.stack[k] /\ a \in StackEl
      BY <1>1, StackTopType DEF StackTop, SameStack
<1>4. m2 \in Machines /\ m2.stack_index = k /\ SameStack(m2, m)
  <2>1. m1.stack_index > 0
        BY <1>1
  <2>2. m2 \in Machines /\ m2.stack_index = m1.stack_index - 1
        BY <1>1, <2>1, StackPopSound
  <2>3. SameStack(m2, m1)
        BY <1>1, <2>1, PopKeeps
  <2> QED BY <1>1, <2>2, <2>3 DEF SameStack
<1>5. el \in StackEl
      BY <1>2, <1>3, ApplyBopType
<1>6. m2.stack_index < STACK_SIZE
      BY <1>4, Sizes, IndexTypes
<1>8. Evaluate(m, cop) = StackPush(m2, el)
      BY DEF Evaluate, m1
<1> HIDE DEF m2, el
<1>7. Writes(StackPush(m2, el), m2, k, el)
      BY <1>4, <1>5, <1>6, PushWrites
<1>9. Writes(StackPush(m2, el), m, k, el)
      BY <1>4, <1>7 DEF Writes, SameStack
<1>10. el = ApplyBop(cop, m.stack[k], m.stack[k + 1])
      BY <1>2, <1>3 DEF el
<1> QED BY <1>8, <1>9, <1>10

\* The turn of the loop that takes the last operator, with k left before it: its
\* right operand stays in slot k + 1.
LEMMA BinOpStepWrites ==
  ASSUME ConfigOK, NEW m, Sound(m), Runnable(m), NEW priority, ~Stops(m, priority),
         NEW k, k \in Nat, m.bop_stack_index = k + 1
  PROVE  LET cop == m.bop_stack[k].cop
             r   == m.stack[IF m.stack_index = k + 1 THEN k ELSE k + 1]
             el  == IF m.stack_index = k + 1 /\ ~allow_repeated_equals THEN m.stack[k]
                    ELSE ApplyBop(cop, m.stack[k], r)
         IN  \A i \in Slots :
               BinOpStep(m, priority).stack[i] =
                 IF i = k THEN el ELSE IF i = k + 1 THEN r ELSE m.stack[i]
<1> DEFINE m1  == BopPop(m)
           top == m.bop_stack[m1.bop_stack_index]
           m2  == StackPush(StackPeek(m1), StackTop(m1))
           n   == BinOpStep(m, priority)
           cop == m.bop_stack[k].cop
           r   == m.stack[IF m.stack_index = k + 1 THEN k ELSE k + 1]
           el  == IF m.stack_index = k + 1 /\ ~allow_repeated_equals THEN m.stack[k]
                  ELSE ApplyBop(cop, m.stack[k], r)
<1>0. m \in Machines /\ m.bop_stack_index > 0 /\ k + 1 <= BOP_STACK_SIZE
      BY IndexTypes DEF Sound
<1>a. k \in Slots /\ k + 1 \in Slots
      BY <1>0, Sizes DEF Slots
<1>1. /\ m1 \in Machines /\ m1.bop_stack_index = k /\ m1.stack_index = m.stack_index
      /\ SameStack(m1, m)
  <2>1. m1 \in Machines /\ m1.bop_stack_index = m.bop_stack_index - 1
        /\ m1.stack_index = m.stack_index
        BY <1>0, BopPopSound
  <2>2. SameStack(m1, m)
        BY <1>0, BopPopKeeps
  <2> QED BY <2>1, <2>2
<1>2. HasBop(cop, calc_mode)
  <2>1. k \in 0..m.bop_stack_index - 1
        BY <1>0
  <2> QED BY <2>1 DEF Runnable
<1>3. m.bop_stack[m.bop_stack_index - 1] = m.bop_stack[k] /\ top = m.bop_stack[k]
      BY <1>1
<1>4. m.stack_index = k + 1 \/ m.stack_index = k + 2
      BY DEF Sound
<1>5. n = IF m.stack_index < k + 2
          THEN IF allow_repeated_equals THEN Evaluate(m2, cop) ELSE StackPop(m2)
          ELSE Evaluate(m1, cop)
  <2>1. ~(m.bop_stack_index = 0 \/ priority > top.priority)
        BY <1>3 DEF Stops
  <2> HIDE DEF m2
  <2> QED BY <1>1, <1>3, <2>1 DEF BinOpStep, m2
<1> HIDE DEF m1, top, n, cop
<1>6. CASE m.stack_index = k + 1
  <2>1. StackTop(m1) = m.stack[k] /\ StackTop(m1) \in StackEl /\ StackPeek(m1) = m1
    <3>1. m1.stack_index > 0 /\ m1.stack_index - 1 = k
          BY <1>1, <1>6
    <3>2. StackTop(m1) = m1.stack[k]
          BY <3>1 DEF StackTop
    <3> QED BY <1>1, <3>1, <3>2, StackTopType, StackPeekSound DEF SameStack
  <2>2. m1.stack_index < STACK_SIZE
        BY <1>1, <1>6, <1>0, Sizes
  <2>3. m2 \in Machines /\ m2.stack_index = k + 2
    <3>1. m2 \in Machines /\ m2.stack_index = m1.stack_index + 1
          BY <1>1, <2>1, <2>2, StackPushSound
    <3> HIDE DEF m2
    <3> QED BY <3>1, <1>1, <1>6
  <2>4. Writes(m2, m1, k + 1, m.stack[k])
        BY <1>1, <1>6, <2>1, <2>2, PushWrites
  <2> HIDE DEF m2
  <2>5. \A i \in Slots : m2.stack[i] = IF i = k + 1 THEN m.stack[k] ELSE m.stack[i]
        BY <1>1, <2>4 DEF Writes, SameStack
  <2>6. m2.stack[k] = m.stack[k] /\ m2.stack[k + 1] = m.stack[k]
        BY <1>a, <2>5
  <2>7. CASE allow_repeated_equals
    <3>1. n = Evaluate(m2, cop)
          BY <1>5, <1>6, <2>7
    <3>2. Writes(n, m2, k, ApplyBop(cop, m.stack[k], m.stack[k]))
      <4>1. Writes(Evaluate(m2, cop), m2, k, ApplyBop(cop, m2.stack[k], m2.stack[k + 1]))
            BY <1>2, <2>3, EvaluateWrites
      <4> QED BY <3>1, <2>6, <4>1
    <3> QED BY <1>6, <2>5, <2>7, <3>2 DEF Writes, n, cop
  <2>8. CASE ~allow_repeated_equals
    <3>1. n = StackPop(m2)
          BY <1>5, <1>6, <2>8
    <3>2. SameStack(n, m2)
          BY <3>1, <2>3, PopKeeps
    <3> QED BY <1>6, <2>5, <2>8, <3>2 DEF SameStack, n, cop
  <2> QED BY <2>7, <2>8
<1>7. CASE m.stack_index = k + 2
  <2>1. n = Evaluate(m1, cop)
        BY <1>5, <1>7
  <2>2. m1.stack[k] = m.stack[k] /\ m1.stack[k + 1] = m.stack[k + 1]
        BY <1>1 DEF SameStack
  <2>3. Writes(n, m1, k, ApplyBop(cop, m.stack[k], m.stack[k + 1]))
    <3>1. Writes(Evaluate(m1, cop), m1, k, ApplyBop(cop, m1.stack[k], m1.stack[k + 1]))
          BY <1>1, <1>2, <1>7, EvaluateWrites
    <3> QED BY <2>1, <2>2, <3>1
  <2>4. \A i \in Slots : n.stack[i] = IF i = k THEN ApplyBop(cop, m.stack[k], m.stack[k + 1])
                                      ELSE m.stack[i]
        BY <1>1, <2>3 DEF Writes, SameStack
  <2> QED BY <1>7, <2>4 DEF n, cop
<1> QED BY <1>4, <1>6, <1>7

-----------------------------------------------------------------------------
(* The loop computes the values of the right operands                       *)

\* The stacks of m hold the operators of s, and their operands: the last one
\* may be missing, then it is the one shown, or its operator is dropped.
Holds(m, s, n, ob) ==
  /\ m.bop_stack_index = n
  /\ \A i \in 0..n - 1 :
       /\ m.bop_stack[i].cop = s[OpAt(ob, i)].op
       /\ m.bop_stack[i].priority =
            Priority(s[OpAt(ob, i)].op) + ob[i] * PARENTHESES_PRIORITY_RAISE
       /\ s[OpAt(ob, i)].dropped <=> m.stack_index = n /\ i = n - 1 /\ ~allow_repeated_equals
  /\ \A i \in 0..m.stack_index - 1 : m.stack[i].fval = s[NumAt(ob, i)].val
  /\ m.stack_index = n => s[NumAt(ob, n)].val = s[NumAt(ob, n - 1)].val

\* r is m after the loop has left k of the n operators of s.
Progress(r, k, m, s, n, ob, v) ==
  /\ Sound(r) /\ r.bop_stack = m.bop_stack /\ r.bin_op_was_entered = m.bin_op_was_entered
  /\ r.bop_stack_index = k /\ k \in 0..n
  /\ k = n => r = m
  /\ k < n => r.stack_index = k + 1
  /\ \A i \in 0..k - 1 : r.stack[i].fval = s[NumAt(ob, i)].val
  /\ r.stack_index = k + 1 => \A i \in k..n : r.stack[i].fval = v[i]

\* The slots of the arguments exist.
LEMMA HoldsSizes ==
  ASSUME NEW m, Sound(m), NEW s, NEW n, NEW ob, Holds(m, s, n, ob)
  PROVE  /\ n \in Nat /\ n + 1 <= STACK_SIZE
         /\ \A i \in 0..n : i \in Slots
         /\ m.stack_index = n \/ m.stack_index = n + 1
<1>1. m.bop_stack_index \in Nat /\ m.bop_stack_index <= BOP_STACK_SIZE
      BY IndexTypes DEF Sound
<1> QED BY <1>1, Sizes DEF Holds, Slots, Sound

\* Before the loop nothing is taken.
LEMMA ProgressStart ==
  ASSUME NEW m, Sound(m), NEW s, NEW n, NEW ob, Shaped(s, n, ob), Holds(m, s, n, ob),
         NEW v, IsFold(v, s, n, ob)
  PROVE  Progress(m, n, m, s, n, ob, v)
<1>1. n \in Nat /\ n \in 0..n /\ m.bop_stack_index = n /\ Len(s) = NumAt(ob, n)
      BY DEF Shaped, Holds
<1>2. m.stack_index = n \/ m.stack_index = n + 1
      BY HoldsSizes
<1>3. \A i \in 0..n - 1 : m.stack[i].fval = s[NumAt(ob, i)].val
  <2>1. \A i \in 0..n - 1 : i \in 0..m.stack_index - 1
        BY <1>1, <1>2
  <2> QED BY <2>1 DEF Holds
<1>4. ASSUME m.stack_index = n + 1 PROVE \A i \in n..n : m.stack[i].fval = v[i]
  <2>1. n \in 0..m.stack_index - 1
        BY <1>1, <1>4
  <2>2. m.stack[n].fval = s[NumAt(ob, n)].val
        BY <2>1 DEF Holds
  <2>3. v[n] = s[NumAt(ob, n)].val
        BY <1>1 DEF IsFold
  <2> QED BY <1>1, <2>2, <2>3
<1> QED BY <1>1, <1>3, <1>4 DEF Progress

\* In floating mode an operator is its function.
LEMMA ApplyFloat ==
  ASSUME calc_mode = "float", NEW cop, NEW a, NEW b
  PROVE  ApplyBop(cop, a, b).fval = FopBinary(cop, a.fval, b.fval)
BY DEF ApplyBop, FloatEl

\* Each turn of the loop takes one operator, and leaves the value of its right operand.
LEMMA StepProgress ==
  ASSUME ConfigOK, calc_mode = "float",
         NEW m, Sound(m), Runnable(m), NEW s, NEW n, NEW ob, Shaped(s, n, ob),
         Holds(m, s, n, ob), NEW v, IsFold(v, s, n, ob),
         NEW k, k \in Nat, NEW r, Progress(r, k + 1, m, s, n, ob, v),
         NEW priority, ~Stops(r, priority)
  PROVE  Progress(BinOpStep(r, priority), k, m, s, n, ob, v)
<1> DEFINE q   == BinOpStep(r, priority)
           cop == r.bop_stack[k].cop
           rt  == r.stack[IF r.stack_index = k + 1 THEN k ELSE k + 1]
           el  == IF r.stack_index = k + 1 /\ ~allow_repeated_equals THEN r.stack[k]
                  ELSE ApplyBop(cop, r.stack[k], rt)
<1>1. /\ n \in Nat /\ k < n /\ k \in 0..n - 1 /\ k + 1 \in 0..n /\ k \in 0..n /\ (k + 1) - 1 = k
      /\ \A i \in 0..n : i \in Slots
  <2>1. k + 1 \in 0..n
        BY DEF Progress
  <2>2. n \in Nat /\ \A i \in 0..n : i \in Slots
        BY HoldsSizes
  <2> QED BY <2>1, <2>2
<1>2. Sound(r) /\ r.bop_stack_index = k + 1 /\ r.bop_stack = m.bop_stack
      /\ r.bin_op_was_entered = m.bin_op_was_entered
      BY DEF Progress
<1>3. Runnable(r)
  <2>1. \A i \in 0..r.bop_stack_index - 1 : i \in 0..m.bop_stack_index - 1
        BY <1>1, <1>2 DEF Holds
  <2> QED BY <1>2, <2>1 DEF Runnable
<1>4. /\ Sound(q) /\ q.bop_stack = r.bop_stack
      /\ q.bin_op_was_entered = r.bin_op_was_entered
      /\ q.bop_stack_index = r.bop_stack_index - 1
      /\ q.stack_index = q.bop_stack_index + 1
      BY <1>2, <1>3, BinOpStepSound
<1>5. \A i \in Slots : q.stack[i] = IF i = k THEN el ELSE IF i = k + 1 THEN rt ELSE r.stack[i]
      BY <1>2, <1>3, BinOpStepWrites
<1> HIDE DEF q
<1>6. q.bop_stack_index = k /\ q.stack_index = k + 1
      BY <1>1, <1>2, <1>4
<1>7. \A i \in 0..k : r.stack[i].fval = s[NumAt(ob, i)].val
  <2>1. \A i \in 0..k : i \in 0..(k + 1) - 1
        BY <1>1
  <2> QED BY <2>1 DEF Progress
<1>8. ASSUME NEW i \in 0..k - 1 PROVE q.stack[i].fval = s[NumAt(ob, i)].val
  <2>1. i \in 0..k /\ i \in 0..n /\ i # k /\ i # k + 1
        BY <1>1
  <2> QED BY <2>1, <1>1, <1>5, <1>7
<1> DEFINE item == s[OpAt(ob, k)]
<1>9. v[k] = Combine(item, s[NumAt(ob, k)].val, v[k + 1])
      BY <1>1 DEF IsFold
<1>10. cop = item.op
  <2>1. m.bop_stack[k].cop = s[OpAt(ob, k)].op
        BY <1>1 DEF Holds
  <2> QED BY <2>1, <1>2
<1>11. item.dropped <=> m.stack_index = n /\ k = n - 1 /\ ~allow_repeated_equals
       BY <1>1 DEF Holds
<1>12. r.stack_index = k + 1 \/ r.stack_index = k + 2
       BY <1>1, <1>2 DEF Sound
<1>13. r.stack_index = k + 1 => m.stack_index = n /\ k = n - 1 /\ r = m
  <2> SUFFICES ASSUME r.stack_index = k + 1 PROVE m.stack_index = n /\ k = n - 1 /\ r = m
      OBVIOUS
  <2>1. ~(k + 1 < n)
    <3>1. k + 1 < n => r.stack_index = (k + 1) + 1
          BY DEF Progress
    <3> QED BY <3>1, <1>1
  <2>2. k + 1 = n
        BY <2>1, <1>1
  <2>3. r = m
        BY <2>2 DEF Progress
  <2> QED BY <2>2, <2>3, <1>1
<1>14. rt.fval = v[k + 1]
  <2>1. CASE r.stack_index = k + 1
    <3>1. m.stack_index = n /\ n = k + 1 /\ n - 1 = k
          BY <2>1, <1>1, <1>13
    <3>2. s[NumAt(ob, n)].val = s[NumAt(ob, k)].val
          BY <3>1 DEF Holds
    <3>3. v[n] = s[NumAt(ob, n)].val
          BY DEF IsFold, Shaped
    <3>4. rt.fval = s[NumAt(ob, k)].val
          BY <2>1, <1>1, <1>7
    <3> QED BY <3>1, <3>2, <3>3, <3>4
  <2>2. CASE r.stack_index = k + 2
    <3>1. r.stack_index = (k + 1) + 1 /\ k + 1 \in k + 1..n
          BY <2>2, <1>1
    <3>2. r.stack[k + 1].fval = v[k + 1]
          BY <3>1 DEF Progress
    <3> QED BY <3>2, <2>2, <1>1
  <2> QED BY <2>1, <2>2, <1>12
<1>15. el.fval = v[k]
  <2>1. r.stack[k].fval = s[NumAt(ob, k)].val
        BY <1>1, <1>7
  <2>2. CASE item.dropped
    <3>1. m.stack_index = n /\ k = n - 1 /\ ~allow_repeated_equals
          BY <2>2, <1>11
    <3>2. k + 1 = n
          BY <3>1, <1>1
    <3>3. r = m
          BY <3>2 DEF Progress
    <3>4. el = r.stack[k]
          BY <3>1, <3>2, <3>3
    <3> QED BY <2>1, <2>2, <3>4, <1>9 DEF Combine
  <2>3. CASE ~item.dropped
    <3>1. ~(r.stack_index = k + 1 /\ ~allow_repeated_equals)
          BY <2>3, <1>11, <1>13
    <3>2. el = ApplyBop(cop, r.stack[k], rt)
          BY <3>1
    <3>3. el.fval = FopBinary(cop, r.stack[k].fval, rt.fval)
      <4> HIDE DEF cop, rt, el
      <4> QED BY <3>2, ApplyFloat
    <3>4. v[k] = FopBinary(item.op, s[NumAt(ob, k)].val, v[k + 1])
          BY <2>3, <1>9 DEF Combine
    <3> QED BY <3>3, <3>4, <2>1, <1>10, <1>14
  <2> QED BY <2>2, <2>3
<1> HIDE DEF el, rt, cop, item
<1>16. ASSUME NEW i \in k..n PROVE q.stack[i].fval = v[i]
  <2>0. i \in Slots /\ i \in 0..n
        BY <1>1
  <2>1. CASE i = k
        BY <2>0, <2>1, <1>5, <1>15
  <2>2. CASE i = k + 1
        BY <2>0, <2>2, <1>1, <1>5, <1>14
  <2>3. CASE i # k /\ i # k + 1
    <3>1. i \in k + 1..n /\ k + 1 < n
          BY <2>3, <1>1
    <3>2. r.stack_index = (k + 1) + 1
          BY <3>1 DEF Progress
    <3>3. r.stack[i].fval = v[i]
          BY <3>1, <3>2 DEF Progress
    <3> QED BY <2>0, <2>3, <3>3, <1>5
  <2> QED BY <2>1, <2>2, <2>3
<1>17. k # n
       BY <1>1
<1>18. Progress(q, k, m, s, n, ob, v)
       BY <1>1, <1>2, <1>4, <1>6, <1>8, <1>16, <1>17 DEF Progress
<1> QED BY <1>18 DEF q

\* The operators taken are those that bind at least as tight as the one that
\* the loop is called for.
LEMMA ProcessIs ==
  ASSUME ConfigOK, calc_mode = "float",
         NEW m, Sound(m), Runnable(m), NEW s, NEW n, NEW ob, Shaped(s, n, ob),
         Holds(m, s, n, ob), NEW v, IsFold(v, s, n, ob), NEW priority
  PROVE  \E k : /\ Progress(ProcessBinOps(m, priority), k, m, s, n, ob, v)
                /\ k = 0 \/ priority > m.bop_stack[k - 1].priority
                /\ \A i \in k..n - 1 : ~(priority > m.bop_stack[i].priority)
<1> DEFINE Taken(k) == \A i \in k..n - 1 : ~(priority > m.bop_stack[i].priority)
           Turn(r, i) == \E k : /\ Progress(r, k, m, s, n, ob, v)
                                /\ Taken(k)
                                /\ Stops(r, priority) \/ k = n - i
<1>1. n \in Nat /\ n <= BOP_STACK_SIZE /\ BOP_STACK_SIZE \in Nat /\ m.bop_stack_index = n
  <2>1. m.bop_stack_index = n
        BY DEF Holds
  <2> QED BY <2>1, IndexTypes, Sizes DEF Sound
<1>2. PICK f : /\ IsRun(f, m, priority, BOP_STACK_SIZE)
               /\ ProcessBinOps(m, priority) = f[n]
      BY <1>1, ProcessBinOpsRun
<1> DEFINE S == {i \in Nat : i <= n => Turn(f[i], i)}
<1>3. 0 \in S
  <2>1. f[0] = m
        BY <1>1, <1>2 DEF IsRun
  <2>2. Progress(m, n, m, s, n, ob, v)
        BY ProgressStart
  <2>3. n..n - 1 = {} /\ n - 0 = n
        BY <1>1
  <2>4. Taken(n)
        BY <2>3
  <2> HIDE DEF Taken
  <2>5. Turn(f[0], 0)
        BY <2>1, <2>2, <2>3, <2>4
  <2> HIDE DEF Turn
  <2> QED BY <2>5
<1>4. ASSUME NEW i \in Nat, i \in S PROVE i + 1 \in S
  <2> SUFFICES ASSUME i + 1 <= n PROVE Turn(f[i + 1], i + 1)
      BY <1>1
  <2> DEFINE r == f[i]
  <2>1. PICK k : /\ Progress(r, k, m, s, n, ob, v)
                 /\ Taken(k)
                 /\ Stops(r, priority) \/ k = n - i
        BY <1>4, <1>1
  <2>2. f[i + 1] = BinOpStep(r, priority)
    <3>1. i + 1 \in 0..BOP_STACK_SIZE /\ i + 1 # 0 /\ (i + 1) - 1 = i
          BY <1>1
    <3> QED BY <3>1, <1>2, Zenon DEF IsRun
  <2>3. r.bop_stack_index = k /\ k \in 0..n /\ r.bop_stack = m.bop_stack
        BY <2>1 DEF Progress
  <2> HIDE DEF r, Taken
  <2>4. CASE Stops(r, priority)
    <3>1. BinOpStep(r, priority) = r
          BY <2>4 DEF BinOpStep, Stops, BopPop
    <3> QED BY <3>1, <2>1, <2>2, <2>4
  <2>5. CASE ~Stops(r, priority)
    <3>1. k > 0 /\ k - 1 \in Nat /\ k = (k - 1) + 1 /\ k = n - i /\ k - 1 = n - (i + 1)
          /\ ~(priority > m.bop_stack[k - 1].priority)
          BY <2>1, <2>3, <2>5, <1>1 DEF Stops
    <3>2. Progress(r, (k - 1) + 1, m, s, n, ob, v)
          BY <2>1, <3>1
    <3>3. Progress(BinOpStep(r, priority), k - 1, m, s, n, ob, v)
          BY <2>5, <3>1, <3>2, StepProgress
    <3>4. Taken(k - 1)
      <4>1. \A j \in k - 1..n - 1 : j = k - 1 \/ j \in k..n - 1
            BY <3>1, <2>3, <1>1
      <4> QED BY <4>1, <3>1, <2>1 DEF Taken
    <3> QED BY <3>1, <3>3, <3>4, <2>2
  <2> QED BY <2>4, <2>5
<1>5. n \in S
  <2> HIDE DEF S
  <2> QED BY <1>1, <1>3, <1>4, Induction
<1>6. PICK k : /\ Progress(f[n], k, m, s, n, ob, v)
               /\ Taken(k)
               /\ Stops(f[n], priority) \/ k = n - n
      BY <1>1, <1>5
<1>7. f[n].bop_stack_index = k /\ f[n].bop_stack = m.bop_stack /\ k \in 0..n
      BY <1>6 DEF Progress
<1>8. k = 0 \/ priority > m.bop_stack[k - 1].priority
  <2>1. n - n = 0
        BY <1>1
  <2> QED BY <2>1, <1>6, <1>7 DEF Stops
<1> QED BY <1>2, <1>6, <1>8

-----------------------------------------------------------------------------
(* The number of open brackets                                              *)

\* The open brackets are as many as the level of the last number.
LEMMA OpensCount ==
  ASSUME NEW e, NEW n, NEW ob, Shaped(e, n, ob)
  PROVE  Cardinality(Abstract!Opens(e)) = ob[n]
<1> DEFINE C(i) == {p \in Abstract!Opens(e) : p <= NumAt(ob, i)}
           Counted(i) == IsFiniteSet(C(i)) /\ Cardinality(C(i)) = ob[i]
           S == {i \in Nat : i <= n => Counted(i)}
<1>1. n \in Nat /\ ob \in Levels(n) /\ Len(e) = NumAt(ob, n) /\ Len(e) \in Nat
      BY ShapedItems DEF Shaped
<1>2. /\ \A i \in 0..n : ob[i] \in Nat /\ NumAt(ob, i) \in 1..Len(e)
      /\ \A i, j \in 0..n : i <= j => ob[i] <= ob[j]
      BY <1>1, ShapedItems DEF Levels
<1>3. \A p : p \in Abstract!Opens(e) <=> /\ p \in 1..Len(e)
                                         /\ \A i \in 0..n : p # NumAt(ob, i)
                                         /\ \A i \in 0..n - 1 : p # OpAt(ob, i)
      BY OpensAre DEF Abstract!Opens
<1>4. Counted(0)
  <2>1. C(0) = 1..ob[0]
    <3>1. ASSUME NEW p \in C(0) PROVE p \in 1..ob[0]
      <4>1. p \in Abstract!Opens(e) /\ p <= NumAt(ob, 0)
            OBVIOUS
      <4>2. p \in 1..Len(e) /\ p # NumAt(ob, 0)
            BY <1>1, <1>3, <4>1
      <4> QED BY <4>1, <4>2, <1>1, <1>2 DEF NumAt
    <3>2. ASSUME NEW p, p \in 1..ob[0] PROVE p \in C(0)
      <4>1. p \in 1..Len(e) /\ p <= NumAt(ob, 0) /\ p < NumAt(ob, 0) /\ ob[0] \in Nat /\ p \in Nat
            BY <3>2, <1>1, <1>2 DEF NumAt
      <4>2. ASSUME NEW i \in 0..n PROVE p # NumAt(ob, i) /\ p # OpAt(ob, i)
        <5>1. ob[0] <= ob[i] /\ ob[i] \in Nat
              BY <1>1, <1>2
        <5> QED BY <5>1, <4>1 DEF NumAt, OpAt
      <4>3. p \in Abstract!Opens(e)
        <5>1. \A i \in 0..n - 1 : i \in 0..n
              BY <1>1
        <5>2. \A i \in 0..n : p # NumAt(ob, i)
              BY <4>2
        <5>3. \A i \in 0..n - 1 : p # OpAt(ob, i)
              BY <4>2, <5>1
        <5> QED BY <1>3, <4>1, <5>2, <5>3
      <4> QED BY <4>1, <4>3
    <3> QED BY <3>1, <3>2
  <2>2. ob[0] \in Nat
        BY <1>1, <1>2
  <2>3. IsFiniteSet(1..ob[0]) /\ Cardinality(1..ob[0]) = ob[0]
    <3>1. 1 \in Int /\ ob[0] \in Int
          BY <2>2
    <3>2. IsFiniteSet(1..ob[0]) /\ Cardinality(1..ob[0]) = IF 1 > ob[0] THEN 0 ELSE ob[0] - 1 + 1
          BY <3>1, FS_Interval
    <3> QED BY <3>2, <2>2
  <2> QED BY <2>1, <2>3
<1>5. ASSUME NEW i \in Nat, i \in S PROVE i + 1 \in S
  <2> SUFFICES ASSUME i + 1 <= n PROVE Counted(i + 1)
      BY <1>1
  <2> DEFINE a == OpAt(ob, i) + 1
             z == NumAt(ob, i + 1) - 1
  <2>0. i \in 0..n - 1 /\ i \in 0..n /\ i + 1 \in 0..n /\ i <= n /\ i <= i + 1
        BY <1>1
  <2>a. /\ ob[i] \in Nat /\ ob[i + 1] \in Nat /\ ob[i] <= ob[i + 1]
        /\ NumAt(ob, i) \in 1..Len(e) /\ NumAt(ob, i + 1) \in 1..Len(e)
        BY <2>0, <1>2
  <2>b. /\ NumAt(ob, i) = 2 * i + 1 + ob[i]
        /\ OpAt(ob, i) = 2 * i + 2 + ob[i]
        /\ NumAt(ob, i + 1) = 2 * (i + 1) + 1 + ob[i + 1]
        BY DEF NumAt, OpAt
  <2>1. /\ a = 2 * i + 3 + ob[i] /\ z = 2 * i + 2 + ob[i + 1]
        /\ NumAt(ob, i) = a - 2 /\ OpAt(ob, i) = a - 1
        /\ NumAt(ob, i + 1) = z + 1
        /\ a \in Nat /\ z \in Nat /\ a <= z + 1
        /\ z - a + 1 = ob[i + 1] - ob[i]
    <3> DEFINE c == ob[i]
               d == ob[i + 1]
    <3>1. c \in Nat /\ d \in Nat /\ c <= d
          BY <2>a
    <3> HIDE DEF c, d
    <3>2. /\ NumAt(ob, i) = 2 * i + 1 + c
          /\ OpAt(ob, i) = 2 * i + 2 + c
          /\ NumAt(ob, i + 1) = 2 * (i + 1) + 1 + d
          BY <2>b DEF c, d
    <3>3. /\ a = 2 * i + 3 + c /\ z = 2 * i + 2 + d
          /\ NumAt(ob, i) = a - 2 /\ OpAt(ob, i) = a - 1
          /\ NumAt(ob, i + 1) = z + 1
          /\ a \in Nat /\ z \in Nat /\ a <= z + 1
          /\ z - a + 1 = d - c
          BY <3>1, <3>2
    <3> QED BY <3>3 DEF c, d
  <2>2. Counted(i)
        BY <1>5, <2>0
  <2> HIDE DEF a, z
  <2>c. /\ \A j \in 0..n : /\ NumAt(ob, j) \in Nat /\ OpAt(ob, j) = NumAt(ob, j) + 1
                           /\ j <= i => OpAt(ob, j) <= a - 1
                           /\ j >= i + 1 => NumAt(ob, j) >= z + 1
    <3> SUFFICES ASSUME NEW j \in 0..n
                 PROVE  /\ NumAt(ob, j) \in Nat /\ OpAt(ob, j) = NumAt(ob, j) + 1
                        /\ j <= i => OpAt(ob, j) <= a - 1
                        /\ j >= i + 1 => NumAt(ob, j) >= z + 1
        OBVIOUS
    <3>1. j \in Nat /\ NumAt(ob, j) \in Nat /\ OpAt(ob, j) = NumAt(ob, j) + 1
          BY <1>1, Positions
    <3>2. CASE j = i
          BY <3>1, <3>2, <2>1
    <3>3. CASE j = i + 1
          BY <3>1, <3>3, <2>1
    <3>4. CASE j < i
      <4>1. OpAt(ob, j) < NumAt(ob, i)
            BY <3>4, <2>0, <1>1, Positions
      <4> QED BY <4>1, <3>1, <3>4, <2>1
    <3>5. CASE j > i + 1
      <4>1. OpAt(ob, i + 1) < NumAt(ob, j) /\ OpAt(ob, i + 1) = NumAt(ob, i + 1) + 1
            BY <3>5, <2>0, <1>1, Positions
      <4> QED BY <4>1, <3>1, <3>5, <2>1
    <3> QED BY <3>1, <3>2, <3>3, <3>4, <3>5
  <2>3. C(i + 1) = C(i) \cup (a..z)
    <3>1. ASSUME NEW p \in C(i + 1), p \notin C(i) PROVE p \in a..z
      <4>1. p \in Abstract!Opens(e) /\ p <= NumAt(ob, i + 1) /\ ~(p <= NumAt(ob, i))
            BY <3>1
      <4>2. p \in 1..Len(e) /\ p # NumAt(ob, i + 1) /\ p # OpAt(ob, i)
            BY <2>0, <1>3, <4>1
      <4>3. p \in Nat /\ p <= z + 1 /\ p # z + 1 /\ ~(p <= a - 2) /\ p # a - 1
            BY <4>1, <4>2, <2>1
      <4> QED BY <4>3, <2>1
    <3>2. ASSUME NEW p, p \in a..z PROVE p \in C(i + 1)
      <4>1. p \in 1..Len(e) /\ p <= NumAt(ob, i + 1) /\ p \in Nat /\ a <= p /\ p <= z
        <5>1. p \in Nat /\ a <= p /\ p <= z
              BY <3>2, <2>1
        <5>2. NumAt(ob, i + 1) = z + 1 /\ z + 1 <= Len(e) /\ a >= 1 /\ z \in Nat /\ a \in Nat
              BY <2>a, <2>1
        <5>3. Len(e) \in Nat
              BY <1>1
        <5> QED BY <5>1, <5>2, <5>3
      <4>2. ASSUME NEW j \in 0..n PROVE p # NumAt(ob, j) /\ p # OpAt(ob, j)
        <5>1. j <= i \/ j >= i + 1
              OBVIOUS
        <5>2. /\ NumAt(ob, j) \in Nat /\ OpAt(ob, j) = NumAt(ob, j) + 1
              /\ j <= i => OpAt(ob, j) <= a - 1
              /\ j >= i + 1 => NumAt(ob, j) >= z + 1
              BY <2>c
        <5> HIDE DEF C
        <5>3. p >= a /\ p <= z /\ a \in Nat /\ z \in Nat /\ p \in Nat
              BY <4>1, <2>1
        <5>4. CASE j <= i
              BY <5>2, <5>3, <5>4
        <5>5. CASE j >= i + 1
              BY <5>2, <5>3, <5>5
        <5> QED BY <5>1, <5>4, <5>5
      <4>3. \A j \in 0..n - 1 : j \in 0..n
            BY <1>1
      <4>5. /\ \A j \in 0..n : p # NumAt(ob, j)
            /\ \A j \in 0..n - 1 : p # OpAt(ob, j)
            BY <4>2, <4>3
      <4>4. p \in Abstract!Opens(e)
            BY <1>3, <4>1, <4>5
      <4> QED BY <4>1, <4>4
    <3>3. ASSUME NEW p \in C(i) PROVE p \in C(i + 1)
      <4>1. p \in Abstract!Opens(e) /\ p <= NumAt(ob, i) /\ p \in 1..Len(e)
            BY <1>3
      <4>2. p <= NumAt(ob, i + 1)
            BY <4>1, <2>1
      <4> QED BY <4>1, <4>2
    <3> HIDE DEF C
    <3> QED BY <3>1, <3>2, <3>3
  <2>4. C(i) \cap (a..z) = {}
    <3>1. \A p \in C(i) : p <= a - 2
          BY <2>1
    <3> HIDE DEF C
    <3> QED BY <3>1, <2>1
  <2>5. IsFiniteSet(a..z) /\ Cardinality(a..z) = ob[i + 1] - ob[i]
    <3>1. a \in Int /\ z \in Int
          BY <2>1
    <3>2. IsFiniteSet(a..z) /\ Cardinality(a..z) = IF a > z THEN 0 ELSE z - a + 1
          BY <3>1, FS_Interval
    <3>3. Cardinality(a..z) = z - a + 1
      <4>1. a <= z + 1
            BY <2>1
      <4> QED BY <3>1, <3>2, <4>1
    <3> QED BY <3>2, <3>3, <2>1
  <2> HIDE DEF C
  <2>6. IsFiniteSet(C(i) \cup (a..z))
        /\ Cardinality(C(i) \cup (a..z))
             = Cardinality(C(i)) + Cardinality(a..z) - Cardinality(C(i) \cap (a..z))
        BY <2>2, <2>5, FS_Union
  <2>7. Cardinality(C(i) \cap (a..z)) = 0
        BY <2>4, FS_EmptySet
  <2>8. ob[i] + (ob[i + 1] - ob[i]) - 0 = ob[i + 1]
        BY <2>a
  <2> QED BY <2>2, <2>3, <2>5, <2>6, <2>7, <2>8
<1>6. n \in S
  <2>1. 0 \in S
        BY <1>4
  <2> HIDE DEF S
  <2> QED BY <2>1, <1>1, <1>5, Induction
<1>7. C(n) = Abstract!Opens(e)
  <2>1. \A p \in Abstract!Opens(e) : p <= NumAt(ob, n)
        BY <1>1 DEF Abstract!Opens
  <2> QED BY <2>1
<1>8. Counted(n)
      BY <1>1, <1>6
<1> QED BY <1>7, <1>8

-----------------------------------------------------------------------------
(* The stacks agree with the expression                                     *)

\* Slot i of the arguments holds the i-th number of x and slot i of the operators
\* the operator behind it, with the priority of its level.
Agrees(m, x, n, ob) ==
  /\ ExprShape(x, n, ob)
  /\ m.bop_stack_index = n
  /\ m.stack_index = IF Abstract!Dangling(x) THEN n ELSE n + 1
  /\ \A i \in 0..n - 1 :
       /\ m.bop_stack[i].cop = Full(x)[OpAt(ob, i)].op
       /\ m.bop_stack[i].priority =
            Priority(Full(x)[OpAt(ob, i)].op) + ob[i] * PARENTHESES_PRIORITY_RAISE
       /\ ~Full(x)[OpAt(ob, i)].dropped
  /\ \A i \in 0..m.stack_index - 1 : m.stack[i].fval = Full(x)[NumAt(ob, i)].val

\* Only the two stacks matter.
LEMMA AgreesSame ==
  ASSUME NEW m, NEW x, NEW n, NEW ob, Agrees(m, x, n, ob), NEW q,
         q.stack = m.stack, q.stack_index = m.stack_index,
         q.bop_stack = m.bop_stack, q.bop_stack_index = m.bop_stack_index
  PROVE  Agrees(q, x, n, ob)
BY DEF Agrees

\* An operator that still waits for its second operand takes the value shown.
LEMMA AgreesHolds ==
  ASSUME NEW m, NEW x, NEW n, NEW ob, Agrees(m, x, n, ob), allow_repeated_equals \in BOOLEAN
  PROVE  /\ Shaped(Abstract!Settled(x), n, ob)
         /\ Holds(m, Abstract!Settled(x), n, ob)
<1> DEFINE s == Abstract!Settled(x)
           y == Full(x)
<1>1. ExprShape(x, n, ob)
      BY DEF Agrees
<1>2. /\ Shaped(s, n, ob)
      /\ \A i \in 0..n : s[NumAt(ob, i)] = y[NumAt(ob, i)]
      /\ \A i \in 0..n - 1 :
           /\ s[OpAt(ob, i)].op = y[OpAt(ob, i)].op
           /\ s[OpAt(ob, i)].dropped =
                IF Abstract!Dangling(x) /\ i = n - 1 THEN ~allow_repeated_equals
                ELSE y[OpAt(ob, i)].dropped
      BY <1>1, SettledIs
<1>3. n \in Nat /\ Len(y) = NumAt(ob, n)
      BY <1>1, FullFacts
<1>4. m.stack_index = n <=> Abstract!Dangling(x)
      BY <1>3 DEF Agrees
<1>5. Abstract!Dangling(x) => /\ n - 1 \in 0..n - 1 /\ n - 1 \in 0..n /\ n \in 0..n
                              /\ y[NumAt(ob, n)] = Abstract!Num(y[NumAt(ob, n - 1)].val)
      BY <1>1, <1>3, FullFacts
<1> HIDE DEF s, y
<1>6. m.bop_stack_index = n
      BY DEF Agrees
<1>7. ASSUME NEW i \in 0..n - 1
      PROVE  /\ m.bop_stack[i].cop = s[OpAt(ob, i)].op
             /\ m.bop_stack[i].priority =
                  Priority(s[OpAt(ob, i)].op) + ob[i] * PARENTHESES_PRIORITY_RAISE
             /\ s[OpAt(ob, i)].dropped <=> m.stack_index = n /\ i = n - 1 /\ ~allow_repeated_equals
  <2>1. /\ m.bop_stack[i].cop = y[OpAt(ob, i)].op
        /\ m.bop_stack[i].priority =
             Priority(y[OpAt(ob, i)].op) + ob[i] * PARENTHESES_PRIORITY_RAISE
        /\ ~y[OpAt(ob, i)].dropped
        BY DEF Agrees, y
  <2>2. s[OpAt(ob, i)].op = y[OpAt(ob, i)].op
        BY <1>2
  <2>3. s[OpAt(ob, i)].dropped = IF Abstract!Dangling(x) /\ i = n - 1 THEN ~allow_repeated_equals
                                 ELSE y[OpAt(ob, i)].dropped
        BY <1>2
  <2>4. s[OpAt(ob, i)].dropped <=> m.stack_index = n /\ i = n - 1 /\ ~allow_repeated_equals
        BY <2>1, <2>3, <1>4, Zenon
  <2> QED BY <2>1, <2>2, <2>4
<1>8. ASSUME NEW i \in 0..m.stack_index - 1 PROVE m.stack[i].fval = s[NumAt(ob, i)].val
  <2>1. m.stack[i].fval = y[NumAt(ob, i)].val
        BY DEF Agrees, y
  <2>2. i \in 0..n
        BY <1>3 DEF Agrees
  <2> QED BY <2>1, <2>2, <1>2
<1>9. m.stack_index = n => s[NumAt(ob, n)].val = s[NumAt(ob, n - 1)].val
  <2> SUFFICES ASSUME m.stack_index = n PROVE s[NumAt(ob, n)].val = s[NumAt(ob, n - 1)].val
      OBVIOUS
  <2>1. s[NumAt(ob, n)] = y[NumAt(ob, n)] /\ s[NumAt(ob, n - 1)] = y[NumAt(ob, n - 1)]
        BY <1>2, <1>4, <1>5
  <2> QED BY <2>1, <1>4, <1>5 DEF Abstract!Num
<1>10. Holds(m, s, n, ob)
      BY <1>6, <1>7, <1>8, <1>9 DEF Holds
<1> QED BY <1>2, <1>10 DEF s

\* The value on top of the stack is the one the grammar gives for the display.
LEMMA TopShows ==
  ASSUME NEW m, Sound(m), NEW x, NEW n, NEW ob, Agrees(m, x, n, ob)
  PROVE  StackTop(m).fval = Abstract!Display(x)
<1>1. ExprShape(x, n, ob)
      BY DEF Agrees
<1>2. Abstract!Display(x) = Full(x)[Len(Full(x))].val
      BY <1>1, DisplayIs
<1>3. n \in Nat /\ Len(Full(x)) = NumAt(ob, n)
      BY <1>1, FullFacts
<1>4. StackTop(m) = m.stack[m.stack_index - 1] /\ m.stack_index - 1 \in 0..m.stack_index - 1
  <2>1. m.stack_index \in Nat /\ m.stack_index >= 1
        BY IndexTypes DEF Sound
  <2> QED BY <2>1, TopSlot
<1>5. m.stack[m.stack_index - 1].fval = Full(x)[NumAt(ob, m.stack_index - 1)].val
      BY <1>4 DEF Agrees
<1>6. CASE Abstract!Dangling(x)
  <2>1. Full(x)[Len(Full(x))] = Abstract!Num(Full(x)[NumAt(ob, n - 1)].val)
        BY <1>1, <1>6, FullFacts
  <2>2. m.stack_index = n
        BY <1>6 DEF Agrees
  <2> QED BY <2>1, <2>2, <1>2, <1>4, <1>5 DEF Abstract!Num
<1>7. CASE ~Abstract!Dangling(x)
  <2>1. m.stack_index - 1 = n
        BY <1>7, <1>3 DEF Agrees
  <2> QED BY <2>1, <1>2, <1>3, <1>4, <1>5
<1> QED BY <1>6, <1>7

\* An operator waits if the expression has one.
LEMMA OpsNonEmpty ==
  ASSUME NEW x, NEW n, NEW ob, ExprShape(x, n, ob)
  PROVE  Abstract!Ops(x) # {} <=> n > 0
<1> DEFINE y == Full(x)
<1>1. /\ Shaped(y, n, ob) /\ n \in Nat
      /\ Len(x) \in Nat /\ Len(x) >= 1
      /\ \A p \in 1..Len(x) : y[p] = x[p]
      BY FullFacts DEF ExprShape
<1>2. Len(x) <= Len(y)
      BY <1>1, FullFacts
<1>3. Abstract!Dangling(x) => n > 0 /\ Len(x) \in Abstract!Ops(x)
      BY <1>1, FullFacts DEF Abstract!Ops
<1>4. ASSUME NEW p \in Abstract!Ops(x) PROVE n > 0
  <2>1. p \in 1..Len(y) /\ y[p].kind = "op"
        BY <1>1, <1>2, ShapedItems DEF Abstract!Ops
  <2>2. \E i \in 0..n - 1 : p = OpAt(ob, i)
        BY <2>1, <1>1, OpsAre
  <2> QED BY <2>2, <1>1
<1>5. ASSUME n > 0, ~Abstract!Dangling(x) PROVE Abstract!Ops(x) # {}
  <2>1. 0 \in 0..n - 1 /\ y = x
        BY <1>1, <1>5, FullFacts
  <2>2. OpAt(ob, 0) \in 1..Len(y) /\ y[OpAt(ob, 0)].kind = "op"
        BY <2>1, <1>1, ShapedItems DEF Shaped
  <2> HIDE DEF y
  <2> QED BY <2>1, <2>2 DEF Abstract!Ops
<1> QED BY <1>3, <1>4, <1>5

\* The same for an expression with a dangling operator.
LEMMA OpensOfFull ==
  ASSUME NEW x, NEW n, NEW ob, ExprShape(x, n, ob)
  PROVE  /\ Cardinality(Abstract!Opens(x)) = ob[n]
         /\ Abstract!Opens(x) = {} <=> ob[n] = 0
<1> DEFINE y == Full(x)
<1>1. /\ Shaped(y, n, ob) /\ n \in Nat
      /\ Len(x) \in Nat /\ Len(x) >= 1
      /\ \A p \in 1..Len(x) : y[p] = x[p]
      BY FullFacts DEF ExprShape
<1>2. Abstract!Opens(x) = Abstract!Opens(y)
  <2>1. CASE ~Abstract!Dangling(x)
        BY <2>1, FullFacts
  <2>2. CASE Abstract!Dangling(x)
    <3>1. Len(y) = Len(x) + 1 /\ y[Len(y)].kind # "open"
      <4>1. Len(y) = Len(x) + 1 /\ y[Len(y)] = Abstract!Num(y[NumAt(ob, n - 1)].val)
            BY <2>2, FullFacts
      <4> QED BY <4>1 DEF Abstract!Num
    <3> HIDE DEF y
    <3>2. \A p : p \in Abstract!Opens(y) <=> p \in 1..Len(x) /\ y[p].kind = "open"
          BY <3>1, <1>1 DEF Abstract!Opens
    <3>3. \A p : p \in Abstract!Opens(x) <=> p \in 1..Len(x) /\ y[p].kind = "open"
          BY <1>1 DEF Abstract!Opens
    <3> QED BY <3>2, <3>3
  <2> QED BY <2>1, <2>2
<1>3. Cardinality(Abstract!Opens(y)) = ob[n]
      BY <1>1, OpensCount
<1>4. Abstract!Opens(y) = {} <=> ob[n] = 0
  <2>1. PICK b : Starts(ob, n, b)
        BY <1>1, StartExists DEF Shaped
  <2> QED BY <2>1, <1>1, InnerIs
<1> QED BY <1>2, <1>3, <1>4

-----------------------------------------------------------------------------
(* A number on the stacks and in the expression                             *)

\* q has the argument el where the last number of the expression belongs.
Placed(q, m, n, el) ==
  /\ q.bop_stack = m.bop_stack /\ q.bop_stack_index = m.bop_stack_index
  /\ q.stack_index = n + 1
  /\ Writes(q, m, n, el)

\* g and y are the same before their n-th number.
SameBefore(g, ob1, y, ob, n) ==
  \A i \in 0..n - 1 :
    /\ ob1[i] = ob[i]
    /\ g[NumAt(ob1, i)] = y[NumAt(ob, i)]
    /\ g[OpAt(ob1, i)] = y[OpAt(ob, i)]

\* An argument pushed or replaced, and the same number at the end of the expression.
LEMMA PlacedAgrees ==
  ASSUME NEW m, Sound(m), NEW x, NEW n, NEW ob, Agrees(m, x, n, ob),
         NEW q, NEW el, Placed(q, m, n, el),
         NEW g, NEW ob1, Shaped(g, n, ob1), NumAt(ob1, n) = Len(g),
         g[Len(g)] = Abstract!Num(el.fval), SameBefore(g, ob1, Full(x), ob, n)
  PROVE  Agrees(q, g, n, ob1)
<1>1. ExprShape(x, n, ob) /\ m.bop_stack_index = n
      BY DEF Agrees
<1>2. n \in Nat /\ n \in 0..n
      BY <1>1, FullFacts
<1>3. m.stack_index = n \/ m.stack_index = n + 1
      BY <1>1 DEF Agrees
<1>4. \A i \in 0..n : i \in Slots
  <2>1. m.bop_stack_index <= BOP_STACK_SIZE
        BY IndexTypes DEF Sound
  <2> QED BY <1>1, <1>2, <2>1, Sizes DEF Slots
<1>5. ~Abstract!Dangling(g) /\ g \in Seq(Item)
      BY DEF Shaped, Abstract!Dangling, Abstract!Last, Abstract!Num
<1>6. Full(g) = g
      BY <1>5 DEF Full
<1>7. ExprShape(g, n, ob1)
      BY <1>5, <1>6 DEF ExprShape
<1>8. ASSUME NEW i \in 0..n - 1
      PROVE  /\ q.bop_stack[i].cop = g[OpAt(ob1, i)].op
             /\ q.bop_stack[i].priority =
                  Priority(g[OpAt(ob1, i)].op) + ob1[i] * PARENTHESES_PRIORITY_RAISE
             /\ ~g[OpAt(ob1, i)].dropped
  <2>1. /\ m.bop_stack[i].cop = Full(x)[OpAt(ob, i)].op
        /\ m.bop_stack[i].priority =
             Priority(Full(x)[OpAt(ob, i)].op) + ob[i] * PARENTHESES_PRIORITY_RAISE
        /\ ~Full(x)[OpAt(ob, i)].dropped
        BY DEF Agrees
  <2>2. g[OpAt(ob1, i)] = Full(x)[OpAt(ob, i)] /\ ob1[i] = ob[i] /\ q.bop_stack = m.bop_stack
        BY DEF Placed, SameBefore
  <2> QED BY <2>1, <2>2
<1>9. ASSUME NEW i \in 0..q.stack_index - 1 PROVE q.stack[i].fval = g[NumAt(ob1, i)].val
  <2>1. i \in 0..n
        BY <1>2 DEF Placed
  <2>2. i \in Slots
        BY <1>4, <2>1
  <2>3. CASE i = n
    <3>1. q.stack[i] = el
          BY <2>2, <2>3 DEF Placed, Writes
    <3> QED BY <2>3, <3>1 DEF Abstract!Num
  <2>4. CASE i # n
    <3>1. q.stack[i] = m.stack[i]
          BY <2>2, <2>4 DEF Placed, Writes
    <3>2. i \in 0..n - 1 /\ i \in 0..m.stack_index - 1
          BY <1>2, <1>3, <2>1, <2>4
    <3>3. m.stack[i].fval = Full(x)[NumAt(ob, i)].val
          BY <3>2 DEF Agrees
    <3> QED BY <3>1, <3>2, <3>3 DEF SameBefore
  <2> QED BY <2>3, <2>4
<1>10. q.bop_stack_index = n /\ q.stack_index = n + 1
      BY <1>1 DEF Placed
<1> QED BY <1>5, <1>6, <1>7, <1>8, <1>9, <1>10 DEF Agrees

\* What comes before the number.
Before(x) == IF Abstract!Dangling(x) THEN x ELSE Abstract!Front(x)

\* What comes before the last number, item by item.
LEMMA BeforeFacts ==
  ASSUME NEW x, NEW n, NEW ob, ExprShape(x, n, ob)
  PROVE  /\ Before(x) \in Seq(Item)
         /\ Len(Before(x)) \in Nat /\ Len(Before(x)) = NumAt(ob, n) - 1
         /\ \A p \in 1..Len(Before(x)) : Before(x)[p] = Full(x)[p]
<1>1. /\ n \in Nat /\ Len(x) \in Nat /\ Len(x) >= 1
      /\ Len(Full(x)) = NumAt(ob, n)
      /\ \A p \in 1..Len(x) : Full(x)[p] = x[p]
      /\ x \in Seq(Item)
      BY FullFacts DEF ExprShape
<1>2. CASE Abstract!Dangling(x)
  <2>1. Len(Full(x)) = Len(x) + 1
        BY <1>2, FullFacts
  <2> QED BY <1>1, <1>2, <2>1 DEF Before
<1>3. CASE ~Abstract!Dangling(x)
  <2>1. Full(x) = x
        BY <1>3, FullFacts
  <2>2. Len(x) - 1 \in 0..Len(x)
        BY <1>1
  <2>3. /\ SubSeq(x, 1, Len(x) - 1) \in Seq(Item)
        /\ Len(SubSeq(x, 1, Len(x) - 1)) = Len(x) - 1
        /\ \A p \in 1..Len(x) - 1 : SubSeq(x, 1, Len(x) - 1)[p] = x[p]
        BY <1>1, <2>2, PrefixFacts
  <2>4. Before(x) = SubSeq(x, 1, Len(x) - 1)
        BY <1>3 DEF Before, Abstract!Front
  <2> QED BY <1>1, <2>1, <2>2, <2>3, <2>4
<1> QED BY <1>2, <1>3

\* A number takes the place of the last one.
LEMMA NumberAgrees ==
  ASSUME NEW m, Sound(m), NEW x, NEW n, NEW ob, Agrees(m, x, n, ob),
         NEW q, NEW el, el.fval \in FVal, Placed(q, m, n, el)
  PROVE  Agrees(q, Append(Before(x), Abstract!Num(el.fval)), n, ob)
<1> DEFINE u == Before(x)
           v == el.fval
           g == Append(u, Abstract!Num(v))
<1>1. ExprShape(x, n, ob)
      BY DEF Agrees
<1>2. /\ n \in Nat /\ n \in 0..n /\ Shaped(Full(x), n, ob) /\ ob \in Levels(n)
      BY <1>1, FullFacts DEF ExprShape
<1>3. /\ u \in Seq(Item) /\ Len(u) \in Nat /\ Len(u) = NumAt(ob, n) - 1
      /\ \A p \in 1..Len(u) : u[p] = Full(x)[p]
      BY <1>1, BeforeFacts
<1>4. NumAt(ob, n) \in Nat /\ ob[n] \in Nat /\ ob \in [0..n -> Nat]
      BY <1>2, Positions DEF Levels
<1>5. Abstract!Num(v) \in Item /\ Abstract!Num(v).val = v
      BY ItemTypes
<1> HIDE DEF u
<1>6. /\ g \in Seq(Item) /\ Len(g) = Len(u) + 1
      /\ \A p \in 1..Len(u) : g[p] = u[p]
      /\ g[Len(u) + 1] = Abstract!Num(v)
      BY <1>3, <1>5, AppendFacts
<1> HIDE DEF g
<1>7. Len(g) = NumAt(ob, n) /\ Len(g) = Len(u) + 1 /\ g[Len(g)] = Abstract!Num(v)
      BY <1>3, <1>4, <1>6
<1>8. \A p \in 1..Len(g) - 1 : g[p] = Full(x)[p]
  <2>1. \A p \in 1..Len(g) - 1 : p \in 1..Len(u)
        BY <1>3, <1>7
  <2> QED BY <2>1, <1>3, <1>6
<1>9. n > 0 => ob[n - 1] \in Nat /\ 0 <= ob[n] - ob[n - 1]
      BY <1>2, <1>4 DEF Levels
<1>10. IsCut(g, Full(x), ob, n, 0, ob)
  <2>1. ob[n] = ob[n] - 0 /\ NumAt(ob, n) = NumAt(ob, n) - 0 /\ 0 \in Nat /\ 0 <= ob[n]
        BY <1>4
  <2>2. g[Len(g)] = Abstract!Num(g[Len(g)].val)
        BY <1>5, <1>7
  <2> QED BY <2>1, <2>2, <1>4, <1>6, <1>7, <1>8, <1>9 DEF IsCut
<1>11. /\ Shaped(g, n, ob)
       /\ NumAt(ob, n) = Len(g)
       /\ \A i \in 0..n - 1 :
            /\ NumAt(ob, i) = NumAt(ob, i) /\ g[NumAt(ob, i)] = Full(x)[NumAt(ob, i)]
            /\ OpAt(ob, i) = OpAt(ob, i) /\ g[OpAt(ob, i)] = Full(x)[OpAt(ob, i)]
      BY <1>2, <1>10, CutShaped
<1>12. SameBefore(g, ob, Full(x), ob, n)
      BY <1>11 DEF SameBefore
<1>13. Shaped(g, n, ob) /\ NumAt(ob, n) = Len(g) /\ g[Len(g)] = Abstract!Num(el.fval)
      BY <1>7, <1>11
<1>14. Agrees(q, g, n, ob)
      BY <1>12, <1>13, PlacedAgrees
<1> QED BY <1>14 DEF g, u

\* A bracket is opened before it.
LEMMA OpenAgrees ==
  ASSUME NEW m, Sound(m), NEW x, NEW n, NEW ob, Agrees(m, x, n, ob),
         NEW q, NEW el, el.fval \in FVal, Placed(q, m, n, el)
  PROVE  LET g == Before(x) \o <<Abstract!Open, Abstract!Num(el.fval)>>
         IN  \E ob1 : Agrees(q, g, n, ob1) /\ ob1[n] = ob[n] + 1
<1> DEFINE u   == Before(x)
           v   == el.fval
           g   == u \o <<Abstract!Open, Abstract!Num(v)>>
           ob1 == [i \in 0..n |-> IF i = n THEN ob[n] + 1 ELSE ob[i]]
<1>1. ExprShape(x, n, ob)
      BY DEF Agrees
<1>2. /\ n \in Nat /\ n \in 0..n /\ Shaped(Full(x), n, ob) /\ ob \in Levels(n)
      /\ Len(Full(x)) = NumAt(ob, n)
      BY <1>1, FullFacts DEF ExprShape
<1>3. /\ u \in Seq(Item) /\ Len(u) \in Nat /\ Len(u) = NumAt(ob, n) - 1
      /\ \A p \in 1..Len(u) : u[p] = Full(x)[p]
      BY <1>1, BeforeFacts
<1>4. NumAt(ob, n) \in Nat /\ ob[n] \in Nat /\ \A i \in 0..n : ob[i] \in Nat
      BY <1>2, Positions
<1>5. Abstract!Num(v) \in Item /\ Abstract!Num(v).val = v
      /\ Abstract!Open \in Item /\ Abstract!Open.kind = "open"
      BY ItemTypes
<1> HIDE DEF u
<1>6. /\ g \in Seq(Item) /\ Len(g) = Len(u) + 2
      /\ \A p \in 1..Len(u) : g[p] = u[p]
      /\ g[Len(u) + 1] = Abstract!Open
      /\ g[Len(u) + 2] = Abstract!Num(v)
      BY <1>3, <1>5, PairFacts
<1> HIDE DEF g
<1>7. /\ Len(Full(x)) = Len(u) + 1 /\ Len(g) = Len(Full(x)) + 1
      /\ g[Len(Full(x))] = Abstract!Open /\ g[Len(Full(x)) + 1] = Abstract!Num(v)
      /\ g[Len(g)] = Abstract!Num(v)
  <2>1. Len(Full(x)) = Len(u) + 1 /\ Len(g) = Len(Full(x)) + 1 /\ Len(Full(x)) + 1 = Len(u) + 2
        BY <1>2, <1>3, <1>4, <1>6
  <2> QED BY <2>1, <1>6
<1>8. \A p \in 1..Len(Full(x)) - 1 : g[p] = Full(x)[p]
  <2>1. \A p \in 1..Len(Full(x)) - 1 : p \in 1..Len(u)
        BY <1>3, <1>7
  <2> QED BY <2>1, <1>3, <1>6
<1>9. /\ ob1 \in [0..n -> Nat] /\ ob1[n] = ob[n] + 1
      /\ \A i \in 0..n - 1 : ob1[i] = ob[i]
      BY <1>2, <1>4
<1> HIDE DEF ob1
<1>10. IsOpened(g, Full(x), n, ob, ob1)
  <2>1. g[Len(Full(x)) + 1] = Abstract!Num(g[Len(Full(x)) + 1].val)
        BY <1>5, <1>7
  <2>2. g[Len(Full(x))].kind = "open"
        BY <1>5, <1>7
  <2> QED BY <2>1, <2>2, <1>6, <1>7, <1>8, <1>9 DEF IsOpened
<1>11. /\ Shaped(g, n, ob1)
       /\ NumAt(ob1, n) = Len(g)
       /\ \A i \in 0..n - 1 :
            /\ NumAt(ob1, i) = NumAt(ob, i) /\ g[NumAt(ob1, i)] = Full(x)[NumAt(ob, i)]
            /\ OpAt(ob1, i) = OpAt(ob, i) /\ g[OpAt(ob1, i)] = Full(x)[OpAt(ob, i)]
      BY <1>2, <1>10, OpenShaped
<1>12. SameBefore(g, ob1, Full(x), ob, n)
      BY <1>9, <1>11 DEF SameBefore
<1>13. Shaped(g, n, ob1) /\ NumAt(ob1, n) = Len(g) /\ g[Len(g)] = Abstract!Num(el.fval)
      BY <1>7, <1>11
<1>14. Agrees(q, g, n, ob1)
      BY <1>12, <1>13, PlacedAgrees
<1> QED BY <1>9, <1>14 DEF g, u

\* A number entered goes where an operator waits for it, or replaces the last one.
LEMMA NewArgPlaces ==
  ASSUME ConfigOK, NEW m, Sound(m), NEW ival \in IVal, NEW fval \in FVal
  PROVE  LET q == NewArg(m, ival, fval)
         IN  /\ \E el : el.fval = fval /\ Placed(q, m, m.bop_stack_index, el)
             /\ q.shown = m.shown
<1> DEFINE q  == NewArg(m, ival, fval)
           el == [ival |-> MaskWidth(ival, integer_width), fval |-> fval]
           m1 == IF m.stack_index > m.bop_stack_index THEN StackPop(m) ELSE m
           k  == m.bop_stack_index
<1>1. el \in StackEl
      BY OperationsClosed DEF ConfigOK, StackEl
<1>2. /\ m \in Machines /\ k \in Nat /\ k <= BOP_STACK_SIZE
      /\ m.stack_index \in Nat /\ m.stack_index >= 1
      /\ m.stack_index = k \/ m.stack_index = k + 1
      BY IndexTypes DEF Sound
<1>3. m1 \in Machines /\ SameBops(m1, m) /\ SameStack(m1, m) /\ m1.stack_index = k
  <2>1. CASE m.stack_index = k
        BY <2>1, <1>2 DEF SameBops, SameStack
  <2>2. CASE m.stack_index = k + 1
    <3>1. m1 = StackPop(m) /\ m.stack_index > 0 /\ m.stack_index - 1 = k
          BY <2>2, <1>2
    <3>2. /\ StackPop(m) \in Machines /\ StackPop(m).stack_index = m.stack_index - 1
          /\ SameBops(StackPop(m), m)
          BY <3>1, <1>2, StackPopSound
    <3>3. SameStack(StackPop(m), m)
          BY <3>1, <1>2, PopKeeps
    <3> QED BY <3>1, <3>2, <3>3
  <2> QED BY <1>2, <2>1, <2>2
<1>4. q = StackPush(m1, el)
      BY DEF NewArg
<1> HIDE DEF m1, el, q
<1>5. m1.stack_index < STACK_SIZE
      BY <1>2, <1>3, Sizes
<1>6. /\ StackPush(m1, el).stack_index = m1.stack_index + 1
      /\ SameBops(StackPush(m1, el), m1)
      BY <1>1, <1>3, <1>5, StackPushSound
<1>7. Writes(StackPush(m1, el), m1, m1.stack_index, el) /\ StackPush(m1, el).shown = m1.shown
      BY <1>1, <1>3, <1>5, PushWrites
<1>8. Placed(q, m, k, el)
      BY <1>3, <1>4, <1>6, <1>7 DEF Placed, SameBops, SameStack, Writes
<1>9. q.shown = m.shown
      BY <1>3, <1>4, <1>7 DEF SameStack
<1>10. el.fval = fval
      BY DEF el
<1> QED BY <1>8, <1>9, <1>10 DEF q

\* So does the result of a unary operator.
LEMMA ReplaceTopPlaces ==
  ASSUME NEW m, Sound(m), NEW result \in StackEl
  PROVE  Placed(ReplaceTop(m, result), m, m.bop_stack_index, result)
<1> DEFINE m1 == StackPop(m)
           m2 == IF m1.stack_index < m1.bop_stack_index
                 THEN StackPush(m1, StackTop(m)) ELSE m1
           k  == m.bop_stack_index
           q  == ReplaceTop(m, result)
<1>2. /\ m \in Machines /\ k \in Nat /\ k <= BOP_STACK_SIZE
      /\ m.stack_index \in Nat /\ m.stack_index >= 1 /\ m.stack_index > 0
      /\ m.stack_index = k \/ m.stack_index = k + 1
      BY IndexTypes DEF Sound
<1>3. m1 \in Machines /\ SameBops(m1, m) /\ SameStack(m1, m)
      /\ m1.stack_index = m.stack_index - 1
      BY <1>2, StackPopSound, PopKeeps
<1>4. q = StackPush(m2, result)
      BY DEF ReplaceTop
<1>5. StackTop(m) = m.stack[m.stack_index - 1] /\ StackTop(m) \in StackEl
      /\ m.stack_index - 1 \in Slots
      BY <1>2, TopSlot, StackTopType
<1> HIDE DEF m1, q
<1>6. /\ m2 \in Machines /\ SameBops(m2, m) /\ m2.stack_index = k
      /\ \A i \in Slots : m2.stack[i] = m.stack[i]
  <2>1. CASE m.stack_index = k
    <3>1. m1.stack_index < m1.bop_stack_index /\ m1.stack_index < STACK_SIZE
          BY <2>1, <1>2, <1>3, Sizes DEF SameBops
    <3>2. m2 = StackPush(m1, StackTop(m))
          BY <3>1
    <3>3. /\ StackPush(m1, StackTop(m)) \in Machines
          /\ StackPush(m1, StackTop(m)).stack_index = m1.stack_index + 1
          /\ SameBops(StackPush(m1, StackTop(m)), m1)
          BY <3>1, <1>3, <1>5, StackPushSound
    <3>4. Writes(StackPush(m1, StackTop(m)), m1, m1.stack_index, StackTop(m))
          BY <3>1, <1>3, <1>5, PushWrites
    <3>5. m1.stack_index + 1 = k
          BY <2>1, <1>2, <1>3
    <3>6. \A i \in Slots : m2.stack[i] = m.stack[i]
      <4> HIDE DEF m2
      <4> QED BY <3>2, <3>4, <1>3, <1>5 DEF Writes, SameStack
    <3> QED BY <3>2, <3>3, <3>5, <3>6, <1>3 DEF SameBops
  <2>2. CASE m.stack_index = k + 1
    <3>1. ~(m1.stack_index < m1.bop_stack_index) /\ m1.stack_index = k
          BY <2>2, <1>2, <1>3 DEF SameBops
    <3>2. m2 = m1
          BY <3>1
    <3> QED BY <3>1, <3>2, <1>3 DEF SameStack
  <2> QED BY <1>2, <2>1, <2>2
<1> HIDE DEF m2
<1>7. m2.stack_index < STACK_SIZE
      BY <1>2, <1>6, Sizes
<1>8. /\ StackPush(m2, result).stack_index = m2.stack_index + 1
      /\ SameBops(StackPush(m2, result), m2)
      BY <1>6, <1>7, StackPushSound
<1>9. Writes(StackPush(m2, result), m2, m2.stack_index, result)
      BY <1>6, <1>7, PushWrites
<1>10. Placed(q, m, k, result)
      BY <1>4, <1>6, <1>8, <1>9 DEF Placed, SameBops, Writes
<1> QED BY <1>10 DEF q

-----------------------------------------------------------------------------
(* Operators evaluated                                                      *)

\* An expression of that shape ends with a number.
LEMMA NotDangling ==
  ASSUME NEW g, NEW n, NEW ob, Shaped(g, n, ob)
  PROVE  /\ ~Abstract!Dangling(g) /\ g \in Seq(Item)
         /\ Full(g) = g /\ ExprShape(g, n, ob)
<1>1. n \in Nat /\ n \in 0..n /\ Len(g) = NumAt(ob, n) /\ g \in Seq(Item)
      BY DEF Shaped
<1>2. g[Len(g)].kind = "num"
      BY <1>1, ShapedItems
<1>3. ~Abstract!Dangling(g)
      BY <1>2 DEF Abstract!Dangling, Abstract!Last
<1>4. Full(g) = g
      BY <1>3 DEF Full
<1> QED BY <1>1, <1>3, <1>4 DEF ExprShape

\* What the loop leaves agrees with the expression in which everything from the
\* k-th number on is replaced by its value.
LEMMA ReducedAgrees ==
  ASSUME allow_repeated_equals \in BOOLEAN,
         NEW m, Sound(m), NEW x, NEW n, NEW ob, Agrees(m, x, n, ob),
         NEW s, s = Abstract!Settled(x), NEW v, NEW k, NEW r, Progress(r, k, m, s, n, ob, v),
         r.stack_index = k + 1,
         NEW f, NEW ok, Reduces(f, k, ok, s, n, ob, v)
  PROVE  Agrees(r, f, k, ok)
<1>1. Shaped(s, n, ob) /\ Holds(m, s, n, ob)
      BY AgreesHolds
<1>2. Shaped(f, k, ok) /\ k \in 0..n /\ IsFold(v, f, k, ok)
      BY DEF Reduces
<1>3. n \in Nat /\ k \in Nat /\ k <= n /\ Len(f) = NumAt(ok, k)
      BY <1>1, <1>2 DEF Shaped
<1>4. ~Abstract!Dangling(f) /\ Full(f) = f /\ ExprShape(f, k, ok)
      BY <1>2, NotDangling
<1>5. r.bop_stack_index = k /\ r.bop_stack = m.bop_stack
      BY DEF Progress
<1>6. k = n => m.stack_index = n + 1
      BY DEF Progress
<1>7. ASSUME NEW i \in 0..k - 1
      PROVE  /\ r.bop_stack[i].cop = f[OpAt(ok, i)].op
             /\ r.bop_stack[i].priority =
                  Priority(f[OpAt(ok, i)].op) + ok[i] * PARENTHESES_PRIORITY_RAISE
             /\ ~f[OpAt(ok, i)].dropped
             /\ r.stack[i].fval = f[NumAt(ok, i)].val
  <2>1. i \in 0..n - 1
        BY <1>3
  <2>2. /\ m.bop_stack[i].cop = s[OpAt(ob, i)].op
        /\ m.bop_stack[i].priority =
             Priority(s[OpAt(ob, i)].op) + ob[i] * PARENTHESES_PRIORITY_RAISE
        /\ s[OpAt(ob, i)].dropped <=> m.stack_index = n /\ i = n - 1 /\ ~allow_repeated_equals
        BY <1>1, <2>1 DEF Holds
  <2>3. /\ ok[i] = ob[i]
        /\ f[NumAt(ok, i)] = s[NumAt(ob, i)]
        /\ f[OpAt(ok, i)] = s[OpAt(ob, i)]
        BY DEF Reduces
  <2>4. ~(m.stack_index = n /\ i = n - 1)
        BY <1>3, <1>6
  <2>5. r.stack[i].fval = s[NumAt(ob, i)].val
        BY DEF Progress
  <2> QED BY <2>2, <2>3, <2>4, <2>5, <1>5
<1>8. r.stack[k].fval = f[NumAt(ok, k)].val
  <2>1. k \in k..n
        BY <1>3
  <2>2. r.stack[k].fval = v[k]
        BY <2>1 DEF Progress
  <2>3. v[k] = f[Len(f)].val
        BY <1>2 DEF IsFold
  <2> QED BY <2>2, <2>3, <1>3
<1>9. ASSUME NEW i \in 0..r.stack_index - 1 PROVE r.stack[i].fval = f[NumAt(ok, i)].val
  <2>1. i = k \/ i \in 0..k - 1
        BY <1>3
  <2> QED BY <2>1, <1>7, <1>8
<1> QED BY <1>4, <1>5, <1>7, <1>9 DEF Agrees

\* An operator typed behind another takes its place.
LEMMA FrontAgrees ==
  ASSUME NEW m, Sound(m), NEW x, NEW n, NEW ob, Agrees(m, x, n, ob), Abstract!Dangling(x)
  PROVE  /\ n > 0 /\ n - 1 \in Nat
         /\ \E ob1 : Agrees(BopPop(m), Abstract!Front(x), n - 1, ob1) /\ ob1[n - 1] = ob[n]
<1> DEFINE f   == Abstract!Front(x)
           ob1 == [i \in 0..n - 1 |-> ob[i]]
           q   == BopPop(m)
<1>1. ExprShape(x, n, ob) /\ m.bop_stack_index = n /\ m.stack_index = n
      BY DEF Agrees
<1>2. /\ n \in Nat /\ ob \in Levels(n) /\ n - 1 \in 0..n - 1 /\ n - 1 \in Nat /\ n > 0
      /\ ob[n] = ob[n - 1]
      BY <1>1, FullFacts DEF ExprShape
<1>3. ob1 \in [0..n - 1 -> Nat] /\ \A i \in 0..n - 1 : ob1[i] = ob[i]
      BY <1>2, Positions
<1> HIDE DEF ob1
<1>4. IsFront(f, x, n, ob, ob1)
      BY <1>1, <1>3, FrontShaped
<1>5. Shaped(f, n - 1, ob1)
      BY <1>4 DEF IsFront
<1> HIDE DEF f
<1>6. ~Abstract!Dangling(f) /\ Full(f) = f /\ ExprShape(f, n - 1, ob1)
      BY <1>5, NotDangling
<1>7. /\ q.bop_stack_index = n - 1 /\ q.bop_stack = m.bop_stack /\ q.stack_index = n
      /\ q.stack = m.stack
  <2>1. m \in Machines /\ m.bop_stack_index > 0
        BY <1>1, <1>2 DEF Sound
  <2>2. /\ q.bop_stack_index = m.bop_stack_index - 1 /\ q.bop_stack = m.bop_stack
        /\ q.stack_index = m.stack_index
        BY <2>1, BopPopSound
  <2>3. SameStack(q, m)
        BY <2>1, BopPopKeeps
  <2> QED BY <2>2, <2>3, <1>1 DEF SameStack
<1> HIDE DEF q
<1>8. ASSUME NEW i \in 0..(n - 1) - 1
      PROVE  /\ q.bop_stack[i].cop = f[OpAt(ob1, i)].op
             /\ q.bop_stack[i].priority =
                  Priority(f[OpAt(ob1, i)].op) + ob1[i] * PARENTHESES_PRIORITY_RAISE
             /\ ~f[OpAt(ob1, i)].dropped
  <2>1. i \in 0..n - 2 /\ i \in 0..n - 1
        BY <1>2
  <2>2. f[OpAt(ob1, i)] = Full(x)[OpAt(ob, i)] /\ ob1[i] = ob[i]
        BY <2>1, <1>3, <1>4 DEF IsFront
  <2>3. /\ m.bop_stack[i].cop = Full(x)[OpAt(ob, i)].op
        /\ m.bop_stack[i].priority =
             Priority(Full(x)[OpAt(ob, i)].op) + ob[i] * PARENTHESES_PRIORITY_RAISE
        /\ ~Full(x)[OpAt(ob, i)].dropped
        BY <2>1 DEF Agrees
  <2> QED BY <2>2, <2>3, <1>7
<1>9. ASSUME NEW i \in 0..q.stack_index - 1 PROVE q.stack[i].fval = f[NumAt(ob1, i)].val
  <2>1. i \in 0..n - 1 /\ i \in 0..m.stack_index - 1
        BY <1>1, <1>7
  <2>2. f[NumAt(ob1, i)] = Full(x)[NumAt(ob, i)]
        BY <2>1, <1>4 DEF IsFront
  <2>3. m.stack[i].fval = Full(x)[NumAt(ob, i)].val
        BY <2>1 DEF Agrees
  <2> QED BY <2>2, <2>3, <1>7
<1>10. q.stack_index = (n - 1) + 1
      BY <1>2, <1>7
<1>11. Agrees(q, f, n - 1, ob1)
      BY <1>6, <1>7, <1>8, <1>9, <1>10 DEF Agrees
<1>12. ob1[n - 1] = ob[n]
      BY <1>2, <1>3
<1> QED BY <1>2, <1>11, <1>12 DEF f, q

\* Priorities that are not in the order of their levels are those of one level.
LEMMA LevelOrder ==
  ASSUME NEW l0 \in Nat, NEW l \in Nat, l0 <= l, NEW p0 \in 0..2, NEW p \in 0..2,
         ~(p + l * PARENTHESES_PRIORITY_RAISE > p0 + l0 * PARENTHESES_PRIORITY_RAISE)
  PROVE  l0 = l /\ ~(p0 < p)
<1> DEFINE R == PARENTHESES_PRIORITY_RAISE
<1>1. R \in Nat /\ R >= 3
      BY SizesAssumption
<1> HIDE DEF R
<1>2. CASE l0 < l
  <2>1. PICK d \in Nat : l = l0 + 1 + d
    <3>1. l - l0 - 1 \in Nat /\ l = l0 + 1 + (l - l0 - 1)
          BY <1>2
    <3> QED BY <3>1
  <2>2. l * R = l0 * R + R + d * R
        BY <2>1, <1>1
  <2>3. d * R \in Nat /\ l0 * R \in Nat
        BY <1>1
  <2>4. l * R >= l0 * R + 3
        BY <2>2, <2>3, <1>1
  <2>5. l * R \in Nat
        BY <1>1
  <2>6. p + l * R > p0 + l0 * R
        BY <2>3, <2>4, <2>5
  <2> QED BY <2>6 DEF R
<1>3. CASE l0 = l
  <2>1. l * R \in Nat /\ ~(p + l * R > p0 + l * R)
        BY <1>1, <1>3 DEF R
  <2>2. ~(p0 < p)
        BY <2>1
  <2> QED BY <2>2, <1>3
<1> QED BY <1>2, <1>3

\* Which operators the loop takes for one of priority p in the innermost bracket,
\* which begins with the b-th number: none from outside of the bracket.
LEMMA TakenFrom ==
  ASSUME NEW m, NEW s, NEW n, NEW ob, Shaped(s, n, ob), Holds(m, s, n, ob),
         NEW b, Starts(ob, n, b), NEW p \in 0..2, NEW k \in 0..n, NEW priority,
         priority = p + ob[n] * PARENTHESES_PRIORITY_RAISE,
         k = 0 \/ priority > m.bop_stack[k - 1].priority,
         \A i \in k..n - 1 : ~(priority > m.bop_stack[i].priority)
  PROVE  /\ k \in b..n
         /\ k > b => Priority(s[OpAt(ob, k - 1)].op) < p
         /\ \A i \in k..n - 1 : ~(Priority(s[OpAt(ob, i)].op) < p)
<1>1. /\ n \in Nat /\ ob \in Levels(n) /\ b \in 0..n /\ b \in Nat /\ k \in Nat /\ k <= n
      /\ ob[n] \in Nat /\ ob[b] = ob[n] /\ n \in 0..n
      /\ \A i \in 0..n : ob[i] \in Nat /\ ob[i] <= ob[n]
  <2>1. n \in Nat /\ ob \in Levels(n)
        BY DEF Shaped
  <2>2. b \in 0..n /\ ob[b] = ob[n]
        BY DEF Starts
  <2> QED BY <2>1, <2>2, Positions
<1>2. ASSUME NEW i \in 0..n - 1
      PROVE  /\ Priority(s[OpAt(ob, i)].op) \in 0..2
             /\ i \in 0..n
             /\ m.bop_stack[i].priority =
                  Priority(s[OpAt(ob, i)].op) + ob[i] * PARENTHESES_PRIORITY_RAISE
  <2>1. s[OpAt(ob, i)].op \in BinaryOps
        BY DEF Shaped
  <2>2. Priority(s[OpAt(ob, i)].op) \in 0..2
        BY <2>1, PriorityRange
  <2> QED BY <2>2, <1>1 DEF Holds
<1>3. ASSUME NEW i \in k..n - 1
      PROVE  ob[i] = ob[n] /\ ~(Priority(s[OpAt(ob, i)].op) < p)
  <2> DEFINE p0 == Priority(s[OpAt(ob, i)].op)
             l0 == ob[i]
             l  == ob[n]
  <2>1. i \in 0..n - 1
        BY <1>1
  <2>2. p0 \in 0..2 /\ l0 \in Nat /\ l \in Nat /\ l0 <= l
        BY <2>1, <1>1, <1>2
  <2>3. ~(p + l * PARENTHESES_PRIORITY_RAISE > p0 + l0 * PARENTHESES_PRIORITY_RAISE)
    <3>1. ~(priority > m.bop_stack[i].priority)
          OBVIOUS
    <3> QED BY <3>1, <2>1, <1>2
  <2> HIDE DEF p0, l0, l
  <2>4. l0 = l /\ ~(p0 < p)
        BY <2>2, <2>3, LevelOrder
  <2> QED BY <2>4 DEF p0, l0, l
<1>4. k \in b..n
  <2> SUFFICES ASSUME k < b PROVE FALSE
      BY <1>1
  <2>1. b - 1 \in k..n - 1 /\ b > 0 /\ b - 1 \in 0..n
        BY <1>1
  <2>2. ob[b - 1] = ob[n]
        BY <2>1, <1>3
  <2>3. ob[b - 1] < ob[n]
        BY <2>1 DEF Starts
  <2> QED BY <2>2, <2>3, <1>1
<1>5. ASSUME k > b PROVE Priority(s[OpAt(ob, k - 1)].op) < p
  <2> DEFINE p0 == Priority(s[OpAt(ob, k - 1)].op)
             w  == ob[n] * PARENTHESES_PRIORITY_RAISE
  <2>1. k - 1 \in b..n /\ k - 1 \in 0..n - 1 /\ k # 0
        BY <1>1, <1>5
  <2>2. ob[k - 1] = ob[n]
        BY <2>1, <1>1, InnerLevels
  <2>3. p0 \in 0..2 /\ w \in Nat
        BY <2>1, <1>1, <1>2, SizesAssumption
  <2>4. p + w > p0 + w
    <3>1. priority > m.bop_stack[k - 1].priority
          BY <2>1
    <3> QED BY <3>1, <2>1, <2>2, <1>2
  <2> HIDE DEF p0, w
  <2>5. p0 < p
        BY <2>3, <2>4
  <2> QED BY <2>5 DEF p0
<1> QED BY <1>3, <1>4, <1>5

-----------------------------------------------------------------------------
(* The keys that evaluate                                                   *)

\* The pending operators have functions, so that their values exist.
LEMMA FoldOfMachine ==
  ASSUME calc_mode = "float", NEW m, Runnable(m), NEW s, NEW n, NEW ob,
         Shaped(s, n, ob), Holds(m, s, n, ob)
  PROVE  \E v : IsFold(v, s, n, ob)
<1>1. ASSUME NEW i \in 0..n - 1 PROVE HasFop(s[OpAt(ob, i)].op)
  <2>1. i \in 0..m.bop_stack_index - 1 /\ m.bop_stack[i].cop = s[OpAt(ob, i)].op
        BY DEF Holds
  <2>2. HasBop(m.bop_stack[i].cop, calc_mode)
        BY <2>1 DEF Runnable
  <2> QED BY <2>1, <2>2 DEF HasBop
<1> QED BY <1>1, FoldExists

\* A closing bracket replaces the innermost bracket by its value, and nothing else.
LEMMA CloseAgrees ==
  ASSUME ConfigOK, calc_mode = "float", allow_repeated_equals \in BOOLEAN,
         NEW m, Sound(m), Runnable(m), NEW x, NEW n, NEW ob, Agrees(m, x, n, ob), ob[n] > 0,
         NEW s, s = Abstract!Settled(x),
         NEW r, r = ProcessBinOps(m, ob[n] * PARENTHESES_PRIORITY_RAISE)
  PROVE  \E k, ok, v : /\ Agrees(r, Abstract!Closed(s), k, ok) /\ ok[k] = ob[n] - 1
                       /\ Shaped(s, n, ob) /\ IsFold(v, s, n, ob)
                       /\ Progress(r, k, m, s, n, ob, v)
<1>1. Shaped(s, n, ob) /\ Holds(m, s, n, ob) /\ ExprShape(x, n, ob)
      BY AgreesHolds DEF Agrees
<1>2. n \in Nat /\ ob \in Levels(n) /\ n \in 0..n /\ ob[n] \in Nat
      BY <1>1, Positions DEF Shaped
<1>3. PICK v : IsFold(v, s, n, ob)
      BY <1>1, FoldOfMachine
<1> DEFINE priority == ob[n] * PARENTHESES_PRIORITY_RAISE
<1>4. PICK k : /\ Progress(r, k, m, s, n, ob, v)
               /\ k = 0 \/ priority > m.bop_stack[k - 1].priority
               /\ \A i \in k..n - 1 : ~(priority > m.bop_stack[i].priority)
      BY <1>1, <1>3, ProcessIs
<1>5. PICK b : Starts(ob, n, b)
      BY <1>2, StartExists
<1>6. k \in 0..n /\ k \in Nat /\ b \in 0..n
      BY <1>4, <1>2, <1>5 DEF Progress, Starts
<1>7. priority = 0 + ob[n] * PARENTHESES_PRIORITY_RAISE
      BY <1>2, SizesAssumption
<1> HIDE DEF priority
<1>8. k \in b..n /\ (k > b => Priority(s[OpAt(ob, k - 1)].op) < 0)
      BY <1>1, <1>4, <1>5, <1>6, <1>7, TakenFrom
<1>9. k = b
  <2>0. b \in Nat
        BY <1>2, <1>6
  <2> SUFFICES ASSUME k > b PROVE FALSE
      BY <2>0, <1>6, <1>8
  <2>1. k - 1 \in 0..n - 1
        BY <2>0, <1>2, <1>6
  <2>2. Priority(s[OpAt(ob, k - 1)].op) \in 0..2
        BY <2>1, <1>1, PriorityRange DEF Shaped
  <2> QED BY <2>2, <1>8
<1>10. r.stack_index = k + 1
  <2>1. CASE k < n
        BY <2>1, <1>4 DEF Progress
  <2>2. CASE k = n
    <3>1. r = m
          BY <2>2, <1>4 DEF Progress
    <3>2. ~Abstract!Dangling(x)
      <4> SUFFICES ASSUME Abstract!Dangling(x) PROVE FALSE
          OBVIOUS
      <4>1. n > 0 /\ ob[n] = ob[n - 1]
            BY <1>1 DEF ExprShape
      <4>2. ob[n - 1] < ob[n]
            BY <4>1, <2>2, <1>5, <1>9 DEF Starts
      <4> QED BY <4>1, <4>2, <1>2
    <3> QED BY <3>1, <3>2, <2>2 DEF Agrees
  <2> QED BY <2>1, <2>2, <1>2, <1>6
<1> DEFINE ok == [i \in 0..b |-> IF i = b THEN ob[n] - 1 ELSE ob[i]]
<1>11. /\ ok \in [0..b -> Nat] /\ ok[b] = ob[n] - 1
       /\ \A i \in 0..b - 1 : ok[i] = ob[i]
  <2>1. \A i \in 0..b : i \in 0..n /\ ob[i] \in Nat
        BY <1>2, <1>6, Positions
  <2>2. ob[n] - 1 \in Nat /\ b \in 0..b
        BY <1>2, <1>6
  <2> QED BY <2>1, <2>2
<1> HIDE DEF ok
<1>12. Reduces(Abstract!Closed(s), b, ok, s, n, ob, v)
      BY <1>1, <1>3, <1>5, <1>11, ClosedReduces
<1>13. Agrees(r, Abstract!Closed(s), k, ok)
      BY <1>4, <1>9, <1>10, <1>12, ReducedAgrees
<1> QED BY <1>1, <1>3, <1>4, <1>9, <1>11, <1>13

\* The operator evaluated last and its right operand are left in popped slots.
LEMMA RepeatSlots ==
  ASSUME NEW m, NEW r, NEW s, NEW n, NEW ob, NEW v, Shaped(s, n, ob), n > 0,
         ob[n] <= MAX_PARENTHESES,
         Holds(m, s, n, ob), IsFold(v, s, n, ob), Progress(r, 0, m, s, n, ob, v)
  PROVE  Abstract!RootAndRight(s) = [op |-> r.bop_stack[0].cop, val |-> r.stack[1].fval]
<1>1. n \in Nat /\ 0 \in 0..n - 1 /\ 1 \in 0..n /\ 0 < n
      BY DEF Shaped
<1>2. Abstract!RootAndRight(s) = [op |-> s[OpAt(ob, 0)].op, val |-> v[1]]
      BY RootAndRightIs
<1>3. r.bop_stack[0].cop = s[OpAt(ob, 0)].op
      BY <1>1 DEF Progress, Holds
<1>4. r.stack[1].fval = v[1]
  <2>1. r.stack_index = 0 + 1
        BY <1>1 DEF Progress
  <2> QED BY <2>1, <1>1 DEF Progress
<1> QED BY <1>2, <1>3, <1>4

\* With operators outstanding, [=] leaves the value of the whole expression.
LEMMA EvaluateAgrees ==
  ASSUME ConfigOK, calc_mode = "float", allow_repeated_equals \in BOOLEAN,
         NEW m, Sound(m), Runnable(m), NEW x, NEW n, NEW ob, Agrees(m, x, n, ob), n > 0,
         ob[n] <= MAX_PARENTHESES,
         NEW s, s = Abstract!Settled(x),
         NEW r, r = ProcessBinOps(m, PRIORITY_ADD_SUB)
  PROVE  /\ \E ok : Agrees(r, <<Abstract!Num(Abstract!FullValue(s))>>, 0, ok) /\ ok[0] = 0
         /\ Abstract!RootAndRight(s) = [op |-> r.bop_stack[0].cop, val |-> r.stack[1].fval]
         /\ Sound(r) /\ r.bin_op_was_entered = m.bin_op_was_entered
<1>1. Shaped(s, n, ob) /\ Holds(m, s, n, ob)
      BY AgreesHolds
<1>2. n \in Nat /\ ob \in Levels(n) /\ n \in 0..n /\ 0 \in 0..n /\ ob[0] \in Nat
      BY <1>1, Positions DEF Shaped
<1>3. PICK v : IsFold(v, s, n, ob)
      BY <1>1, FoldOfMachine
<1>4. PICK k : /\ Progress(r, k, m, s, n, ob, v)
               /\ k = 0 \/ PRIORITY_ADD_SUB > m.bop_stack[k - 1].priority
      BY <1>1, <1>3, ProcessIs
<1>5. k = 0
  <2> SUFFICES ASSUME k # 0 PROVE FALSE
      OBVIOUS
  <2>1. k \in 0..n /\ k - 1 \in 0..m.bop_stack_index - 1
        BY <1>1, <1>2, <1>4 DEF Progress, Holds
  <2>2. m.bop_stack[k - 1].priority \in Nat
        BY <2>1, BopStackType, BopElType DEF Sound
  <2> QED BY <2>2, <1>4 DEF PRIORITY_ADD_SUB
<1>6. Progress(r, 0, m, s, n, ob, v)
      BY <1>4, <1>5
<1>7. r.stack_index = 0 + 1
      BY <1>2, <1>6 DEF Progress
<1>8. Abstract!FullValue(s) = v[0]
      BY <1>1, <1>3, FullValueIs
<1> DEFINE f  == <<Abstract!Num(v[0])>>
           ok == [i \in 0..0 |-> 0]
<1>9. Reduces(f, 0, ok, s, n, ob, v)
  <2>1. v[0] \in FVal
        BY <1>2, <1>3 DEF IsFold
  <2>2. Abstract!Num(v[0]) \in Item
        BY <2>1, ItemTypes
  <2>3. f \in Seq(Item) /\ Len(f) = 1 /\ f[1] = Abstract!Num(v[0])
        BY <2>2
  <2>4. ok \in [0..0 -> Nat] /\ ok[0] = 0
        OBVIOUS
  <2> HIDE DEF f, ok
  <2>5. NumAt(ob, 0) - ob[0] = 1 /\ ob[0] - ob[0] = 0 /\ ob[0] <= ob[0]
        BY <1>2 DEF NumAt
  <2>6. PICK z : z = 0
        OBVIOUS
  <2>7. /\ f \in Seq(Item) /\ Len(f) = NumAt(ob, z) - ob[0]
        /\ \A p \in 1..Len(f) - 1 : f[p] = s[p]
        /\ f[Len(f)] = Abstract!Num(v[z])
        BY <2>3, <2>5, <2>6
  <2>8. /\ ok \in [0..z -> Nat] /\ ok[z] = ob[z] - ob[0]
        /\ \A i \in 0..z - 1 : ok[i] = ob[i]
        BY <2>4, <2>5, <2>6
  <2>9. z \in 0..n /\ ob[0] <= ob[z] /\ (z > 0 => ob[0] <= ob[z] - ob[z - 1])
        BY <2>5, <2>6, <1>2
  <2>10. Reduces(f, z, ok, s, n, ob, v)
        BY <1>1, <1>2, <1>3, <2>7, <2>8, <2>9, CutReduces
  <2> QED BY <2>6, <2>10
<1>10. ok[0] = 0
      OBVIOUS
<1> HIDE DEF ok
<1>11. Agrees(r, f, 0, ok)
      BY <1>6, <1>7, <1>9, ReducedAgrees
<1>12. Abstract!RootAndRight(s) = [op |-> r.bop_stack[0].cop, val |-> r.stack[1].fval]
      BY <1>1, <1>3, <1>6, RepeatSlots
<1>13. Sound(r) /\ r.bin_op_was_entered = m.bin_op_was_entered
      BY <1>6 DEF Progress
<1> QED BY <1>8, <1>10, <1>11, <1>12, <1>13

-----------------------------------------------------------------------------
(* An operator typed                                                        *)

\* An operator pushed, and typed at the end.
LEMMA PushAgrees ==
  ASSUME NEW r, Sound(r), NEW f, NEW k, NEW ok, Agrees(r, f, k, ok), Shaped(f, k, ok),
         NEW o \in BinaryOps, NEW priority,
         priority = Priority(o) + ok[k] * PARENTHESES_PRIORITY_RAISE,
         \A i \in 0..k - 1 : ok[i] = ok[k] => Priority(f[OpAt(ok, i)].op) < Priority(o),
         r.bop_stack_index < BOP_STACK_SIZE
  PROVE  \E ob2 : /\ Agrees(BopPush(r, o, priority), Append(f, Abstract!Op(o)), k + 1, ob2)
                  /\ ob2[k + 1] = ok[k]
<1> DEFINE x   == Append(f, Abstract!Op(o))
           y   == Full(x)
           q   == BopPush(r, o, priority)
           ob2 == [i \in 0..k + 1 |-> IF i = k + 1 THEN ok[k] ELSE ok[i]]
<1>1. /\ k \in Nat /\ ok \in Levels(k) /\ k \in 0..k /\ f \in Seq(Item)
      /\ Len(f) = NumAt(ok, k) /\ Len(f) \in Nat /\ Len(f) >= 1
      /\ f[Len(f)] = Abstract!Num(f[Len(f)].val) /\ f[Len(f)].val \in FVal
      /\ \A i \in 0..k : ok[i] \in Nat
  <2>1. /\ k \in Nat /\ ok \in Levels(k) /\ k \in 0..k /\ f \in Seq(Item)
        /\ Len(f) = NumAt(ok, k) /\ f[NumAt(ok, k)] = Abstract!Num(f[NumAt(ok, k)].val)
        BY DEF Shaped
  <2> QED BY <2>1, ShapedItems, Positions
<1>2. ~Abstract!Dangling(f) /\ Full(f) = f
      BY NotDangling
<1>3. /\ Abstract!Op(o) \in Item /\ Abstract!Op(o).kind = "op" /\ Abstract!Op(o).op = o
      /\ ~Abstract!Op(o).dropped
      BY ItemTypes
<1>4. /\ x \in Seq(Item) /\ Len(x) = Len(f) + 1
      /\ \A p \in 1..Len(f) : x[p] = f[p]
      /\ x[Len(f) + 1] = Abstract!Op(o)
      BY <1>1, <1>3, AppendFacts
<1> HIDE DEF x
<1>5. Abstract!Dangling(x)
      BY <1>3, <1>4 DEF Abstract!Dangling, Abstract!Last
<1>6. y = Append(x, Abstract!Num(f[Len(f)].val))
  <2>1. Len(x) - 1 = Len(f) /\ Len(f) \in 1..Len(f)
        BY <1>1, <1>4
  <2>2. x[Len(x) - 1] = f[Len(f)]
        BY <2>1, <1>4
  <2> QED BY <2>2, <1>5 DEF Full
<1>7. Abstract!Num(f[Len(f)].val) \in Item
      BY <1>1, ItemTypes
<1>8. /\ y \in Seq(Item) /\ Len(x) \in Nat /\ Len(y) = Len(x) + 1
      /\ \A p \in 1..Len(x) : y[p] = x[p]
      /\ y[Len(x) + 1] = Abstract!Num(f[Len(f)].val)
      BY <1>4, <1>6, <1>7, AppendFacts
<1> HIDE DEF y
<1>9. /\ ob2 \in [0..k + 1 -> Nat] /\ ob2[k + 1] = ok[k] /\ ob2[k] = ok[k]
      /\ \A i \in 0..k : ob2[i] = ok[i]
      BY <1>1
<1> HIDE DEF ob2
<1>10. IsPushed(y, f, k, ok, o, ob2)
  <2>1. Len(y) = Len(f) + 2 /\ Len(x) + 1 = Len(f) + 2
        BY <1>1, <1>4, <1>8
  <2>2. \A p \in 1..Len(f) : y[p] = f[p]
    <3>1. \A p \in 1..Len(f) : p \in 1..Len(x)
          BY <1>1, <1>4
    <3> QED BY <3>1, <1>4, <1>8
  <2>3. y[Len(f) + 1] = Abstract!Op(o)
    <3>1. Len(f) + 1 \in 1..Len(x)
          BY <1>1, <1>4
    <3> QED BY <3>1, <1>4, <1>8
  <2>4. y[Len(f) + 2] = Abstract!Num(y[Len(f) + 2].val)
    <3>1. y[Len(f) + 2] = f[Len(f)]
          BY <2>1, <1>1, <1>8
    <3> QED BY <3>1, <1>1
  <2> QED BY <2>1, <2>2, <2>3, <2>4, <1>8, <1>9 DEF IsPushed
<1>11. /\ Shaped(y, k + 1, ob2)
       /\ OpAt(ob2, k) = Len(f) + 1
       /\ \A i \in 0..k : y[NumAt(ob2, i)] = f[NumAt(ok, i)]
       /\ \A i \in 0..k - 1 : y[OpAt(ob2, i)] = f[OpAt(ok, i)]
      BY <1>10, PushShaped
<1>12. (k + 1) - 1 = k /\ k + 1 > 0
      BY <1>1
<1>13. ExprShape(x, k + 1, ob2)
  <2>1. k + 1 > 0 /\ ob2[k + 1] = ob2[(k + 1) - 1]
        BY <1>9, <1>12
  <2>2. Shaped(Full(x), k + 1, ob2)
        BY <1>11 DEF y
  <2> QED BY <2>1, <2>2, <1>4 DEF ExprShape
<1>14. r.bop_stack_index = k /\ r.stack_index = k + 1
      BY <1>2 DEF Agrees
<1>15. r \in Machines /\ priority \in Nat
  <2>1. Priority(o) \in 0..2 /\ ok[k] * PARENTHESES_PRIORITY_RAISE \in Nat
        BY <1>1, PriorityRange, SizesAssumption
  <2> QED BY <2>1 DEF Sound
<1>16. /\ q.bop_stack[k].cop = o /\ q.bop_stack[k].priority = priority
       /\ \A i \in 0..k - 1 : q.bop_stack[i] = r.bop_stack[i]
       /\ q.bop_stack_index = k + 1 /\ q.stack_index = k + 1 /\ q.stack = r.stack
  <2>1. /\ q.bop_stack[r.bop_stack_index].cop = o
        /\ q.bop_stack[r.bop_stack_index].priority = priority
        /\ \A i \in 0..r.bop_stack_index - 1 : q.bop_stack[i] = r.bop_stack[i]
        /\ q.bop_stack_index = r.bop_stack_index + 1
        /\ q.stack_index = r.stack_index
        BY <1>15, BopPushSound
  <2>2. SameStack(q, r)
        BY <1>15, BopPushKeeps
  <2> QED BY <2>1, <2>2, <1>14 DEF SameStack
<1> HIDE DEF q
<1>17. ASSUME NEW i \in 0..(k + 1) - 1
       PROVE  /\ q.bop_stack[i].cop = y[OpAt(ob2, i)].op
              /\ q.bop_stack[i].priority =
                   Priority(y[OpAt(ob2, i)].op) + ob2[i] * PARENTHESES_PRIORITY_RAISE
              /\ ~y[OpAt(ob2, i)].dropped
  <2>1. CASE i = k
    <3>1. y[OpAt(ob2, k)] = Abstract!Op(o)
          BY <1>10, <1>11 DEF IsPushed
    <3> QED BY <2>1, <3>1, <1>3, <1>9, <1>16
  <2>2. CASE i # k
    <3>1. i \in 0..k - 1 /\ i \in 0..k
          BY <2>2, <1>1
    <3>2. y[OpAt(ob2, i)] = f[OpAt(ok, i)] /\ ob2[i] = ok[i] /\ q.bop_stack[i] = r.bop_stack[i]
          BY <3>1, <1>9, <1>11, <1>16
    <3>3. /\ r.bop_stack[i].cop = f[OpAt(ok, i)].op
          /\ r.bop_stack[i].priority =
               Priority(f[OpAt(ok, i)].op) + ok[i] * PARENTHESES_PRIORITY_RAISE
          /\ ~f[OpAt(ok, i)].dropped
          BY <3>1, <1>2 DEF Agrees
    <3> QED BY <3>2, <3>3
  <2> QED BY <2>1, <2>2
<1>18. ASSUME NEW i \in 0..q.stack_index - 1 PROVE q.stack[i].fval = y[NumAt(ob2, i)].val
  <2>1. i \in 0..k /\ i \in 0..r.stack_index - 1
        BY <1>1, <1>14, <1>16
  <2>2. r.stack[i].fval = f[NumAt(ok, i)].val
        BY <2>1, <1>2 DEF Agrees
  <2>3. y[NumAt(ob2, i)] = f[NumAt(ok, i)]
        BY <2>1, <1>11
  <2> QED BY <2>2, <2>3, <1>16
<1>19. Agrees(q, x, k + 1, ob2)
      BY <1>5, <1>13, <1>16, <1>17, <1>18 DEF Agrees, y
<1> QED BY <1>9, <1>19 DEF q, x

\* What an operator is typed behind: a second one in a row replaces the first.
LEMMA BaseAgrees ==
  ASSUME NEW m, Sound(m), Runnable(m), NEW x, NEW n, NEW ob, Agrees(m, x, n, ob),
         NEW m1, m1 = IF m.bop_stack_index > 0 /\ m.bop_stack_index >= m.stack_index
                      THEN BopPop(m) ELSE m,
         NEW u, u = IF Abstract!Dangling(x) THEN Abstract!Front(x) ELSE x
  PROVE  /\ Sound(m1) /\ Runnable(m1) /\ m1.bin_op_was_entered = m.bin_op_was_entered
         /\ \E n1, ob1 : Agrees(m1, u, n1, ob1) /\ Shaped(u, n1, ob1) /\ ob1[n1] = ob[n]
<1>1. m.bop_stack_index = n /\ ExprShape(x, n, ob)
      BY DEF Agrees
<1>2. n \in Nat
      BY <1>1, FullFacts
<1>3. CASE Abstract!Dangling(x)
  <2>1. n > 0 /\ m.stack_index = n /\ m.bop_stack_index > 0 /\ m.bop_stack_index >= m.stack_index
        BY <1>1, <1>2, <1>3, FrontAgrees DEF Agrees
  <2>2. m1 = BopPop(m) /\ u = Abstract!Front(x)
        BY <1>3, <2>1
  <2>3. PICK ob1 : Agrees(m1, u, n - 1, ob1) /\ ob1[n - 1] = ob[n]
        BY <1>3, <2>2, FrontAgrees
  <2>4. ~Abstract!Dangling(u)
    <3>1. m1.stack_index = m.stack_index
          BY <2>1, <2>2, BopPopSound DEF Sound
    <3>2. m1.stack_index = n
          BY <2>1, <3>1
    <3> QED BY <3>2, <2>3, <1>2 DEF Agrees
  <2>5. Shaped(u, n - 1, ob1)
        BY <2>3, <2>4 DEF Agrees, ExprShape, Full
  <2>6. /\ m1 \in Machines /\ m1.bop_stack_index = m.bop_stack_index - 1
        /\ m1.bop_stack = m.bop_stack /\ m1.stack_index = m.stack_index
        /\ m1.bin_op_was_entered = m.bin_op_was_entered /\ m1.error = m.error
        BY <2>1, <2>2, BopPopSound DEF Sound
  <2>7. Sound(m1)
        BY <2>1, <2>6, <1>1, <1>2 DEF Sound
  <2>8. Runnable(m1)
    <3>1. \A i \in 0..m1.bop_stack_index - 1 : i \in 0..m.bop_stack_index - 1
          BY <2>6, <1>1, <1>2
    <3> QED BY <3>1, <2>6 DEF Runnable
  <2> QED BY <2>3, <2>5, <2>6, <2>7, <2>8
<1>4. CASE ~Abstract!Dangling(x)
  <2>1. m.stack_index = n + 1
        BY <1>4 DEF Agrees
  <2>2. m1 = m /\ u = x
        BY <1>1, <1>2, <1>4, <2>1
  <2>3. Shaped(u, n, ob)
        BY <2>2, <1>1, <1>4 DEF ExprShape, Full
  <2> QED BY <2>2, <2>3
<1> QED BY <1>3, <1>4

\* The expression after an operator is typed behind e.
AfterOp(e, o) ==
  SubSeq(e, 1, Abstract!OperandStart(e) - 1) \o <<Abstract!Num(Abstract!Display(e)), Abstract!Op(o)>>

\* q agrees with g, which has an operator, in l brackets.
AgreesWithOp(q, g, l) ==
  \E k, ob : k \in Nat /\ Agrees(q, g, k + 1, ob) /\ ob[k + 1] = l

\* The operators that bind at least as tight are evaluated, within the bracket, and
\* the new one goes behind their value.
LEMMA BinaryAgrees ==
  ASSUME ConfigOK, calc_mode = "float", allow_repeated_equals \in BOOLEAN,
         NEW m, Sound(m), Runnable(m), NEW u, NEW n, NEW ob, Agrees(m, u, n, ob),
         Shaped(u, n, ob), NEW o \in BinaryOps,
         NEW priority, priority = Priority(o) + ob[n] * PARENTHESES_PRIORITY_RAISE,
         NEW r, r = ProcessBinOps(m, priority), r.bop_stack_index < BOP_STACK_SIZE,
         NEW e, e = Append(u, Abstract!Op(o))
  PROVE  Sound(r) /\ AgreesWithOp(BopPush(r, o, priority), AfterOp(e, o), ob[n])
<1>1. ~Abstract!Dangling(u) /\ u \in Seq(Item)
      BY NotDangling
<1>2. u = Abstract!Settled(u)
      BY <1>1 DEF Abstract!Settled
<1>3. Holds(m, u, n, ob)
      BY <1>2, AgreesHolds
<1>4. /\ n \in Nat /\ ob \in Levels(n) /\ n \in 0..n /\ ob[n] \in Nat
      /\ Len(u) = NumAt(ob, n) /\ Len(u) \in Nat /\ Len(u) >= 1
      BY ShapedItems, Positions DEF Shaped
<1>5. PICK v : IsFold(v, u, n, ob)
      BY <1>3, FoldOfMachine
<1>6. PICK k : /\ Progress(r, k, m, u, n, ob, v)
               /\ k = 0 \/ priority > m.bop_stack[k - 1].priority
               /\ \A i \in k..n - 1 : ~(priority > m.bop_stack[i].priority)
      BY <1>3, <1>5, ProcessIs
<1>7. PICK b : Starts(ob, n, b)
      BY <1>4, StartExists
<1>8. k \in 0..n /\ k \in Nat /\ k <= n /\ b \in 0..n
      BY <1>4, <1>6, <1>7 DEF Progress, Starts
<1>9. Priority(o) \in 0..2
      BY PriorityRange
<1>10. /\ k \in b..n
       /\ k > b => Priority(u[OpAt(ob, k - 1)].op) < Priority(o)
       /\ \A i \in k..n - 1 : ~(Priority(u[OpAt(ob, i)].op) < Priority(o))
  <2> DEFINE p == Priority(o)
  <2>1. p \in 0..2 /\ priority = p + ob[n] * PARENTHESES_PRIORITY_RAISE
        BY <1>9
  <2> HIDE DEF p
  <2>2. /\ k \in b..n
        /\ k > b => Priority(u[OpAt(ob, k - 1)].op) < p
        /\ \A i \in k..n - 1 : ~(Priority(u[OpAt(ob, i)].op) < p)
    <3>1. /\ k = 0 \/ priority > m.bop_stack[k - 1].priority
          /\ \A i \in k..n - 1 : ~(priority > m.bop_stack[i].priority)
          BY <1>6
    <3> QED BY <2>1, <3>1, <1>3, <1>7, <1>8, TakenFrom, SMTT(60)
  <2> QED BY <2>2 DEF p
<1>11. /\ Abstract!Op(o) \in Item /\ Abstract!Op(o).kind = "op" /\ Abstract!Op(o).op = o
      BY ItemTypes
<1>12. /\ e \in Seq(Item) /\ Len(e) = Len(u) + 1
       /\ \A p \in 1..Len(u) : e[p] = u[p]
       /\ e[Len(e)] = Abstract!Op(o)
      BY <1>1, <1>11, AppendFacts
<1>13. Abstract!OperandStart(e) = NumAt(ob, k)
  <2>1. k > b => Priority(u[OpAt(ob, k - 1)].op) < Priority(e[Len(e)].op)
        BY <1>10, <1>11, <1>12
  <2>2. \A i \in k..n - 1 : ~(Priority(u[OpAt(ob, i)].op) < Priority(e[Len(e)].op))
        BY <1>10, <1>11, <1>12
  <2>3. e[Len(e)].kind = "op"
        BY <1>11, <1>12
  <2>4. /\ e \in Seq(Item) /\ Len(e) = Len(u) + 1
        /\ \A p \in 1..Len(u) : e[p] = u[p]
        BY <1>12
  <2>5. k \in b..n
        BY <1>10
  <2>6. IsBehind(e, u, n, ob, b, k)
        BY <2>1, <2>2, <2>3, <2>4, <2>5 DEF IsBehind
  <2> QED BY <2>6, <1>7, OperandStartIs
<1>14. Abstract!Display(e) = v[k] /\ v[k] \in FVal
  <2>1. Abstract!Dangling(e)
        BY <1>11, <1>12 DEF Abstract!Dangling, Abstract!Last
  <2>2. Len(e) - 1 = Len(u)
        BY <1>4, <1>12
  <2>3. Extends(e, u)
        BY <1>4, <1>12 DEF Extends
  <2>4. Abstract!ValueOf(e, NumAt(ob, k), Len(u)) = v[k]
        BY <2>3, <1>5, <1>7, <1>10, FoldIsValue
  <2>5. v[k] \in FVal
        BY <1>5, <1>8 DEF IsFold
  <2> QED BY <2>1, <2>2, <2>4, <2>5, <1>13 DEF Abstract!Display
<1> DEFINE h  == SubSeq(e, 1, NumAt(ob, k) - 1)
           f  == Append(h, Abstract!Num(v[k]))
           ok == [i \in 0..k |-> ob[i]]
<1>15. /\ h \in Seq(Item) /\ Len(h) = NumAt(ob, k) - 1 /\ Len(h) \in Nat
       /\ \A p \in 1..Len(h) : h[p] = u[p]
  <2>1. NumAt(ob, k) \in Nat /\ 1 <= NumAt(ob, k) /\ NumAt(ob, k) <= Len(u)
        BY <1>4, <1>8, Positions
  <2>2. NumAt(ob, k) - 1 \in 0..Len(e) /\ NumAt(ob, k) - 1 \in Nat
        BY <2>1, <1>4, <1>12
  <2>3. /\ h \in Seq(Item) /\ Len(h) = NumAt(ob, k) - 1
        /\ \A p \in 1..NumAt(ob, k) - 1 : h[p] = e[p]
        BY <2>2, <1>12, PrefixFacts
  <2>4. \A p \in 1..NumAt(ob, k) - 1 : p \in 1..Len(u)
        BY <2>1, <1>4
  <2> HIDE DEF h
  <2> QED BY <2>2, <2>3, <2>4, <1>12
<1>16. Abstract!Num(v[k]) \in Item
      BY <1>14, ItemTypes
<1> HIDE DEF h
<1>17. /\ f \in Seq(Item) /\ Len(f) = Len(h) + 1
       /\ \A p \in 1..Len(h) : f[p] = h[p]
       /\ f[Len(h) + 1] = Abstract!Num(v[k])
      BY <1>15, <1>16, AppendFacts
<1>18. /\ ok \in [0..k -> Nat] /\ ok[k] = ob[k] - 0 /\ ok[k] = ob[k] /\ ob[k] \in Nat
       /\ \A i \in 0..k - 1 : ok[i] = ob[i]
       /\ \A i \in 0..k : ok[i] = ob[i]
  <2>1. \A i \in 0..k : i \in 0..n /\ ob[i] \in Nat
        BY <1>4, <1>8, Positions
  <2>2. k \in 0..k
        BY <1>8
  <2> QED BY <2>1, <2>2
<1> HIDE DEF f, ok
<1>19. Reduces(f, k, ok, u, n, ob, v)
  <2>1. NumAt(ob, k) \in Nat
        BY <1>4, <1>8, Positions
  <2>2. Len(f) = NumAt(ob, k) - 0 /\ Len(f) - 1 = Len(h) /\ Len(f) = Len(h) + 1
        BY <2>1, <1>15, <1>17
  <2>3. \A p \in 1..Len(f) - 1 : f[p] = u[p]
        BY <2>2, <1>15, <1>17
  <2>4. f[Len(f)] = Abstract!Num(v[k])
        BY <2>2, <1>17
  <2>5. 0 \in Nat /\ 0 <= ob[k]
        BY <1>18
  <2>6. k > 0 => 0 <= ob[k] - ob[k - 1]
    <3> SUFFICES ASSUME k > 0 PROVE 0 <= ob[k] - ob[k - 1]
        OBVIOUS
    <3>1. k - 1 \in 0..n /\ k - 1 <= k
          BY <1>4, <1>8
    <3>2. ob[k - 1] \in Nat /\ ob[k - 1] <= ob[k]
          BY <3>1, <1>4, <1>8 DEF Levels
    <3> QED BY <3>2, <1>18
  <2> QED BY <1>5, <1>8, <1>17, <1>18, <2>2, <2>3, <2>4, <2>5, <2>6, CutReduces
<1>20. r.stack_index = k + 1 /\ Sound(r) /\ r.bop_stack_index = k
  <2>1. CASE k < n
        BY <2>1, <1>6 DEF Progress
  <2>2. CASE k = n
    <3>1. r = m
          BY <2>2, <1>6 DEF Progress
    <3> QED BY <3>1, <2>2, <1>1, <1>6 DEF Agrees, Progress
  <2> QED BY <2>1, <2>2, <1>4, <1>8
<1>21. Agrees(r, f, k, ok)
      BY <1>2, <1>6, <1>19, <1>20, ReducedAgrees
<1>22. Shaped(f, k, ok) /\ \A i \in 0..k - 1 : f[OpAt(ok, i)] = u[OpAt(ob, i)]
      BY <1>19 DEF Reduces
<1>23. ob[k] = ob[n]
      BY <1>4, <1>7, <1>10, InnerLevels
<1>24. ASSUME NEW i \in 0..k - 1, ok[i] = ok[k] PROVE Priority(f[OpAt(ok, i)].op) < Priority(o)
  <2>1. i \in 0..n - 1 /\ i \in 0..n /\ k - 1 \in 0..n - 1
        BY <1>4, <1>8
  <2>2. ob[i] = ob[n]
        BY <1>18, <1>23, <1>24
  <2>3. i >= b
    <3> SUFFICES ASSUME i < b PROVE FALSE
        BY <1>4, <1>8
    <3>1. b > 0 /\ b - 1 \in 0..n /\ i <= b - 1
          BY <1>4, <1>8
    <3>2. ob[b - 1] < ob[n] /\ ob[i] <= ob[b - 1] /\ ob[b - 1] \in Nat
          BY <3>1, <2>1, <1>4, <1>7 DEF Starts, Levels
    <3> QED BY <3>2, <2>2, <1>4
  <2>4. k > b /\ k - 1 \in b..n
        BY <2>3, <1>4, <1>8
  <2>5. Priority(u[OpAt(ob, k - 1)].op) < Priority(o)
        BY <2>4, <1>10
  <2>6. ob[k - 1] = ob[n]
        BY <2>4, <1>4, <1>7, InnerLevels
  <2>7. i = k - 1 \/ Priority(u[OpAt(ob, i)].op) < Priority(u[OpAt(ob, k - 1)].op)
    <3> SUFFICES ASSUME i # k - 1
                 PROVE  Priority(u[OpAt(ob, i)].op) < Priority(u[OpAt(ob, k - 1)].op)
        OBVIOUS
    <3>1. i < k - 1
          BY <1>8
    <3> QED BY <3>1, <2>1, <2>2, <2>6 DEF Shaped
  <2>8. Priority(u[OpAt(ob, i)].op) \in 0..2 /\ Priority(u[OpAt(ob, k - 1)].op) \in 0..2
        BY <2>1, PriorityRange DEF Shaped
  <2>9. Priority(u[OpAt(ob, i)].op) < Priority(o)
        BY <2>5, <2>7, <2>8, <1>9
  <2> QED BY <2>9, <1>22
<1>25. priority = Priority(o) + ok[k] * PARENTHESES_PRIORITY_RAISE
      BY <1>18, <1>23
<1>26. PICK ob2 : /\ Agrees(BopPush(r, o, priority), Append(f, Abstract!Op(o)), k + 1, ob2)
                  /\ ob2[k + 1] = ok[k]
      BY <1>20, <1>21, <1>22, <1>24, <1>25, PushAgrees
<1>27. Append(f, Abstract!Op(o)) = h \o <<Abstract!Num(v[k]), Abstract!Op(o)>>
      BY <1>11, <1>15, <1>16 DEF f
<1>28. SubSeq(e, 1, Abstract!OperandStart(e) - 1)
         \o <<Abstract!Num(Abstract!Display(e)), Abstract!Op(o)>> = Append(f, Abstract!Op(o))
      BY <1>13, <1>14, <1>27, Zenon DEF h
<1>29. ob2[k + 1] = ob[n]
      BY <1>18, <1>23, <1>26
<1>30. /\ k \in Nat /\ Agrees(BopPush(r, o, priority), AfterOp(e, o), k + 1, ob2)
       /\ ob2[k + 1] = ob[n]
      BY <1>8, <1>26, <1>28, <1>29, Zenon DEF AfterOp
<1> QED BY <1>20, <1>30, Zenon DEF AgreesWithOp

-----------------------------------------------------------------------------
(* The inductive invariant                                                  *)

StacksAgree ==
  \E ob : /\ Agrees(Machine, expr, bop_stack_index, ob)
          /\ ob[bop_stack_index] = num_parentheses

\* The stacks agree with the expression, and what [=] repeats is in popped slots.
KeysOK ==
  /\ calc_mode = "float" /\ init_from_save_val = FALSE
  /\ ready => /\ StacksAgree
              /\ bop_stack_index > 0 => bin_op_was_entered
              /\ ~bin_op_was_entered => repeat = Abstract!NoRepeat
  /\ RepeatKept

ExprInv == Inv /\ KeysOK

\* What the invariant says between calls.
LEMMA ExprFacts ==
  ASSUME ExprInv, ready
  PROVE  /\ ConfigOK /\ calc_mode = "float" /\ allow_repeated_equals \in BOOLEAN
         /\ Sound(Machine) /\ Runnable(Machine) /\ Kept(Machine)
         /\ num_parentheses \in Nat /\ num_parentheses <= MAX_PARENTHESES
         /\ bop_stack_index \in Nat
         /\ bop_stack_index > 0 => bin_op_was_entered
         /\ ~bin_op_was_entered => repeat = Abstract!NoRepeat
         /\ \E ob : /\ Agrees(Machine, expr, bop_stack_index, ob)
                    /\ ob[bop_stack_index] = num_parentheses
<1>1. Inv /\ KeysOK
      BY DEF ExprInv
<1>2. /\ ConfigOK /\ RestOK /\ Sound(Machine) /\ Runnable(Machine) /\ Kept(Machine)
      BY <1>1, InvMachine
<1>3. num_parentheses \in Nat /\ num_parentheses <= MAX_PARENTHESES
      /\ allow_repeated_equals \in BOOLEAN
      BY <1>2, SizesAssumption DEF RestOK
<1>4. bop_stack_index \in Nat
  <2>1. Machine.bop_stack_index \in Nat
        BY <1>2, IndexTypes DEF Sound
  <2> QED BY <2>1 DEF Machine
<1> QED BY <1>1, <1>2, <1>3, <1>4 DEF KeysOK, StacksAgree

\* The stacks after a call.
LEMMA MachineAfter ==
  ASSUME NEW m, Commit(m)
  PROVE  /\ Machine'.stack = m.stack /\ Machine'.stack_index = m.stack_index
         /\ Machine'.bop_stack = m.bop_stack /\ Machine'.bop_stack_index = m.bop_stack_index
         /\ Machine'.bin_op_was_entered = m.bin_op_was_entered
         /\ bop_stack_index' = m.bop_stack_index /\ bin_op_was_entered' = m.bin_op_was_entered
         /\ stack' = m.stack /\ bop_stack' = m.bop_stack
BY DEF Commit, Machine

\* After a call that updates the display.
LEMMA DisplayAfter ==
  ASSUME NEW m, Sound(m), Commit(RequestDisplayUpdate(m))
  PROVE  /\ Machine'.stack = m.stack /\ Machine'.stack_index = m.stack_index
         /\ Machine'.bop_stack = m.bop_stack /\ Machine'.bop_stack_index = m.bop_stack_index
         /\ bop_stack_index' = m.bop_stack_index /\ bin_op_was_entered' = m.bin_op_was_entered
         /\ stack' = m.stack /\ bop_stack' = m.bop_stack
         /\ shown'.el = StackTop(Machine')
<1> DEFINE q == RequestDisplayUpdate(m)
<1>1. SameBops(q, m) /\ q.stack_index = m.stack_index
      BY DisplaySound
<1>2. q.stack = m.stack /\ q.shown.el = StackTop(m)
      BY DisplayShows
<1>3. shown' = q.shown
      BY DEF Commit
<1> HIDE DEF q
<1>4. Commit(q)
      BY DEF q
<1>5. /\ Machine'.stack = q.stack /\ Machine'.stack_index = q.stack_index
      /\ Machine'.bop_stack = q.bop_stack /\ Machine'.bop_stack_index = q.bop_stack_index
      /\ bop_stack_index' = q.bop_stack_index /\ bin_op_was_entered' = q.bin_op_was_entered
      /\ stack' = q.stack /\ bop_stack' = q.bop_stack
      BY <1>4, MachineAfter
<1>6. StackTop(Machine') = StackTop(m)
      BY <1>1, <1>2, <1>5 DEF StackTop
<1> QED BY <1>1, <1>2, <1>3, <1>5, <1>6 DEF SameBops

\* The engine's own invariant after a call.
LEMMA SoundAfter ==
  ASSUME Inv', ready'
  PROVE  Sound(Machine')
<1>1. TypeOK' /\ NoError' /\ StackShape'
      BY DEF Inv
<1>2. <<>> \in Seq(StackEl)
      OBVIOUS
<1>3. Machine' \in Machines /\ Machine'.error = FALSE
      BY <1>1, <1>2 DEF TypeOK, NoError, Machine, Machines
<1>4. stack_index' >= 1 /\ stack_index' \in {bop_stack_index', bop_stack_index' + 1}
      BY <1>1 DEF StackShape
<1>5. Machine'.stack_index = stack_index' /\ Machine'.bop_stack_index = bop_stack_index'
      BY DEF Machine
<1> QED BY <1>3, <1>4, <1>5 DEF Sound

\* Whatever the key, a display update shows what the grammar gives.
LEMMA ShowsDisplay ==
  ASSUME ExprInv', ready', shown'.el = StackTop(Machine')
  PROVE  shown'.el.fval = Abstract!Display(expr')
<1>1. Sound(Machine')
      BY SoundAfter DEF ExprInv
<1>2. PICK ob : Agrees(Machine', expr', bop_stack_index', ob)
      BY DEF ExprInv, KeysOK, StacksAgree
<1> QED BY <1>1, <1>2, TopShows

\* What later keys depend on but the stacks.
SameMode ==
  /\ calc_mode' = calc_mode /\ init_from_save_val' = init_from_save_val /\ ready' = ready

\* A number on the stack leaves alone what [=] repeats.
LEMMA PlacedKeys ==
  ASSUME ExprInv, ready, NEW el,
         Placed(Machine', Machine, bop_stack_index, el), SameMode, StacksAgree',
         bop_stack' = bop_stack, bop_stack_index' = bop_stack_index,
         bin_op_was_entered' = bin_op_was_entered, repeat' = repeat
  PROVE  KeysOK'
<1>1. /\ Sound(Machine) /\ bop_stack_index \in Nat
      /\ bop_stack_index > 0 => bin_op_was_entered
      /\ ~bin_op_was_entered => repeat = Abstract!NoRepeat
      BY ExprFacts
<1>2. RepeatKept'
  <2> SUFFICES ASSUME bop_stack_index = 0, bin_op_was_entered
               PROVE  repeat' = [op |-> bop_stack'[0].cop, val |-> stack'[1].fval]
      BY DEF RepeatKept
  <2>1. repeat = [op |-> bop_stack[0].cop, val |-> stack[1].fval]
        BY DEF ExprInv, KeysOK, RepeatKept
  <2>2. 1 \in Slots
        BY Sizes, SizesAssumption DEF Slots
  <2>3. Machine'.stack[1] = Machine.stack[1]
        BY <2>2 DEF Placed, Writes
  <2>4. stack'[1] = stack[1]
        BY <2>3 DEF Machine
  <2> QED BY <2>1, <2>4
<1> QED BY <1>1, <1>2 DEF ExprInv, KeysOK, SameMode

\* A number typed, recalled or computed by a unary operator.
LEMMA NumberInv ==
  ASSUME ExprInv, ready, NEW el, el.fval \in FVal,
         Placed(Machine', Machine, bop_stack_index, el), SameMode,
         bop_stack' = bop_stack, bop_stack_index' = bop_stack_index,
         bin_op_was_entered' = bin_op_was_entered, num_parentheses' = num_parentheses,
         expr' = Append(Before(expr), Abstract!Num(el.fval)), repeat' = repeat
  PROVE  KeysOK'
<1>1. Sound(Machine) /\ bop_stack_index \in Nat
      BY ExprFacts
<1>2. PICK ob : /\ Agrees(Machine, expr, bop_stack_index, ob)
                /\ ob[bop_stack_index] = num_parentheses
      BY ExprFacts
<1>3. Agrees(Machine', expr', bop_stack_index, ob)
      BY <1>1, <1>2, NumberAgrees
<1>4. StacksAgree'
      BY <1>2, <1>3 DEF StacksAgree
<1> QED BY <1>4, PlacedKeys

-----------------------------------------------------------------------------
(* Each key changes the expression as ExprCalc says, and keeps the stacks   *)
(* in agreement with it.                                                    *)

KeyDone == KeysOK' /\ [Abstract!Next]_(Abstract!vars)

\* The display, as the abstract step has it.
LEMMA ShowsStep ==
  ASSUME Inv', KeysOK', ready', shown'.el = StackTop(Machine'),
         allow_repeated_equals' = allow_repeated_equals
  PROVE  Abstract!Shows
<1>1. shown'.el.fval = Abstract!Display(expr')
      BY ShowsDisplay DEF ExprInv
<1> QED BY <1>1 DEF Abstract!Shows

\* Only the two stacks matter.
LEMMA PlacedSame ==
  ASSUME NEW m, NEW q, NEW n, NEW el, Placed(q, m, n, el), NEW r,
         r.stack = q.stack, r.stack_index = q.stack_index,
         r.bop_stack = q.bop_stack, r.bop_stack_index = q.bop_stack_index
  PROVE  Placed(r, m, n, el)
BY DEF Placed, Writes

\* How a number is typed.
LEMMA WithNumberIs ==
  ASSUME NEW v
  PROVE  Abstract!WithNumber(v) = Append(Before(expr), Abstract!Num(v))
BY DEF Abstract!WithNumber, Before

\* The number typed is the last one of the expression afterwards.
LEMMA SomeNumber ==
  ASSUME ExprInv, ready, NEW v \in FVal, Abstract!TypeNumber(v)
  PROVE  /\ Abstract!TypeSomeNumber
         /\ expr' = Append(Before(expr), Abstract!Num(v)) /\ repeat' = repeat
<1>1. expr' = Append(Before(expr), Abstract!Num(v)) /\ repeat' = repeat
      BY WithNumberIs DEF Abstract!TypeNumber
<1>2. PICK ob : Agrees(Machine, expr, bop_stack_index, ob)
      BY ExprFacts
<1>3. Before(expr) \in Seq(Item) /\ Len(Before(expr)) \in Nat
      BY <1>2, BeforeFacts DEF Agrees
<1>4. Abstract!Num(v).val = v
      BY DEF Abstract!Num
<1>5. Abstract!Last(Append(Before(expr), Abstract!Num(v))) = Abstract!Num(v)
  <2> DEFINE w == Abstract!Num(v)
  <2> HIDE DEF w
  <2>1. Len(Append(Before(expr), w)) = Len(Before(expr)) + 1
        /\ Append(Before(expr), w)[Len(Before(expr)) + 1] = w
        BY <1>3
  <2>2. Abstract!Last(Append(Before(expr), w)) = w
        BY <2>1 DEF Abstract!Last
  <2> QED BY <2>2 DEF w
<1>6. Abstract!Last(expr').val = v
      BY <1>1, <1>4, <1>5
<1> QED BY <1>1, <1>6 DEF Abstract!TypeSomeNumber

\* A key that gives a number keeps the invariant.
LEMMA PlacedStep ==
  ASSUME ExprInv, ready, NEW el, el.fval \in FVal, NEW q,
         Placed(q, Machine, bop_stack_index, el), q.bin_op_was_entered = bin_op_was_entered,
         Machine'.stack = q.stack, Machine'.stack_index = q.stack_index,
         Machine'.bop_stack = q.bop_stack, Machine'.bop_stack_index = q.bop_stack_index,
         bin_op_was_entered' = q.bin_op_was_entered,
         SameMode, num_parentheses' = num_parentheses,
         expr' = Append(Before(expr), Abstract!Num(el.fval)), repeat' = repeat
  PROVE  KeysOK'
<1>1. Placed(Machine', Machine, bop_stack_index, el)
      BY PlacedSame
<1>2. bop_stack' = bop_stack /\ bop_stack_index' = bop_stack_index
      BY DEF Placed, Machine
<1> QED BY <1>1, <1>2, NumberInv

\* A number typed: the display is left to the caller.
LEMMA GiveArgKey ==
  ASSUME ExprInv, Inv', NEW v \in ArgF, GiveArg(IZero, v), Abstract!TypeNumber(v)
  PROVE  KeyDone
<1> DEFINE q == NewArg(Machine, IZero, v)
<1>1. /\ ready /\ Commit(q) /\ SameMode /\ num_parentheses' = num_parentheses
      /\ allow_repeated_equals' = allow_repeated_equals
      BY DEF GiveArg, modeVars, configVars, SameMode
<1>2. v \in FVal /\ IZero \in IVal
      BY InputsAssumption
<1>3. ConfigOK /\ Sound(Machine)
      BY <1>1, ExprFacts
<1>4. Machine.bop_stack_index = bop_stack_index /\ Machine.shown = shown
      /\ Machine.bin_op_was_entered = bin_op_was_entered
      BY DEF Machine
<1>5. PICK el : el.fval = v /\ Placed(q, Machine, bop_stack_index, el)
      BY <1>2, <1>3, <1>4, NewArgPlaces
<1>6. q.shown = shown
      BY <1>2, <1>3, <1>4, NewArgPlaces
<1>7. q.bin_op_was_entered = bin_op_was_entered
      BY <1>2, <1>3, <1>4, NewArgSound DEF SameBops
<1> HIDE DEF q
<1>8. Abstract!TypeSomeNumber /\ expr' = Append(Before(expr), Abstract!Num(v)) /\ repeat' = repeat
      BY <1>1, <1>2, SomeNumber
<1>9. KeysOK'
      BY <1>1, <1>2, <1>5, <1>7, <1>8, MachineAfter, PlacedStep
<1>10. shown' = shown
      BY <1>1, <1>6 DEF Commit
<1>11. Abstract!Next
      BY <1>1, <1>8, <1>10 DEF Abstract!Next
<1> QED BY <1>9, <1>11 DEF KeyDone

\* MR: a number that is shown.
LEMMA MemoryRecallKey ==
  ASSUME ExprInv, Inv', MemoryRecall(0), Abstract!TypeNumber(mem_val[0].fval)
  PROVE  KeyDone
<1> DEFINE w == mem_val[0].ival
           v == mem_val[0].fval
           q == NewArg(Machine, w, v)
<1>1. /\ ready /\ Commit(RequestDisplayUpdate(q)) /\ SameMode
      /\ num_parentheses' = num_parentheses
      /\ allow_repeated_equals' = allow_repeated_equals
      BY DEF MemoryRecall, Pressed, modeVars, configVars, SameMode
<1>2. v \in FVal /\ w \in IVal
  <2>1. 0 \in Memory
        BY MemoryAssumption, SizesAssumption DEF Memory
  <2>2. mem_val[0] \in StackEl
        BY <2>1 DEF ExprInv, Inv, TypeOK
  <2> QED BY <2>2, StackElType
<1>3. ConfigOK /\ Sound(Machine)
      BY <1>1, ExprFacts
<1>4. Machine.bop_stack_index = bop_stack_index
      /\ Machine.bin_op_was_entered = bin_op_was_entered
      BY DEF Machine
<1>8. Abstract!TypeSomeNumber /\ expr' = Append(Before(expr), Abstract!Num(v)) /\ repeat' = repeat
      BY <1>1, <1>2, SomeNumber
<1> HIDE DEF w, v
<1>5. PICK el : el.fval = v /\ Placed(q, Machine, bop_stack_index, el)
      BY <1>2, <1>3, <1>4, NewArgPlaces
<1>6. Sound(q) /\ q.bin_op_was_entered = bin_op_was_entered
      BY <1>2, <1>3, <1>4, NewArgSound DEF SameBops
<1> HIDE DEF q
<1>7. /\ Machine'.stack = q.stack /\ Machine'.stack_index = q.stack_index
      /\ Machine'.bop_stack = q.bop_stack /\ Machine'.bop_stack_index = q.bop_stack_index
      /\ bin_op_was_entered' = q.bin_op_was_entered
      /\ shown'.el = StackTop(Machine')
      BY <1>1, <1>6, DisplayAfter
<1>9. KeysOK'
      BY <1>1, <1>2, <1>5, <1>6, <1>7, <1>8, PlacedStep
<1>10. Abstract!Shows
      BY <1>1, <1>7, <1>9, ShowsStep DEF SameMode
<1>11. Abstract!Next
      BY <1>8, <1>10 DEF Abstract!Next
<1> QED BY <1>9, <1>11 DEF KeyDone

\* A unary operator works on the value shown, an operator before it or not.
LEMMA UnaryOpKey ==
  ASSUME ExprInv, Inv', NEW o \in FloatUnaryOps, UnaryOp(o), Abstract!TypeUnary(o)
  PROVE  KeyDone
<1> DEFINE el == ApplyUop(o, StackTop(Machine))
           q == ReplaceTop(Machine, el)
<1>1. /\ ready /\ Commit(RequestDisplayUpdate(q)) /\ SameMode
      /\ num_parentheses' = num_parentheses
      /\ allow_repeated_equals' = allow_repeated_equals
      BY DEF UnaryOp, Pressed, modeVars, configVars, parenVars, SameMode
<1>2. ConfigOK /\ Sound(Machine) /\ calc_mode = "float"
      BY <1>1, ExprFacts
<1>3. PICK ob : Agrees(Machine, expr, bop_stack_index, ob)
      BY <1>1, ExprFacts
<1>4. StackTop(Machine).fval = Abstract!Display(expr)
      BY <1>2, <1>3, TopShows
<1>5. el = FloatEl(FopUnary(o, Abstract!Display(expr)))
      BY <1>2, <1>4 DEF ApplyUop
<1>6. FopUnary(o, Abstract!Display(expr)) \in FVal
  <2>1. StackTop(Machine) \in StackEl
        BY <1>2, StackTopType DEF Sound
  <2> QED BY <1>4, <2>1, StackElType, OperationsClosed
<1>7. el \in StackEl /\ el.fval = FopUnary(o, Abstract!Display(expr))
      BY <1>5, <1>6, InputsAssumption DEF FloatEl, StackEl
<1>8. expr' = Append(Before(expr), Abstract!Num(el.fval)) /\ repeat' = repeat
      BY <1>7, WithNumberIs DEF Abstract!TypeUnary
<1> HIDE DEF el
<1>9. Machine.bop_stack_index = bop_stack_index
      /\ Machine.bin_op_was_entered = bin_op_was_entered
      BY DEF Machine
<1>10. Placed(q, Machine, bop_stack_index, el)
      BY <1>2, <1>7, <1>9, ReplaceTopPlaces
<1>11. Sound(q) /\ q.bin_op_was_entered = bin_op_was_entered
      BY <1>2, <1>7, <1>9, ReplaceTopSound DEF SameBops
<1> HIDE DEF q
<1>12. /\ Machine'.stack = q.stack /\ Machine'.stack_index = q.stack_index
      /\ Machine'.bop_stack = q.bop_stack /\ Machine'.bop_stack_index = q.bop_stack_index
      /\ bin_op_was_entered' = q.bin_op_was_entered
      /\ shown'.el = StackTop(Machine')
      BY <1>1, <1>11, DisplayAfter
<1>13. el.fval \in FVal
      BY <1>6, <1>7
<1>14. KeysOK'
      BY <1>1, <1>8, <1>10, <1>11, <1>12, <1>13, PlacedStep
<1>15. Abstract!Shows
      BY <1>1, <1>12, <1>14, ShowsStep DEF SameMode
<1>16. Abstract!Next
      BY <1>15 DEF Abstract!Next
<1> QED BY <1>14, <1>16 DEF KeyDone

\* The engine has num_parentheses for a bracket that is open.
LEMMA ParenthesesLeftKey ==
  ASSUME ExprInv, Inv', ParenthesesLeft, Abstract!TypeOpen
  PROVE  KeyDone
<1> DEFINE q == NewArg(Machine, IZero, FZero)
<1>1. /\ ready /\ Commit(RequestDisplayUpdate(q)) /\ SameMode
      /\ num_parentheses < MAX_PARENTHESES /\ num_parentheses' = num_parentheses + 1
      /\ allow_repeated_equals' = allow_repeated_equals
      BY DEF ParenthesesLeft, Pressed, modeVars, configVars, SameMode
<1>2. FZero \in FVal /\ IZero \in IVal
      BY InputsAssumption
<1>3. ConfigOK /\ Sound(Machine) /\ bop_stack_index \in Nat
      BY <1>1, ExprFacts
<1>4. Machine.bop_stack_index = bop_stack_index /\ Machine.bop_stack = bop_stack
      /\ Machine.bin_op_was_entered = bin_op_was_entered
      BY DEF Machine
<1>5. PICK el : el.fval = FZero /\ Placed(q, Machine, bop_stack_index, el)
      BY <1>2, <1>3, <1>4, NewArgPlaces
<1>6. Sound(q) /\ q.bin_op_was_entered = bin_op_was_entered
      BY <1>2, <1>3, <1>4, NewArgSound DEF SameBops
<1> HIDE DEF q
<1>7. /\ Machine'.stack = q.stack /\ Machine'.stack_index = q.stack_index
      /\ Machine'.bop_stack = q.bop_stack /\ Machine'.bop_stack_index = q.bop_stack_index
      /\ bop_stack' = q.bop_stack /\ bop_stack_index' = q.bop_stack_index
      /\ bin_op_was_entered' = q.bin_op_was_entered
      /\ shown'.el = StackTop(Machine')
      BY <1>1, <1>6, DisplayAfter
<1>8. Placed(Machine', Machine, bop_stack_index, el)
      BY <1>5, <1>7, PlacedSame
<1>9. bop_stack' = bop_stack /\ bop_stack_index' = bop_stack_index
      BY <1>4, <1>5, <1>7 DEF Placed
<1>10. PICK ob : /\ Agrees(Machine, expr, bop_stack_index, ob)
                 /\ ob[bop_stack_index] = num_parentheses
      BY <1>1, ExprFacts
<1>11. expr' = Before(expr) \o <<Abstract!Open, Abstract!Num(el.fval)>> /\ repeat' = repeat
      BY <1>5 DEF Abstract!TypeOpen, Before
<1>12. \E ob1 : Agrees(Machine', expr', bop_stack_index, ob1)
                /\ ob1[bop_stack_index] = num_parentheses + 1
      BY <1>2, <1>3, <1>5, <1>8, <1>10, <1>11, OpenAgrees
<1>13. StacksAgree'
      BY <1>1, <1>9, <1>12 DEF StacksAgree
<1>14. KeysOK'
      BY <1>1, <1>6, <1>7, <1>8, <1>9, <1>11, <1>13, PlacedKeys
<1>15. Abstract!Shows
      BY <1>1, <1>7, <1>14, ShowsStep DEF SameMode
<1>16. Cardinality(Abstract!Opens(expr)) < MAX_PARENTHESES
      BY <1>1, <1>10, OpensOfFull DEF Agrees
<1>17. Abstract!Cardinality(Abstract!Opens(expr)) < MAX_PARENTHESES
      BY <1>16 DEF Cardinality, Abstract!Cardinality
<1>18. Abstract!Next
      BY <1>15, <1>17 DEF Abstract!Next
<1> QED BY <1>14, <1>18 DEF KeyDone

\* The loop evaluates the innermost bracket, and may leave what [=] repeats.
LEMMA ParenthesesRightKey ==
  ASSUME ExprInv, Inv', ParenthesesRight, Abstract!TypeClose
  PROVE  KeyDone
<1> DEFINE r == ProcessBinOps(Machine, num_parentheses * PARENTHESES_PRIORITY_RAISE)
           s == Abstract!Settled(expr)
           n == bop_stack_index
<1>1. /\ ready /\ Commit(RequestDisplayUpdate(r)) /\ SameMode
      /\ num_parentheses > 0 /\ num_parentheses' = num_parentheses - 1
      /\ allow_repeated_equals' = allow_repeated_equals
      BY DEF ParenthesesRight, Pressed, modeVars, configVars, SameMode
<1>2. /\ ConfigOK /\ calc_mode = "float" /\ allow_repeated_equals \in BOOLEAN
      /\ Sound(Machine) /\ Runnable(Machine)
      /\ num_parentheses \in Nat /\ num_parentheses <= MAX_PARENTHESES
      /\ n \in Nat
      /\ n > 0 => bin_op_was_entered
      /\ ~bin_op_was_entered => repeat = Abstract!NoRepeat
      BY <1>1, ExprFacts
<1>3. Machine.stack = stack /\ Machine.bop_stack = bop_stack
      /\ Machine.bin_op_was_entered = bin_op_was_entered
      BY DEF Machine
<1>4. PICK ob : Agrees(Machine, expr, n, ob) /\ ob[n] = num_parentheses
      BY <1>1, ExprFacts
<1>5. \E k, ok, v : /\ Agrees(r, Abstract!Closed(s), k, ok) /\ ok[k] = ob[n] - 1
                    /\ Shaped(s, n, ob) /\ IsFold(v, s, n, ob)
                    /\ Progress(r, k, Machine, s, n, ob, v)
      BY <1>1, <1>2, <1>4, CloseAgrees
<1>6. Holds(Machine, s, n, ob)
      BY <1>2, <1>4, AgreesHolds
<1>7. /\ expr' = Abstract!Closed(s)
      /\ repeat' = IF Abstract!Ops(expr) # {} /\ Abstract!Ops(Abstract!Closed(s)) = {}
                   THEN Abstract!RootAndRight(s) ELSE repeat
      BY DEF Abstract!TypeClose
<1> HIDE DEF r, s
<1>8. PICK k, ok, v : /\ Agrees(r, expr', k, ok) /\ ok[k] = ob[n] - 1
                      /\ Shaped(s, n, ob) /\ IsFold(v, s, n, ob)
                      /\ Progress(r, k, Machine, s, n, ob, v)
      BY <1>5, <1>7
<1>9. Sound(r) /\ r.bin_op_was_entered = bin_op_was_entered /\ k \in 0..n
      /\ (k = n => r = Machine)
      BY <1>3, <1>8 DEF Progress
<1>10. /\ Machine'.stack = r.stack /\ Machine'.stack_index = r.stack_index
      /\ Machine'.bop_stack = r.bop_stack /\ Machine'.bop_stack_index = r.bop_stack_index
      /\ bop_stack' = r.bop_stack /\ bop_stack_index' = r.bop_stack_index
      /\ stack' = r.stack
      /\ bin_op_was_entered' = r.bin_op_was_entered
      /\ shown'.el = StackTop(Machine')
      BY <1>1, <1>9, DisplayAfter
<1>11. Agrees(Machine', expr', k, ok) /\ bop_stack_index' = k
      BY <1>8, <1>10, AgreesSame DEF Agrees
<1>12. StacksAgree'
      BY <1>1, <1>4, <1>8, <1>11 DEF StacksAgree
<1>13. (Abstract!Ops(expr) # {} <=> n > 0) /\ (Abstract!Ops(expr') # {} <=> k > 0)
      BY <1>4, <1>8, OpsNonEmpty DEF Agrees
<1>14. ~bin_op_was_entered' => repeat' = Abstract!NoRepeat
      BY <1>2, <1>7, <1>9, <1>10, <1>13
<1>15. bop_stack_index' > 0 => bin_op_was_entered'
      BY <1>2, <1>9, <1>10, <1>11
<1>16. RepeatKept'
  <2> SUFFICES ASSUME k = 0, bin_op_was_entered
               PROVE  repeat' = [op |-> r.bop_stack[0].cop, val |-> r.stack[1].fval]
      BY <1>9, <1>10, <1>11 DEF RepeatKept
  <2>1. CASE n = 0
    <3>1. repeat' = repeat /\ r = Machine
          BY <1>7, <1>9, <1>13, <2>1
    <3>2. repeat = [op |-> bop_stack[0].cop, val |-> stack[1].fval]
          BY <1>1, <2>1 DEF ExprInv, KeysOK, RepeatKept
    <3> QED BY <1>3, <3>1, <3>2
  <2>2. CASE n > 0
    <3>1. repeat' = Abstract!RootAndRight(s)
      <4>1. Abstract!Ops(expr') = {}
            BY <1>13
      <4> QED BY <1>7, <1>13, <2>2, <4>1
    <3>2. Abstract!RootAndRight(s) = [op |-> r.bop_stack[0].cop, val |-> r.stack[1].fval]
      <4>1. Progress(r, 0, Machine, s, n, ob, v)
            BY <1>8
      <4> QED BY <1>2, <1>4, <1>6, <1>8, <2>2, <4>1, RepeatSlots
    <3> QED BY <3>1, <3>2
  <2> QED BY <1>2, <2>1, <2>2
<1>17. KeysOK'
      BY <1>1, <1>12, <1>14, <1>15, <1>16 DEF ExprInv, KeysOK, SameMode
<1>18. Abstract!Shows
      BY <1>1, <1>10, <1>17, ShowsStep DEF SameMode
<1>19. Abstract!Opens(expr) # {}
  <2>1. ob[n] # 0
        BY <1>1, <1>2, <1>4
  <2> QED BY <1>4, <2>1, OpensOfFull DEF Agrees
<1>20. Abstract!Next
      BY <1>18, <1>19 DEF Abstract!Next
<1> QED BY <1>17, <1>20 DEF KeyDone

\* The loop evaluates what binds at least as tight, then there is room for the operator.
LEMMA BinaryOpKey ==
  ASSUME ExprInv, Inv', NEW o \in BinaryOps, BinaryOp(o), Abstract!TypeBinary(o)
  PROVE  KeyDone
<1> DEFINE p  == Priority(o) + num_parentheses * PARENTHESES_PRIORITY_RAISE
           m1 == IF bop_stack_index > 0 /\ bop_stack_index >= stack_index
                 THEN BopPop(Machine) ELSE Machine
           r  == ProcessBinOps(m1, p)
           q  == BopPush(r, o, p)
           u  == IF Abstract!Dangling(expr) THEN Abstract!Front(expr) ELSE expr
           e  == Append(u, Abstract!Op(o))
<1>1. /\ ready /\ Commit(RequestDisplayUpdate(q)) /\ SameMode
      /\ HasBop(o, calc_mode) /\ num_parentheses' = num_parentheses
      /\ allow_repeated_equals' = allow_repeated_equals
      BY DEF BinaryOp, Pressed, modeVars, configVars, SameMode
<1>2. /\ ConfigOK /\ calc_mode = "float" /\ allow_repeated_equals \in BOOLEAN
      /\ Sound(Machine) /\ Runnable(Machine) /\ num_parentheses \in Nat
      BY <1>1, ExprFacts
<1>3. PICK n, ob : Agrees(Machine, expr, n, ob) /\ ob[n] = num_parentheses
      BY <1>1, ExprFacts
<1>4. m1 = IF Machine.bop_stack_index > 0 /\ Machine.bop_stack_index >= Machine.stack_index
           THEN BopPop(Machine) ELSE Machine
      BY DEF Machine
<1>5. expr' = AfterOp(e, o) /\ repeat' = repeat
      BY DEF Abstract!TypeBinary, AfterOp
<1> HIDE DEF m1, u
<1>6. /\ Sound(m1) /\ Runnable(m1)
      /\ \E n1, ob1 : Agrees(m1, u, n1, ob1) /\ Shaped(u, n1, ob1) /\ ob1[n1] = ob[n]
  <2>1. u = IF Abstract!Dangling(expr) THEN Abstract!Front(expr) ELSE expr
        BY DEF u
  <2> QED BY <1>2, <1>3, <1>4, <2>1, BaseAgrees
<1>7. PICK n1, ob1 : Agrees(m1, u, n1, ob1) /\ Shaped(u, n1, ob1) /\ ob1[n1] = num_parentheses
      BY <1>3, <1>6
<1>8. p = Priority(o) + ob1[n1] * PARENTHESES_PRIORITY_RAISE /\ p \in Nat
  <2>1. Priority(o) \in 0..2
        BY PriorityRange
  <2>2. Priority(o) \in Nat
        BY <2>1
  <2>3. num_parentheses * PARENTHESES_PRIORITY_RAISE \in Nat
        BY <1>2, SizesAssumption
  <2>4. Priority(o) + num_parentheses * PARENTHESES_PRIORITY_RAISE \in Nat
        BY <2>2, <2>3
  <2> QED BY <1>7, <2>4
<1> HIDE DEF p
<1>9. Sound(r)
      BY <1>2, <1>6, <1>8, ProcessBinOpsSound
<1>10. r = ProcessBinOps(m1, p) /\ q = BopPush(r, o, p) /\ e = Append(u, Abstract!Op(o))
      OBVIOUS
<1> HIDE DEF r, q, e
<1>11. r.bop_stack_index < BOP_STACK_SIZE
  <2> SUFFICES ASSUME ~(r.bop_stack_index < BOP_STACK_SIZE) PROVE FALSE
      OBVIOUS
  <2>1. q = Fail(r)
        BY <1>10 DEF BopPush
  <2>2. q.error = TRUE /\ q.stack_index > 0 /\ r.stack_index > 0
    <3>1. r \in Machines /\ r.stack_index \in Nat /\ r.stack_index >= 1
          BY <1>9, IndexTypes DEF Sound
    <3> QED BY <2>1, <3>1 DEF Fail, Machines
  <2>3. q \in Machines
        BY <1>9, <2>1 DEF Fail, Machines, Sound
  <2>4. RequestDisplayUpdate(q).error = TRUE
        BY <2>2, <2>3, RequestDisplayUpdateSound
  <2>5. error' # FALSE
        BY <1>1, <2>4 DEF Commit
  <2>6. TypeOK' /\ NoError'
        BY DEF Inv
  <2>7. error' = FALSE
        BY <2>6 DEF TypeOK, NoError
  <2> QED BY <2>5, <2>7
<1>12. PICK k, ob2 : /\ k \in Nat /\ Agrees(q, expr', k + 1, ob2)
                     /\ ob2[k + 1] = num_parentheses
  <2>1. p = Priority(o) + ob1[n1] * PARENTHESES_PRIORITY_RAISE
        BY <1>8
  <2>2. ConfigOK /\ calc_mode = "float" /\ allow_repeated_equals \in BOOLEAN
        BY <1>2
  <2>3. Sound(m1) /\ Runnable(m1) /\ Agrees(m1, u, n1, ob1) /\ Shaped(u, n1, ob1)
        BY <1>6, <1>7
  <2>4. AgreesWithOp(BopPush(r, o, p), AfterOp(e, o), ob1[n1])
        BY <1>11, <2>1, <2>2, <2>3, BinaryAgrees DEF r, e
  <2>5. AgreesWithOp(q, expr', num_parentheses)
        BY <1>5, <1>7, <1>10, <2>4
  <2> QED BY <2>5 DEF AgreesWithOp
<1>13. q.bin_op_was_entered = TRUE /\ Sound(q)
  <2>1. r \in Machines /\ r.stack_index >= 1 /\ r.error = FALSE
        BY <1>9 DEF Sound
  <2>2. q.bin_op_was_entered = TRUE
        BY <1>10, <1>11, <2>1, BopPushKeeps
  <2>3. /\ q \in Machines /\ q.stack_index = r.stack_index /\ q.error = r.error
        BY <1>8, <1>10, <1>11, <2>1, BopPushSound
  <2>4. q.stack_index \in {q.bop_stack_index, q.bop_stack_index + 1}
        BY <1>12 DEF Agrees
  <2> QED BY <2>1, <2>2, <2>3, <2>4 DEF Sound
<1>14. /\ Machine'.stack = q.stack /\ Machine'.stack_index = q.stack_index
       /\ Machine'.bop_stack = q.bop_stack /\ Machine'.bop_stack_index = q.bop_stack_index
       /\ bop_stack_index' = q.bop_stack_index
       /\ bin_op_was_entered' = q.bin_op_was_entered
       /\ shown'.el = StackTop(Machine')
      BY <1>1, <1>13, DisplayAfter
<1>15. Agrees(Machine', expr', k + 1, ob2) /\ bop_stack_index' = k + 1
      BY <1>12, <1>14, AgreesSame DEF Agrees
<1>16. StacksAgree'
      BY <1>1, <1>12, <1>15 DEF StacksAgree
<1>17. bin_op_was_entered' = TRUE /\ bop_stack_index' # 0
      BY <1>12, <1>13, <1>14, <1>15
<1>18. RepeatKept'
      BY <1>17 DEF RepeatKept
<1>19. KeysOK'
      BY <1>1, <1>16, <1>17, <1>18 DEF ExprInv, KeysOK, SameMode
<1>20. Abstract!Shows
      BY <1>1, <1>14, <1>19, ShowsStep DEF SameMode
<1>21. o \in {cop \in BinaryOps : HasFop(cop)}
      BY <1>1, <1>2 DEF HasBop
<1>22. Abstract!Next
      BY <1>20, <1>21 DEF Abstract!Next
<1> QED BY <1>19, <1>22 DEF KeyDone

\* One number left, and no operator.
LEMMA SingleAgrees ==
  ASSUME NEW r, Sound(r), r.bop_stack_index = 0, NEW w \in FVal, r.stack[0].fval = w
  PROVE  \E ok : Agrees(r, <<Abstract!Num(w)>>, 0, ok) /\ ok[0] = 0
<1> DEFINE f  == <<Abstract!Num(w)>>
           ok == [i \in 0..0 |-> 0]
<1>1. Abstract!Num(w) \in Item
      BY InputsAssumption DEF Abstract!Num, Item
<1>2. f \in Seq(Item) /\ Len(f) = 1 /\ f[1] = Abstract!Num(w)
      BY <1>1
<1>3. Abstract!Num(w).kind = "num" /\ Abstract!Num(w).val = w
      BY DEF Abstract!Num
<1>4. ok \in Levels(0) /\ ok[0] = 0
      BY DEF Levels
<1> HIDE DEF f, ok
<1>5. NumAt(ok, 0) = 1 /\ 0 \in Nat
      BY <1>4 DEF NumAt
<1>6. 0..0 = {0} /\ 0..0 - 1 = {} /\ 1..1 = {1}
      OBVIOUS
<1>7. \A i \in 0..0 : f[NumAt(ok, i)] = Abstract!Num(f[NumAt(ok, i)].val)
      BY <1>2, <1>3, <1>5, <1>6
<1>8. \A p \in 1..Len(f) : \E i \in 0..0 : p = NumAt(ok, i)
      BY <1>2, <1>5, <1>6
<1>9. Shaped(f, 0, ok)
      BY <1>2, <1>4, <1>5, <1>6, <1>7, <1>8 DEF Shaped
<1>10. ~Abstract!Dangling(f) /\ Full(f) = f /\ ExprShape(f, 0, ok)
      BY <1>9, NotDangling
<1>11. r.stack_index = 1
      BY IndexTypes DEF Sound
<1>12. \A i \in 0..r.stack_index - 1 : r.stack[i].fval = f[NumAt(ok, i)].val
      BY <1>2, <1>3, <1>5, <1>6, <1>11
<1>13. Agrees(r, f, 0, ok)
      BY <1>6, <1>10, <1>11, <1>12 DEF Agrees
<1> QED BY <1>4, <1>13 DEF f

\* What [=] makes of the stacks, and the slots that the next one reads.
LEMMA OpEqualsAgrees ==
  ASSUME ConfigOK, calc_mode = "float", allow_repeated_equals \in BOOLEAN,
         NEW m, Sound(m), Runnable(m), Kept(m), NEW x, NEW n, NEW ob, Agrees(m, x, n, ob),
         ob[n] <= MAX_PARENTHESES, NEW s, s = Abstract!Settled(x)
  PROVE  \E r, w :
           /\ OpEquals(m) = RequestDisplayUpdate(r) /\ Sound(r)
           /\ \E ok : Agrees(r, <<Abstract!Num(w)>>, 0, ok) /\ ok[0] = 0
           /\ r.bin_op_was_entered = m.bin_op_was_entered
           /\ n > 0 => /\ w = Abstract!FullValue(s)
                       /\ Abstract!RootAndRight(s) =
                            [op |-> r.bop_stack[0].cop, val |-> r.stack[1].fval]
           /\ n = 0 => /\ r.stack[1] = m.stack[1] /\ r.bop_stack = m.bop_stack
                       /\ w = IF m.bin_op_was_entered /\ allow_repeated_equals
                              THEN FopBinary(m.bop_stack[0].cop, Abstract!Display(x),
                                             m.stack[1].fval)
                              ELSE Abstract!Display(x)
<1>1. /\ m \in Machines /\ m.stack_index \in Nat /\ m.bop_stack_index \in Nat
      /\ m.bop_stack_index = n
      BY IndexTypes DEF Sound, Agrees
<1>2. CASE n > 0
  <2> DEFINE r == ProcessBinOps(m, PRIORITY_ADD_SUB)
             w == Abstract!FullValue(s)
  <2>1. OpEquals(m) = RequestDisplayUpdate(r)
        BY <1>1, <1>2 DEF OpEquals
  <2>2. /\ \E ok : Agrees(r, <<Abstract!Num(w)>>, 0, ok) /\ ok[0] = 0
        /\ Abstract!RootAndRight(s) = [op |-> r.bop_stack[0].cop, val |-> r.stack[1].fval]
        /\ Sound(r) /\ r.bin_op_was_entered = m.bin_op_was_entered
        BY <1>2, EvaluateAgrees
  <2> HIDE DEF r, w
  <2>3. w = Abstract!FullValue(s)
        BY DEF w
  <2>4. n # 0
        BY <1>1, <1>2
  <2> QED BY <2>1, <2>2, <2>3, <2>4
<1>3. CASE n = 0
  <2>1. m.stack_index = 1 /\ StackTop(m) = m.stack[0] /\ m.bop_stack_index = 0
        BY <1>1, <1>3 DEF Sound, StackTop
  <2>2. m.stack[0].fval = Abstract!Display(x)
        BY <2>1, TopShows
  <2>3. m.stack[0] \in StackEl /\ m.stack[1] \in StackEl
        BY <1>1, Sizes, SizesAssumption DEF Machines
  <2>4. ~(n > 0)
        BY <1>3
  <2>5. CASE m.bin_op_was_entered /\ allow_repeated_equals
    <3> DEFINE c  == m.bop_stack[0].cop
               result == ApplyBop(c, m.stack[0], m.stack[1])
               m1 == [m EXCEPT !.stack[0] = result]
               r  == HistoryUpdate(m1, StackTop(m1))
               w  == FopBinary(c, Abstract!Display(x), m.stack[1].fval)
    <3>1. HasBop(c, calc_mode)
          BY <2>5 DEF Kept
    <3>2. result \in StackEl /\ result.fval = w
          BY <2>2, <2>3, <3>1, ApplyBopType, ApplyFloat
    <3>3. OpEquals(m) = RequestDisplayUpdate(r)
          BY <2>1, <2>5, <3>1 DEF OpEquals
    <3>4. w \in FVal
          BY <3>2, StackElType
    <3>5. w = FopBinary(m.bop_stack[0].cop, Abstract!Display(x), m.stack[1].fval)
          OBVIOUS
    <3> HIDE DEF result, w
    <3>6. /\ m1 \in Machines /\ m1.stack_index = m.stack_index
          /\ m1.error = m.error /\ SameBops(m1, m)
          /\ m1.stack[0] = result /\ m1.stack[1] = m.stack[1]
      <4>1. /\ [m.stack EXCEPT ![0] = result] \in [0..STACK_SIZE - 1 -> StackEl]
            /\ [m.stack EXCEPT ![0] = result][0] = result
            /\ [m.stack EXCEPT ![0] = result][1] = m.stack[1]
            BY <3>2, <1>1, Sizes, SizesAssumption DEF Machines
      <4> QED BY <4>1, <1>1 DEF Machines, SameBops
    <3> HIDE DEF m1
    <3>7. r \in Machines /\ r.stack_index = m1.stack_index
          /\ r.error = m1.error /\ SameBops(r, m1) /\ r.stack = m1.stack
      <4>1. Append(m1.pushed, StackTop(m1)) \in Seq(StackEl)
            BY <3>6, StackTopType DEF Machines
      <4> QED BY <4>1, <3>6 DEF HistoryUpdate, Machines, SameBops
    <3> HIDE DEF r
    <3>8. /\ Sound(r) /\ r.bop_stack_index = 0 /\ r.bop_stack = m.bop_stack
          /\ r.bin_op_was_entered = m.bin_op_was_entered
          /\ r.stack[0] = result /\ r.stack[1] = m.stack[1]
          BY <2>1, <3>6, <3>7 DEF Sound, SameBops
    <3>9. \E ok : Agrees(r, <<Abstract!Num(w)>>, 0, ok) /\ ok[0] = 0
          BY <3>2, <3>4, <3>8, SingleAgrees
    <3> QED BY <2>4, <2>5, <3>3, <3>5, <3>8, <3>9
  <2>6. CASE ~(m.bin_op_was_entered /\ allow_repeated_equals)
    <3> DEFINE w == Abstract!Display(x)
    <3>1. OpEquals(m) = RequestDisplayUpdate(m)
          BY <2>1, <2>6 DEF OpEquals
    <3>2. w = Abstract!Display(x) /\ w \in FVal
          BY <2>2, <2>3, StackElType
    <3> HIDE DEF w
    <3>3. \E ok : Agrees(m, <<Abstract!Num(w)>>, 0, ok) /\ ok[0] = 0
          BY <2>1, <2>2, <3>2, SingleAgrees
    <3> QED BY <2>4, <2>6, <3>1, <3>2, <3>3
  <2> QED BY <2>5, <2>6
<1> QED BY <1>1, <1>2, <1>3

\* Keys that leave one number and no operator, and what [=] repeats.
LEMMA FinalKey ==
  ASSUME Inv', NEW r, Sound(r), Commit(RequestDisplayUpdate(r)),
         calc_mode' = "float", init_from_save_val' = FALSE, ready',
         num_parentheses' = 0, allow_repeated_equals' = allow_repeated_equals,
         \E ok : Agrees(r, expr', 0, ok) /\ ok[0] = 0,
         ~r.bin_op_was_entered => repeat' = Abstract!NoRepeat,
         r.bin_op_was_entered =>
           repeat' = [op |-> r.bop_stack[0].cop, val |-> r.stack[1].fval]
  PROVE  KeysOK' /\ Abstract!Shows
<1>1. /\ Machine'.stack = r.stack /\ Machine'.stack_index = r.stack_index
      /\ Machine'.bop_stack = r.bop_stack /\ Machine'.bop_stack_index = r.bop_stack_index
      /\ bop_stack_index' = r.bop_stack_index
      /\ stack' = r.stack /\ bop_stack' = r.bop_stack
      /\ bin_op_was_entered' = r.bin_op_was_entered
      /\ shown'.el = StackTop(Machine')
      BY DisplayAfter
<1>2. PICK ok : Agrees(r, expr', 0, ok) /\ ok[0] = 0
      OBVIOUS
<1>3. Agrees(Machine', expr', 0, ok) /\ bop_stack_index' = 0
      BY <1>1, <1>2, AgreesSame DEF Agrees
<1>4. StacksAgree'
      BY <1>2, <1>3 DEF StacksAgree
<1>5. RepeatKept'
      BY <1>1 DEF RepeatKept
<1>6. KeysOK'
      BY <1>1, <1>3, <1>4, <1>5 DEF KeysOK
<1>7. Abstract!Shows
      BY <1>1, <1>6, ShowsStep
<1> QED BY <1>6, <1>7

\* What [=] will repeat is an operator, and so is not NoRepeat.
LEMMA RepeatIsOp ==
  ASSUME ExprInv, ready, bop_stack_index = 0, bin_op_was_entered
  PROVE  /\ repeat = [op |-> bop_stack[0].cop, val |-> stack[1].fval]
         /\ repeat # Abstract!NoRepeat
<1>1. repeat = [op |-> bop_stack[0].cop, val |-> stack[1].fval]
      BY DEF ExprInv, KeysOK, RepeatKept
<1>2. bop_stack[0].cop \in BinaryOps
      BY ExprFacts, HasBopType DEF Kept, Machine
<1>3. bop_stack[0].cop # "nop"
      BY <1>2 DEF BinaryOps
<1>4. repeat.op = bop_stack[0].cop /\ Abstract!NoRepeat.op = "nop"
      BY <1>1 DEF Abstract!NoRepeat
<1> QED BY <1>1, <1>3, <1>4

\* [=] evaluates everything, or repeats what lies in the popped slots.
LEMMA EqualsKey ==
  ASSUME ExprInv, Inv', Equals, Abstract!TypeEquals
  PROVE  KeyDone
<1> DEFINE s == Abstract!Settled(expr)
<1>1. /\ ready /\ Commit(OpEquals(Machine)) /\ SameMode
      /\ num_parentheses' = 0
      /\ allow_repeated_equals' = allow_repeated_equals
      BY DEF Equals, Pressed, modeVars, configVars, SameMode
<1>2. /\ ConfigOK /\ calc_mode = "float" /\ allow_repeated_equals \in BOOLEAN
      /\ Sound(Machine) /\ Runnable(Machine) /\ Kept(Machine)
      /\ num_parentheses <= MAX_PARENTHESES
      /\ bop_stack_index \in Nat
      /\ bop_stack_index > 0 => bin_op_was_entered
      /\ ~bin_op_was_entered => repeat = Abstract!NoRepeat
      /\ init_from_save_val = FALSE
      BY <1>1, ExprFacts DEF ExprInv, KeysOK
<1>3. Machine.stack = stack /\ Machine.bop_stack = bop_stack
      /\ Machine.bin_op_was_entered = bin_op_was_entered
      BY DEF Machine
<1>4. PICK ob : /\ Agrees(Machine, expr, bop_stack_index, ob)
                /\ ob[bop_stack_index] = num_parentheses
      BY <1>1, ExprFacts
<1>5. ob[bop_stack_index] <= MAX_PARENTHESES
      BY <1>2, <1>4
<1> DEFINE n == bop_stack_index
<1>6. PICK r, w :
           /\ OpEquals(Machine) = RequestDisplayUpdate(r) /\ Sound(r)
           /\ \E ok : Agrees(r, <<Abstract!Num(w)>>, 0, ok) /\ ok[0] = 0
           /\ r.bin_op_was_entered = Machine.bin_op_was_entered
           /\ n > 0 => /\ w = Abstract!FullValue(s)
                       /\ Abstract!RootAndRight(s) =
                            [op |-> r.bop_stack[0].cop, val |-> r.stack[1].fval]
           /\ n = 0 => /\ r.stack[1] = Machine.stack[1] /\ r.bop_stack = Machine.bop_stack
                       /\ w = IF Machine.bin_op_was_entered /\ allow_repeated_equals
                              THEN FopBinary(Machine.bop_stack[0].cop, Abstract!Display(expr),
                                             Machine.stack[1].fval)
                              ELSE Abstract!Display(expr)
      BY <1>2, <1>4, <1>5, OpEqualsAgrees
<1>7. Abstract!Ops(expr) # {} <=> n > 0
      BY <1>4, OpsNonEmpty DEF Agrees
<1> HIDE DEF s
<1>8. /\ expr' = <<Abstract!Num(w)>>
      /\ bin_op_was_entered =>
           repeat' = [op |-> r.bop_stack[0].cop, val |-> r.stack[1].fval]
      /\ ~bin_op_was_entered => repeat' = Abstract!NoRepeat
  <2>1. CASE n > 0
    <3>1. expr' = <<Abstract!Num(Abstract!FullValue(s))>> /\ repeat' = Abstract!RootAndRight(s)
          BY <1>7, <2>1 DEF Abstract!TypeEquals, s
    <3> QED BY <1>2, <1>6, <2>1, <3>1
  <2>2. CASE n = 0
    <3> DEFINE w2 == IF allow_repeated_equals /\ repeat # Abstract!NoRepeat
                     THEN FopBinary(repeat.op, Abstract!Display(expr), repeat.val)
                     ELSE Abstract!Display(expr)
    <3>1. expr' = <<Abstract!Num(w2)>> /\ repeat' = repeat
      <4>1. ~(n > 0)
            BY <2>2
      <4> QED BY <1>7, <4>1 DEF Abstract!TypeEquals
    <3>2. CASE bin_op_was_entered
      <4>1. /\ repeat = [op |-> bop_stack[0].cop, val |-> stack[1].fval]
            /\ repeat # Abstract!NoRepeat
            BY <1>1, <2>2, <3>2, RepeatIsOp
      <4>2. w2 = w
            BY <1>3, <1>6, <2>2, <3>2, <4>1
      <4> HIDE DEF w2
      <4> QED BY <1>3, <1>6, <2>2, <3>1, <3>2, <4>1, <4>2
    <3>3. CASE ~bin_op_was_entered
      <4>1. w2 = w
            BY <1>2, <1>3, <1>6, <2>2, <3>3
      <4> HIDE DEF w2
      <4> QED BY <1>2, <3>1, <3>3, <4>1
    <3> QED BY <3>2, <3>3
  <2> QED BY <1>2, <2>1, <2>2
<1>9. KeysOK' /\ Abstract!Shows
  <2>1. \E ok : Agrees(r, expr', 0, ok) /\ ok[0] = 0
        BY <1>6, <1>8
  <2>2. Commit(RequestDisplayUpdate(r)) /\ Sound(r)
        BY <1>1, <1>6
  <2>3. r.bin_op_was_entered = bin_op_was_entered
        BY <1>3, <1>6
  <2> QED BY <1>1, <1>2, <1>8, <2>1, <2>2, <2>3, FinalKey DEF SameMode
<1>10. Abstract!Next
      BY <1>9 DEF Abstract!Next
<1> QED BY <1>9, <1>10 DEF KeyDone

\* M+ evaluates like [=], and forgets what to repeat.
LEMMA MemoryPlusKey ==
  ASSUME ExprInv, Inv', MemoryPlus(0), Abstract!TypeMemoryPlus
  PROVE  KeyDone
<1> DEFINE s == Abstract!Settled(expr)
           m == [Machine EXCEPT !.bin_op_was_entered = FALSE]
           n == bop_stack_index
<1>1. /\ ready /\ Commit(StackPeek(OpEquals(m))) /\ SameMode
      /\ num_parentheses' = 0
      /\ allow_repeated_equals' = allow_repeated_equals
      BY DEF MemoryPlus, EvaluateOutstanding, Pressed, modeVars, configVars, SameMode
<1>2. /\ ConfigOK /\ calc_mode = "float" /\ allow_repeated_equals \in BOOLEAN
      /\ Sound(Machine) /\ Runnable(Machine)
      /\ num_parentheses <= MAX_PARENTHESES
      /\ n \in Nat
      /\ init_from_save_val = FALSE
      BY <1>1, ExprFacts DEF ExprInv, KeysOK
<1>3. PICK ob : Agrees(Machine, expr, n, ob) /\ ob[n] = num_parentheses
      BY <1>1, ExprFacts
<1>4. /\ m \in Machines /\ m.error = Machine.error
      /\ m.stack = Machine.stack /\ m.stack_index = Machine.stack_index
      /\ m.bop_stack = Machine.bop_stack /\ m.bop_stack_index = Machine.bop_stack_index
      /\ m.bin_op_was_entered = FALSE
      BY <1>2 DEF Sound, Machines
<1> HIDE DEF m
<1>5. Sound(m) /\ Runnable(m) /\ Kept(m)
      BY <1>2, <1>4 DEF Sound, Runnable, Kept
<1>6. Agrees(m, expr, n, ob)
      BY <1>3, <1>4, AgreesSame
<1>7. ob[n] <= MAX_PARENTHESES
      BY <1>2, <1>3
<1>8. PICK r, w :
           /\ OpEquals(m) = RequestDisplayUpdate(r) /\ Sound(r)
           /\ \E ok : Agrees(r, <<Abstract!Num(w)>>, 0, ok) /\ ok[0] = 0
           /\ r.bin_op_was_entered = m.bin_op_was_entered
           /\ n > 0 => /\ w = Abstract!FullValue(s)
                       /\ Abstract!RootAndRight(s) =
                            [op |-> r.bop_stack[0].cop, val |-> r.stack[1].fval]
           /\ n = 0 => /\ r.stack[1] = m.stack[1] /\ r.bop_stack = m.bop_stack
                       /\ w = IF m.bin_op_was_entered /\ allow_repeated_equals
                              THEN FopBinary(m.bop_stack[0].cop, Abstract!Display(expr),
                                             m.stack[1].fval)
                              ELSE Abstract!Display(expr)
      BY <1>2, <1>5, <1>6, <1>7, OpEqualsAgrees
<1>9. Abstract!Ops(expr) # {} <=> n > 0
      BY <1>3, OpsNonEmpty DEF Agrees
<1> HIDE DEF s
<1>10. expr' = <<Abstract!Num(w)>> /\ repeat' = Abstract!NoRepeat
  <2>1. CASE n > 0
    <3>1. expr' = <<Abstract!Num(Abstract!FullValue(s))>> /\ repeat' = Abstract!NoRepeat
          BY <1>9, <2>1 DEF Abstract!TypeMemoryPlus, s
    <3> QED BY <1>8, <2>1, <3>1
  <2>2. CASE n = 0
    <3>1. ~(n > 0)
          BY <2>2
    <3>2. expr' = <<Abstract!Num(Abstract!Display(expr))>> /\ repeat' = Abstract!NoRepeat
          BY <1>9, <3>1 DEF Abstract!TypeMemoryPlus
    <3> QED BY <1>4, <1>8, <2>2, <3>2
  <2> QED BY <1>2, <2>1, <2>2
<1>11. Commit(RequestDisplayUpdate(r)) /\ Sound(r) /\ r.bin_op_was_entered = FALSE
  <2>1. Sound(OpEquals(m))
        BY <1>8, DisplaySound
  <2>2. StackPeek(OpEquals(m)) = OpEquals(m)
    <3>1. OpEquals(m) \in Machines /\ OpEquals(m).stack_index > 0
          BY <2>1, IndexTypes DEF Sound
    <3> QED BY <3>1, StackPeekSound
  <2> QED BY <1>1, <1>4, <1>8, <2>2
<1>12. KeysOK' /\ Abstract!Shows
  <2>1. \E ok : Agrees(r, expr', 0, ok) /\ ok[0] = 0
        BY <1>8, <1>10
  <2> QED BY <1>1, <1>2, <1>10, <1>11, <2>1, FinalKey DEF SameMode
<1>13. Abstract!Next
      BY <1>12 DEF Abstract!Next
<1> QED BY <1>12, <1>13 DEF KeyDone

\* Clear leaves a zero.
LEMMA ClearKey ==
  ASSUME ExprInv, Inv', Clear, Abstract!TypeClear
  PROVE  KeyDone
<1> DEFINE empty == [Machine EXCEPT !.stack_index = 0, !.bop_stack_index = 0,
                                    !.bin_op_was_entered = FALSE]
           r == StackPush(empty, Zero)
<1>1. /\ Commit(RequestDisplayUpdate(r))
      /\ calc_mode' = "float" /\ init_from_save_val' = FALSE /\ ready'
      /\ num_parentheses' = 0 /\ allow_repeated_equals' = allow_repeated_equals
  <2>1. init_from_save_val = FALSE /\ calc_mode = "float"
        BY DEF ExprInv, KeysOK
  <2> QED BY <2>1 DEF Clear, configVars
<1>2. Zero \in StackEl /\ Zero.fval = FZero /\ FZero \in FVal
      BY InputsAssumption DEF Zero, StackEl
<1>3. /\ empty \in Machines /\ empty.stack_index = 0 /\ empty.bop_stack_index = 0
      /\ empty.bin_op_was_entered = FALSE /\ empty.error = FALSE
  <2>1. 0 \in 0..STACK_SIZE /\ 0 \in 0..BOP_STACK_SIZE
        BY Sizes
  <2>2. Machine \in Machines /\ Machine.error = FALSE
        BY InvMachine DEF ExprInv
  <2> QED BY <2>1, <2>2 DEF Machines
<1>4. empty.stack_index < STACK_SIZE /\ 0 \in Slots
      BY <1>3, Sizes, SizesAssumption DEF Slots
<1> HIDE DEF empty
<1>5. /\ r \in Machines /\ r.stack_index = 1 /\ r.error = FALSE
      /\ r.bop_stack_index = 0 /\ r.bin_op_was_entered = FALSE
      BY <1>2, <1>3, <1>4, StackPushSound DEF SameBops
<1>6. r.stack[0] = Zero
      BY <1>2, <1>3, <1>4, PushWrites DEF Writes
<1> HIDE DEF r
<1>7. Sound(r)
      BY <1>5 DEF Sound
<1>8. expr' = <<Abstract!Num(FZero)>> /\ repeat' = Abstract!NoRepeat
      BY DEF Abstract!TypeClear
<1>9. \E ok : Agrees(r, <<Abstract!Num(FZero)>>, 0, ok) /\ ok[0] = 0
      BY <1>2, <1>5, <1>6, <1>7, SingleAgrees
<1>10. KeysOK' /\ Abstract!Shows
  <2>1. \E ok : Agrees(r, expr', 0, ok) /\ ok[0] = 0
        BY <1>8, <1>9
  <2> QED BY <1>1, <1>5, <1>7, <1>8, <2>1, FinalKey
<1>11. Abstract!Next
      BY <1>10 DEF Abstract!Next
<1> QED BY <1>10, <1>11 DEF KeyDone

\* Nothing that KeysOK is about has changed.
LEMMA SameKeys ==
  ASSUME ExprInv, UNCHANGED <<machineVars, modeVars, parenVars, expr, repeat>>
  PROVE  KeysOK'
<1>1. Machine' = Machine /\ bop_stack_index' = bop_stack_index /\ expr' = expr
      /\ num_parentheses' = num_parentheses
      BY DEF machineVars, parenVars, Machine
<1>2. StacksAgree => StacksAgree'
      BY <1>1 DEF StacksAgree
<1>3. RepeatKept'
      BY DEF ExprInv, KeysOK, RepeatKept, machineVars, modeVars
<1> QED BY <1>2, <1>3 DEF ExprInv, KeysOK, machineVars, modeVars

\* The checkbox changes nothing now.
LEMMA SetRepeatedEqualsKey ==
  ASSUME ExprInv, SetRepeatedEquals, UNCHANGED <<expr, repeat>>
  PROVE  KeyDone
<1>1. /\ UNCHANGED <<machineVars, modeVars, parenVars, expr, repeat>>
      /\ allow_repeated_equals' = ~allow_repeated_equals
      BY DEF SetRepeatedEquals
<1>2. KeysOK'
      BY <1>1, SameKeys
<1>3. Abstract!Next
      BY <1>1 DEF Abstract!Next, machineVars
<1> QED BY <1>2, <1>3 DEF KeyDone

-----------------------------------------------------------------------------
(* The invariant, and the refinement                                        *)

\* Before the first clear nothing is asked of the stacks.
LEMMA ExprInitInv == ExprInit => ExprInv /\ Abstract!Init
<1> SUFFICES ASSUME ExprInit PROVE ExprInv /\ Abstract!Init
    OBVIOUS
<1>1. Inv
      BY InitInv DEF ExprInit
<1>2. KeysOK
      BY DEF ExprInit, Init, KeysOK, RepeatKept
<1>3. Abstract!Init
      BY DEF ExprInit, Init, Abstract!Init, Zero
<1> QED BY <1>1, <1>2, <1>3 DEF ExprInv

\* Each key is a call of the engine.
LEMMA ExprNextInv ==
  ASSUME ExprInv, ExprNext
  PROVE  Inv'
<1>1. Inv /\ calc_mode = "float"
      BY DEF ExprInv, KeysOK
<1>2. 0 \in Memory
      BY MemoryAssumption, SizesAssumption DEF Memory
<1>3. Next
      BY <1>1, <1>2 DEF ExprNext, Next, MemoryWrite, OtherCall
<1> QED BY <1>1, <1>3, StepInv

\* Every key keeps the invariant, and is a step of ExprCalc.
LEMMA ExprStep == ExprInv /\ [ExprNext]_exprVars => ExprInv' /\ [Abstract!Next]_(Abstract!vars)
<1> SUFFICES ASSUME ExprInv, [ExprNext]_exprVars
             PROVE  ExprInv' /\ [Abstract!Next]_(Abstract!vars)
    OBVIOUS
<1>1. CASE ExprNext
  <2>1. Inv'
        BY <1>1, ExprNextInv
  <2>2. KeyDone
    <3>1. CASE \E v \in ArgF : GiveArg(IZero, v) /\ Abstract!TypeNumber(v)
          BY <2>1, <3>1, GiveArgKey
    <3>2. CASE MemoryRecall(0) /\ Abstract!TypeNumber(mem_val[0].fval)
          BY <2>1, <3>2, MemoryRecallKey
    <3>3. CASE MemoryPlus(0) /\ Abstract!TypeMemoryPlus
          BY <2>1, <3>3, MemoryPlusKey
    <3>4. CASE \E cop \in BinaryOps : BinaryOp(cop) /\ Abstract!TypeBinary(cop)
          BY <2>1, <3>4, BinaryOpKey
    <3>5. CASE \E cop \in FloatUnaryOps : UnaryOp(cop) /\ Abstract!TypeUnary(cop)
          BY <2>1, <3>5, UnaryOpKey
    <3>6. CASE ParenthesesLeft /\ Abstract!TypeOpen
          BY <2>1, <3>6, ParenthesesLeftKey
    <3>7. CASE ParenthesesRight /\ Abstract!TypeClose
          BY <2>1, <3>7, ParenthesesRightKey
    <3>8. CASE Equals /\ Abstract!TypeEquals
          BY <2>1, <3>8, EqualsKey
    <3>9. CASE Clear /\ Abstract!TypeClear
          BY <2>1, <3>9, ClearKey
    <3>10. CASE SetRepeatedEquals /\ UNCHANGED <<expr, repeat>>
          BY <3>10, SetRepeatedEqualsKey
    <3> QED BY <1>1, <3>1, <3>2, <3>3, <3>4, <3>5, <3>6, <3>7, <3>8, <3>9, <3>10
            DEF ExprNext
  <2> QED BY <2>1, <2>2 DEF ExprInv, KeyDone
<1>2. CASE UNCHANGED exprVars
  <2>1. UNCHANGED vars /\ UNCHANGED <<expr, repeat>>
        BY <1>2 DEF exprVars
  <2>2. Inv'
        BY <2>1, StepInv DEF ExprInv
  <2>3. UNCHANGED <<machineVars, modeVars, parenVars, expr, repeat>>
        /\ allow_repeated_equals' = allow_repeated_equals /\ shown' = shown
        BY <2>1 DEF vars, configVars, machineVars
  <2>4. KeysOK'
        BY <2>3, SameKeys
  <2>5. UNCHANGED Abstract!vars
        BY <2>3 DEF Abstract!vars
  <2> QED BY <2>2, <2>4, <2>5 DEF ExprInv
<1> QED BY <1>1, <1>2

\* The stacks agree with the expression in every reachable state.
THEOREM StacksAlwaysAgree == ExprSpec => []ExprInv
<1>1. ExprInit => ExprInv
      BY ExprInitInv
<1>2. ExprInv /\ [ExprNext]_exprVars => ExprInv'
      BY ExprStep
<1> QED BY <1>1, <1>2, PTL DEF ExprSpec

\* Whatever was typed before, the popped slots that [=] reads hold the operator
\* evaluated last and its right operand.
THEOREM RepeatAlwaysKept == ExprSpec => []RepeatKept
<1>1. ExprInv => RepeatKept
      BY DEF ExprInv, KeysOK
<1> QED BY <1>1, StacksAlwaysAgree, PTL

\* The engine implements the grammar: for any depth of brackets, any operators and
\* values, each display update shows the value of the expression that was typed.
THEOREM EngineImplementsExpression == ExprSpec => ImplementsExpression
<1>1. ExprInit => Abstract!Init
      BY ExprInitInv
<1>2. ExprInv /\ [ExprNext]_exprVars => [Abstract!Next]_(Abstract!vars)
      BY ExprStep
<1> QED BY <1>1, <1>2, StacksAlwaysAgree, PTL DEF ExprSpec, ImplementsExpression, Abstract!Spec
=============================================================================
