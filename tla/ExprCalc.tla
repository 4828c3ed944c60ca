------------------------------ MODULE ExprCalc ------------------------------
(***************************************************************************)
(* What the calculator promises for the keys of an expression, without     *)
(* stacks: the infix expression is kept as it was typed, and evaluated by  *)
(* its grammar.  Precedence and left associativity are those of README.md  *)
(* (BINARY OPERATORS); the treatment of an operator with nothing after it  *)
(* and of repeated evaluation is that of its section "Repeated Eval" and   *)
(* of the comments at calc.c:345-359, 404-427 and 548-568.                 *)
(***************************************************************************)
EXTENDS Integers, Sequences, FiniteSets

CONSTANTS
  Value, ZeroValue,
  BinOps, Priority(_),   \* binary operators; a larger priority binds tighter
  UnOps,                 \* unary operators
  Apply1(_, _),          \* (operator, value)
  Apply2(_, _, _),       \* (operator, left value, right value)
  MaxOpen                \* brackets that may be open at a time

VARIABLES
  expr,     \* the expression: numbers, operators and open brackets
  repeat,   \* the operator and right operand that [=] repeats, or NoRepeat
  again,    \* the Repeated Eval checkbox
  shown     \* the value on the display

vars == <<expr, repeat, again, shown>>

\* An item of an expression.  A dropped operator gives its left operand.
Num(v)   == [kind |-> "num", val |-> v, op |-> "nop", dropped |-> FALSE]
Op(o)    == [kind |-> "op", val |-> ZeroValue, op |-> o, dropped |-> FALSE]
Open     == [kind |-> "open", val |-> ZeroValue, op |-> "nop", dropped |-> FALSE]
NoRepeat == [op |-> "nop", val |-> ZeroValue]

Last(e)     == e[Len(e)]
Front(e)    == SubSeq(e, 1, Len(e) - 1)
Dangling(e) == Last(e).kind = "op"
Ops(e)      == {i \in 1..Len(e) : e[i].kind = "op"}
Opens(e)    == {i \in 1..Len(e) : e[i].kind = "open"}

\* Largest element of a set of positions, 0 if there is none.
Latest(S) == IF S = {} THEN 0 ELSE CHOOSE i \in S : \A j \in S : j <= i

-----------------------------------------------------------------------------
(* Evaluation of e[lo..hi], numbers and operators in turn, no bracket: the  *)
(* root is the last of the operators that bind loosest.                     *)

RootOf(e, lo, hi) ==
  LET ops == {i \in Ops(e) : lo < i /\ i < hi}
  IN  Latest({i \in ops : \A j \in ops : Priority(e[i].op) <= Priority(e[j].op)})

ValueOf(e, lo, hi) ==
  LET value[p \in (1..Len(e)) \X (1..Len(e))] ==
        LET r == RootOf(e, p[1], p[2])
        IN  IF r = 0 THEN e[p[1]].val
            ELSE IF e[r].dropped THEN value[<<p[1], r - 1>>]
                 ELSE Apply2(e[r].op, value[<<p[1], r - 1>>], value[<<r + 1, p[2]>>])
  IN  value[<<lo, hi>>]

\* The innermost open bracket's contents start here.
Inner(e) == Latest(Opens(e)) + 1

\* The left operand of an operator typed at the end of e: the longest stretch
\* that binds at least as tight, within the bracket.
OperandStart(e) ==
  LET n == Len(e)
      looser == {i \in Ops(e) : Inner(e) <= i /\ i < n
                                /\ Priority(e[i].op) < Priority(e[n].op)}
  IN  IF looser = {} THEN Inner(e) ELSE Latest(looser) + 1

\* What the display shows: the number being built, or, after an operator, the
\* value of its left operand.
Display(e) ==
  IF Dangling(e) THEN ValueOf(e, OperandStart(e), Len(e) - 1) ELSE Last(e).val

\* An operator with nothing after it takes the value shown, or is dropped.
Settled(e) ==
  IF Dangling(e)
  THEN Front(e) \o <<[Last(e) EXCEPT !.dropped = ~again], Num(Display(e))>>
  ELSE e

\* Replace the innermost bracket by its value.
Closed(e) ==
  Append(SubSeq(e, 1, Inner(e) - 2), Num(ValueOf(e, Inner(e), Len(e))))

CloseAll(e) ==
  LET closed[k \in 0..MaxOpen] ==
        IF k = 0 THEN e
        ELSE LET f == closed[k - 1] IN IF Opens(f) = {} THEN f ELSE Closed(f)
  IN  closed[MaxOpen]

\* The outermost level that has an operator, with the brackets in it closed.
OutermostOps(e) ==
  LET first == CHOOSE i \in Ops(e) : \A j \in Ops(e) : i <= j
      opens == {i \in Opens(e) : i < first}
  IN  CloseAll(SubSeq(e, Latest(opens) + 1, Len(e)))

\* The operator evaluated last and its right operand: what [=] will repeat.
RootAndRight(e) ==
  LET f == OutermostOps(e)
      r == RootOf(f, 1, Len(f))
  IN  [op |-> f[r].op, val |-> ValueOf(f, r + 1, Len(f))]

FullValue(e) == LET f == CloseAll(e) IN ValueOf(f, 1, Len(f))

-----------------------------------------------------------------------------
(* Keys, as changes of the expression and of what [=] repeats *)

Start == expr = <<Num(ZeroValue)>> /\ repeat = NoRepeat

\* A number takes the place of the last one, or follows an operator.
WithNumber(v) == Append(IF Dangling(expr) THEN expr ELSE Front(expr), Num(v))

TypeNumber(v) == expr' = WithNumber(v) /\ UNCHANGED repeat

\* Some number: the one that the expression ends with afterwards.
TypeSomeNumber == Last(expr').val \in Value /\ TypeNumber(Last(expr').val)

\* An operator takes the place of one it directly follows.  Its left operand is
\* settled at once: 2 + 3 + * 4 is (2 + 3) * 4, because 5 was shown before the *.
TypeBinary(o) ==
  LET e == Append(IF Dangling(expr) THEN Front(expr) ELSE expr, Op(o))
  IN  /\ expr' = SubSeq(e, 1, OperandStart(e) - 1) \o <<Num(Display(e)), Op(o)>>
      /\ UNCHANGED repeat

TypeUnary(o) == expr' = WithNumber(Apply1(o, Display(expr))) /\ UNCHANGED repeat

TypeOpen ==
  /\ expr' = (IF Dangling(expr) THEN expr ELSE Front(expr)) \o <<Open, Num(ZeroValue)>>
  /\ UNCHANGED repeat

TypeClose ==
  /\ expr' = Closed(Settled(expr))
  /\ repeat' = IF Ops(expr) # {} /\ Ops(Closed(Settled(expr))) = {}
               THEN RootAndRight(Settled(expr)) ELSE repeat

\* With an operator outstanding, evaluate; else repeat the last evaluation.
TypeEquals ==
  IF Ops(expr) # {}
  THEN /\ expr' = <<Num(FullValue(Settled(expr)))>>
       /\ repeat' = RootAndRight(Settled(expr))
  ELSE /\ expr' = <<Num(IF again /\ repeat # NoRepeat
                        THEN Apply2(repeat.op, Display(expr), repeat.val)
                        ELSE Display(expr))>>
       /\ UNCHANGED repeat

\* M+ evaluates and ends repeated evaluation.
TypeMemoryPlus ==
  /\ expr' = <<Num(IF Ops(expr) # {} THEN FullValue(Settled(expr)) ELSE Display(expr))>>
  /\ repeat' = NoRepeat

TypeClear == expr' = <<Num(ZeroValue)>> /\ repeat' = NoRepeat

-----------------------------------------------------------------------------
(* The calculator: every key but a number updates the display *)

Shows == shown' = Display(expr') /\ UNCHANGED again

Init == Start /\ again = FALSE /\ shown = ZeroValue

Next ==
  \/ TypeSomeNumber /\ UNCHANGED <<again, shown>>
  \/ TypeSomeNumber /\ Shows
  \/ \E o \in BinOps : TypeBinary(o) /\ Shows
  \/ \E o \in UnOps : TypeUnary(o) /\ Shows
  \/ Cardinality(Opens(expr)) < MaxOpen /\ TypeOpen /\ Shows
  \/ Opens(expr) # {} /\ TypeClose /\ Shows
  \/ TypeEquals /\ Shows
  \/ TypeMemoryPlus /\ Shows
  \/ TypeClear /\ Shows
  \/ again' = ~again /\ UNCHANGED <<expr, repeat, shown>>

Spec == Init /\ [][Next]_vars
=============================================================================
