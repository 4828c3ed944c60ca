-------------------------- MODULE CalcEngineProofs --------------------------
EXTENDS CalcEngineClosed, WellFoundedInduction, TLAPS

-----------------------------------------------------------------------------
(* Induction on the turns of a loop, with the property given as a set.      *)

LEMMA Induction ==
  ASSUME NEW S, 0 \in S, \A n \in Nat : n \in S => n + 1 \in S
  PROVE  \A n \in Nat : n \in S
<1> DEFINE T == {n \in Nat : n \notin S}
<1> SUFFICES ASSUME T # {} PROVE FALSE
    OBVIOUS
<1>1. PICK x \in T : \A y \in T : <<y, x>> \notin OpToRel(<, Nat)
  <2>1. T \subseteq Nat
        OBVIOUS
  <2> QED BY <2>1, WFMin, NatLessThanWellFounded, Zenon
<1>2. x \in Nat /\ x # 0
      BY <1>1
<1>3. x - 1 \in Nat /\ <<x - 1, x>> \in OpToRel(<, Nat)
      BY <1>2 DEF OpToRel
<1>4. x - 1 \in S
      BY <1>1, <1>3
<1>5. (x - 1) + 1 \in S
      BY <1>3, <1>4
<1>6. (x - 1) + 1 = x /\ x \notin S
      BY <1>2
<1> QED BY <1>5, <1>6

\* f[i] is what the loop of process_bin_ops has made of m after i turns.
IsRun(f, m, priority, n) ==
  f = [i \in 0..n |-> IF i = 0 THEN m ELSE BinOpStep(f[i - 1], priority)]

\* There is such a function: the loop is well defined.
LEMMA RunExists ==
  ASSUME NEW m, NEW priority
  PROVE  \A n \in Nat : \E f : IsRun(f, m, priority, n)
<1> DEFINE S == {n \in Nat : \E f : IsRun(f, m, priority, n)}
<1>1. 0 \in S
  <2>1. IsRun([i \in 0..0 |-> m], m, priority, 0)
        BY DEF IsRun
  <2> QED BY <2>1
<1>2. ASSUME NEW n \in Nat, n \in S PROVE n + 1 \in S
  <2>1. PICK f : IsRun(f, m, priority, n)
        BY <1>2
  <2> DEFINE g == [i \in 0..n + 1 |->
                     IF i = n + 1 THEN BinOpStep(f[n], priority) ELSE f[i]]
  <2>2. IsRun(g, m, priority, n + 1)
    <3> SUFFICES ASSUME NEW i \in 0..n + 1
                 PROVE g[i] = IF i = 0 THEN m ELSE BinOpStep(g[i - 1], priority)
        BY DEF IsRun
    <3>1. CASE i = n + 1
          BY <3>1
    <3>2. CASE i \in 0..n
      <4>1. g[i] = f[i] /\ (i # 0 => g[i - 1] = f[i - 1])
            BY <3>2
      <4>2. f[i] = IF i = 0 THEN m ELSE BinOpStep(f[i - 1], priority)
            BY <2>1, <3>2 DEF IsRun
      <4> QED BY <4>1, <4>2
    <3> QED BY <3>1, <3>2
  <2> HIDE DEF g
  <2> QED BY <2>2
<1>3. \A n \in Nat : n \in S
  <2> HIDE DEF S
  <2> QED BY <1>1, <1>2, Induction
<1> QED BY <1>3

LEMMA ProcessBinOpsRun ==
  ASSUME NEW m, NEW priority
  PROVE  \E f : /\ IsRun(f, m, priority, BOP_STACK_SIZE)
                /\ ProcessBinOps(m, priority) = f[m.bop_stack_index]
<1> DEFINE f == CHOOSE f : IsRun(f, m, priority, BOP_STACK_SIZE)
<1>1. BOP_STACK_SIZE \in Nat
      BY SizesAssumption DEF BOP_STACK_SIZE, NUM_PRIORITY, PRIORITY_POWER_ROOT
<1>2. IsRun(f, m, priority, BOP_STACK_SIZE)
      BY <1>1, RunExists, Zenon
<1>3. ProcessBinOps(m, priority) = f[m.bop_stack_index]
      BY Zenon DEF ProcessBinOps, IsRun
<1> QED BY <1>2, <1>3, Zenon

-----------------------------------------------------------------------------
(* The helpers of calc.c on the record of the two stacks                    *)

Machines ==
  [stack : [0..STACK_SIZE - 1 -> StackEl], stack_index : 0..STACK_SIZE,
   bop_stack : [0..BOP_STACK_SIZE - 1 -> BopEl], bop_stack_index : 0..BOP_STACK_SIZE,
   bin_op_was_entered : BOOLEAN,
   shown : [el : StackEl, cop : BinaryOps \cup {"nop"}],
   pushed : Seq(StackEl), error : BOOLEAN]

\* What the operations on values depend on.
ConfigOK == calc_mode \in Mode /\ use_unsigned \in BOOLEAN /\ integer_width \in Width

\* m is m1 but for its arguments.
SameBops(m, m1) ==
  /\ m.bop_stack = m1.bop_stack
  /\ m.bop_stack_index = m1.bop_stack_index
  /\ m.bin_op_was_entered = m1.bin_op_was_entered

LEMMA Sizes ==
  /\ BOP_STACK_SIZE \in Nat /\ STACK_SIZE \in Nat
  /\ BOP_STACK_SIZE = 3 * MAX_PARENTHESES + 3
  /\ STACK_SIZE = BOP_STACK_SIZE + 1
BY SizesAssumption DEF BOP_STACK_SIZE, STACK_SIZE, NUM_PRIORITY, PRIORITY_POWER_ROOT

LEMMA BopElType ==
  ASSUME NEW b \in BopEl
  PROVE  b.cop \in BinaryOps \cup {"nop"} /\ b.priority \in Nat
BY DEF BopEl

LEMMA StackElType ==
  ASSUME NEW el \in StackEl
  PROVE  el.ival \in IVal /\ el.fval \in FVal
BY DEF StackEl

LEMMA BopStackType ==
  ASSUME NEW m \in Machines
  PROVE  \A i \in 0..m.bop_stack_index - 1 : m.bop_stack[i] \in BopEl
<1>1. m.bop_stack \in [0..BOP_STACK_SIZE - 1 -> BopEl] /\ m.bop_stack_index \in 0..BOP_STACK_SIZE
      BY DEF Machines
<1>2. 0..m.bop_stack_index - 1 \subseteq 0..BOP_STACK_SIZE - 1
      BY <1>1, Sizes
<1> QED BY <1>1, <1>2

LEMMA IndexTypes ==
  ASSUME NEW m \in Machines
  PROVE  /\ m.stack_index \in Nat /\ m.stack_index <= STACK_SIZE
         /\ m.bop_stack_index \in Nat /\ m.bop_stack_index <= BOP_STACK_SIZE
BY Sizes DEF Machines

LEMMA StackPushSound ==
  ASSUME NEW m \in Machines, NEW el \in StackEl, m.stack_index < STACK_SIZE
  PROVE  LET n == StackPush(m, el)
         IN  /\ n \in Machines
             /\ n.stack_index = m.stack_index + 1
             /\ n.error = m.error
             /\ SameBops(n, m)
<1> DEFINE h == [m EXCEPT !.stack[m.stack_index] = el, !.stack_index = @ + 1]
<1>a. m.stack_index + 1 \in 0..STACK_SIZE
      BY IndexTypes, Sizes
<1>b. [m.stack EXCEPT ![m.stack_index] = el] \in [0..STACK_SIZE - 1 -> StackEl]
      BY Sizes DEF Machines
<1>1. h \in Machines /\ h.stack_index = m.stack_index + 1 /\ h.error = m.error /\ SameBops(h, m)
      BY <1>a, <1>b DEF Machines, SameBops
<1>2. StackPush(m, el) = [h EXCEPT !.pushed = Append(@, el)]
      BY DEF StackPush, HistoryUpdate
<1>3. Append(h.pushed, el) \in Seq(StackEl)
      BY <1>1 DEF Machines
<1> HIDE DEF h
<1> QED BY <1>1, <1>2, <1>3 DEF Machines, SameBops

LEMMA StackPopSound ==
  ASSUME NEW m \in Machines, m.stack_index > 0
  PROVE  LET n == StackPop(m)
         IN  /\ n \in Machines
             /\ n.stack_index = m.stack_index - 1
             /\ n.error = m.error
             /\ SameBops(n, m)
<1>1. m.stack_index - 1 \in 0..STACK_SIZE
      BY IndexTypes, Sizes
<1> QED BY <1>1 DEF StackPop, Machines, SameBops

LEMMA StackTopType ==
  ASSUME NEW m \in Machines
  PROVE  StackTop(m) \in StackEl
<1>1. m.stack \in [0..STACK_SIZE - 1 -> StackEl]
      BY DEF Machines
<1>2. (IF m.stack_index > 0 THEN m.stack_index - 1 ELSE 0) \in 0..STACK_SIZE - 1
      BY IndexTypes, Sizes
<1> QED BY <1>1, <1>2 DEF StackTop

LEMMA StackPeekSound ==
  ASSUME NEW m \in Machines, m.stack_index > 0
  PROVE  StackPeek(m) = m
BY DEF StackPeek, Machines

LEMMA BopPopSound ==
  ASSUME NEW m \in Machines, m.bop_stack_index > 0
  PROVE  LET n == BopPop(m)
         IN  /\ n \in Machines
             /\ n.bop_stack_index = m.bop_stack_index - 1
             /\ n.bop_stack = m.bop_stack
             /\ n.stack_index = m.stack_index
             /\ n.bin_op_was_entered = m.bin_op_was_entered
             /\ n.error = m.error
<1>1. m.bop_stack_index - 1 \in 0..BOP_STACK_SIZE
      BY IndexTypes, Sizes
<1> QED BY <1>1 DEF BopPop, Machines

LEMMA BopPushSound ==
  ASSUME NEW m \in Machines, m.bop_stack_index < BOP_STACK_SIZE,
         NEW cop \in BinaryOps, NEW priority \in Nat
  PROVE  LET n == BopPush(m, cop, priority)
         IN  /\ n \in Machines
             /\ n.bop_stack[m.bop_stack_index].cop = cop
             /\ n.bop_stack[m.bop_stack_index].priority = priority
             /\ \A i \in 0..m.bop_stack_index - 1 : n.bop_stack[i] = m.bop_stack[i]
             /\ n.bop_stack_index = m.bop_stack_index + 1
             /\ n.stack_index = m.stack_index
             /\ n.error = m.error
<1>1. [cop |-> cop, priority |-> priority] \in BopEl
      BY DEF BopEl
<1>2. m.bop_stack_index + 1 \in 0..BOP_STACK_SIZE
      BY IndexTypes, Sizes
<1>3. [m.bop_stack EXCEPT ![m.bop_stack_index] = [cop |-> cop, priority |-> priority]]
        \in [0..BOP_STACK_SIZE - 1 -> BopEl]
      BY <1>1, Sizes DEF Machines
<1> DEFINE n == BopPush(m, cop, priority)
<1>4. /\ n = [m EXCEPT !.bop_stack[m.bop_stack_index] = [cop |-> cop, priority |-> priority],
                       !.bop_stack_index = @ + 1, !.bin_op_was_entered = TRUE]
      BY DEF BopPush
<1>5. n.bop_stack = [m.bop_stack EXCEPT ![m.bop_stack_index] =
                       [cop |-> cop, priority |-> priority]]
      BY <1>4 DEF Machines
<1>6. /\ n \in Machines
      /\ n.bop_stack_index = m.bop_stack_index + 1
      /\ n.stack_index = m.stack_index
      /\ n.error = m.error
      BY <1>2, <1>3, <1>4, ZenonT(60) DEF Machines
<1>7. m.bop_stack_index \in 0..BOP_STACK_SIZE - 1
      BY Sizes DEF Machines
<1>8. \A i \in 0..m.bop_stack_index - 1 : i \in 0..BOP_STACK_SIZE - 1 /\ i # m.bop_stack_index
      BY <1>7, Sizes
<1>9. m.bop_stack \in [0..BOP_STACK_SIZE - 1 -> BopEl]
      BY DEF Machines
<1> HIDE DEF n
<1>10. n.bop_stack[m.bop_stack_index] = [cop |-> cop, priority |-> priority]
      BY <1>5, <1>7, <1>9
<1>11. \A i \in 0..m.bop_stack_index - 1 : n.bop_stack[i] = m.bop_stack[i]
      BY <1>5, <1>7, <1>8, <1>9
<1>12. [cop |-> cop, priority |-> priority].cop = cop
       /\ [cop |-> cop, priority |-> priority].priority = priority
      OBVIOUS
<1> QED BY <1>6, <1>10, <1>11, <1>12 DEF n

LEMMA RequestDisplayUpdateSound ==
  ASSUME NEW m \in Machines, m.stack_index > 0
  PROVE  LET n == RequestDisplayUpdate(m)
         IN  /\ n \in Machines
             /\ n.stack_index = m.stack_index
             /\ n.error = m.error
             /\ SameBops(n, m)
<1>1. TopOp(m) \in BinaryOps \cup {"nop"}
  <2>1. CASE m.bop_stack_index > 0
    <3> DEFINE b == m.bop_stack[m.bop_stack_index - 1]
    <3>1. b \in BopEl
          BY <2>1, BopStackType, IndexTypes
    <3>2. TopOp(m) = b.cop
          BY <2>1 DEF TopOp
    <3> HIDE DEF b
    <3> QED BY <3>1, <3>2, BopElType
  <2>2. CASE ~(m.bop_stack_index > 0)
        BY <2>2 DEF TopOp
  <2> QED BY <2>1, <2>2
<1>2. [el |-> StackTop(m), cop |-> TopOp(m)] \in [el : StackEl, cop : BinaryOps \cup {"nop"}]
      BY <1>1, StackTopType
<1>3. RequestDisplayUpdate(m) = [m EXCEPT !.shown = [el |-> StackTop(m), cop |-> TopOp(m)]]
      BY StackPeekSound DEF RequestDisplayUpdate
<1> QED BY <1>2, <1>3 DEF Machines, SameBops

-----------------------------------------------------------------------------
(* Evaluation of one operator, and of the pending ones                      *)

\* m is a state the two stacks are in between calls: a value to show, and at
\* most the last operator without its second argument.
Sound(m) ==
  /\ m \in Machines
  /\ m.error = FALSE
  /\ m.stack_index >= 1
  /\ m.stack_index \in {m.bop_stack_index, m.bop_stack_index + 1}

Runnable(m) ==
  \A i \in 0..m.bop_stack_index - 1 : HasBop(m.bop_stack[i].cop, calc_mode)

LEMMA HasBopType ==
  ASSUME NEW cop, NEW mode, HasBop(cop, mode)
  PROVE  cop \in BinaryOps
BY DEF HasBop, HasIop, HasFop, BinaryOps

LEMMA ApplyBopType ==
  ASSUME ConfigOK, NEW cop, HasBop(cop, calc_mode),
         NEW a \in StackEl, NEW b \in StackEl
  PROVE  ApplyBop(cop, a, b) \in StackEl
<1>1. cop \in BinaryOps
      BY HasBopType
<1>2. a.ival \in IVal /\ b.ival \in IVal /\ a.fval \in FVal /\ b.fval \in FVal
      BY DEF StackEl
<1>3. CASE calc_mode = "integer"
  <2>1. IopBinary(cop, a.ival, b.ival, integer_width, use_unsigned) \in IVal
        BY <1>1, <1>2, <1>3, OperationsClosed DEF HasBop, ConfigOK
  <2> QED BY <2>1, <1>3, InputsAssumption DEF ApplyBop, IntEl, StackEl
<1>4. CASE calc_mode # "integer"
  <2>1. FopBinary(cop, a.fval, b.fval) \in FVal
        BY <1>1, <1>2, <1>4, OperationsClosed DEF HasBop
  <2> QED BY <2>1, <1>4, InputsAssumption DEF ApplyBop, FloatEl, StackEl
<1> QED BY <1>3, <1>4

LEMMA EvaluateSound ==
  ASSUME ConfigOK, NEW m \in Machines, m.stack_index >= 2,
         NEW cop, HasBop(cop, calc_mode)
  PROVE  LET n == Evaluate(m, cop)
         IN  /\ n \in Machines
             /\ n.stack_index = m.stack_index - 1
             /\ n.error = m.error
             /\ SameBops(n, m)
<1> DEFINE m1 == StackPop(m)
           m2 == StackPop(m1)
           el == ApplyBop(cop, StackTop(m1), StackTop(m))
<1>1. /\ m1 \in Machines /\ m1.stack_index = m.stack_index - 1
      /\ m1.error = m.error /\ SameBops(m1, m)
      BY StackPopSound, IndexTypes
<1>2. m1.stack_index > 0
      BY <1>1, IndexTypes
<1> HIDE DEF m1
<1>3. /\ m2 \in Machines /\ m2.stack_index = m1.stack_index - 1
      /\ m2.error = m1.error /\ SameBops(m2, m1)
      BY <1>1, <1>2, StackPopSound
<1>4. el \in StackEl
      BY <1>1, StackTopType, ApplyBopType
<1>5. m2.stack_index < STACK_SIZE
      BY <1>1, <1>3, Sizes, IndexTypes
<1> HIDE DEF m2, el
<1>6. LET n == StackPush(m2, el)
      IN  /\ n \in Machines /\ n.stack_index = m2.stack_index + 1
          /\ n.error = m2.error /\ SameBops(n, m2)
      BY <1>3, <1>4, <1>5, StackPushSound
<1>7. Evaluate(m, cop) = StackPush(m2, el)
      BY DEF Evaluate, m1, m2, el
<1>8. m2.stack_index + 1 = m.stack_index - 1
      BY <1>1, <1>3, IndexTypes
<1> QED BY <1>1, <1>3, <1>6, <1>7, <1>8 DEF SameBops

\* A turn of the loop leaves the stacks alone, when it breaks, or takes the last
\* operator and leaves its value.
Stops(m, priority) ==
  m.bop_stack_index = 0 \/ priority > m.bop_stack[m.bop_stack_index - 1].priority

LEMMA BinOpStepSound ==
  ASSUME ConfigOK, NEW m, Sound(m), Runnable(m), NEW priority, ~Stops(m, priority)
  PROVE  LET n == BinOpStep(m, priority)
         IN  /\ Sound(n)
             /\ n.bop_stack = m.bop_stack
             /\ n.bin_op_was_entered = m.bin_op_was_entered
             /\ n.bop_stack_index = m.bop_stack_index - 1
             /\ n.stack_index = n.bop_stack_index + 1
<1> DEFINE m1  == BopPop(m)
           top == m.bop_stack[m1.bop_stack_index]
           m2  == StackPush(StackPeek(m1), StackTop(m1))
           n   == BinOpStep(m, priority)
<1>0. m \in Machines /\ m.bop_stack_index > 0 /\ m.bop_stack_index \in Nat
      BY IndexTypes DEF Sound, Stops
<1>1. /\ m1 \in Machines
      /\ m1.bop_stack_index = m.bop_stack_index - 1
      /\ m1.bop_stack = m.bop_stack
      /\ m1.stack_index = m.stack_index
      /\ m1.bin_op_was_entered = m.bin_op_was_entered
      /\ m1.error = m.error
      BY <1>0, BopPopSound
<1>2. m1.stack_index \in Nat /\ m1.bop_stack_index \in Nat /\ m1.stack_index >= 1
      BY <1>1, IndexTypes DEF Sound
<1>3. HasBop(top.cop, calc_mode)
      BY <1>0, <1>1, <1>2 DEF Runnable
<1>4. top = m.bop_stack[m.bop_stack_index - 1]
      BY <1>1
<1>5. n = IF m1.stack_index < m1.bop_stack_index + 2
          THEN IF allow_repeated_equals THEN Evaluate(m2, top.cop) ELSE StackPop(m2)
          ELSE Evaluate(m1, top.cop)
      BY <1>4 DEF BinOpStep, Stops
<1>6. \/ m1.stack_index = m1.bop_stack_index + 1
      \/ m1.stack_index = m1.bop_stack_index + 2
      BY <1>0, <1>1, <1>2 DEF Sound
<1> HIDE DEF m1, top, n
<1>7. CASE m1.stack_index = m1.bop_stack_index + 1
  <2>1. /\ m2 \in Machines /\ m2.stack_index = m1.stack_index + 1
        /\ m2.error = m1.error /\ SameBops(m2, m1)
    <3>1. StackPeek(m1) = m1
          BY <1>1, <1>2, StackPeekSound
    <3>2. m1.stack_index < STACK_SIZE
          BY <1>7, <1>0, <1>1, Sizes, SMTT(60) DEF Machines
    <3>3. StackTop(m1) \in StackEl
          BY <1>1, StackTopType
    <3> QED BY <3>1, <3>2, <3>3, <1>1, StackPushSound
  <2> HIDE DEF m2
  <2>2. CASE allow_repeated_equals
    <3>1. n = Evaluate(m2, top.cop)
          BY <1>5, <1>7, <1>2, <2>2
    <3>2. m2.stack_index >= 2
          BY <2>1, <1>2
    <3>3. /\ n \in Machines /\ n.stack_index = m2.stack_index - 1
          /\ n.error = m2.error /\ SameBops(n, m2)
          BY <3>1, <3>2, <2>1, <1>3, EvaluateSound
    <3> QED BY <3>3, <2>1, <1>1, <1>2, <1>7 DEF SameBops, Sound, n
  <2>3. CASE ~allow_repeated_equals
    <3>1. n = StackPop(m2)
          BY <1>5, <1>7, <1>2, <2>3
    <3>2. m2.stack_index > 0
          BY <2>1, <1>2
    <3>3. /\ n \in Machines /\ n.stack_index = m2.stack_index - 1
          /\ n.error = m2.error /\ SameBops(n, m2)
          BY <3>1, <3>2, <2>1, StackPopSound
    <3> QED BY <3>3, <2>1, <1>1, <1>2, <1>7 DEF SameBops, Sound, n
  <2> QED BY <2>2, <2>3
<1>8. CASE m1.stack_index = m1.bop_stack_index + 2
  <2>1. n = Evaluate(m1, top.cop)
        BY <1>5, <1>8, <1>2
  <2>2. m1.stack_index >= 2
        BY <1>8, <1>2
  <2>3. /\ n \in Machines /\ n.stack_index = m1.stack_index - 1
        /\ n.error = m1.error /\ SameBops(n, m1)
        BY <2>1, <2>2, <1>1, <1>3, EvaluateSound
  <2> QED BY <2>3, <1>1, <1>2, <1>8 DEF SameBops, Sound, n
<1> QED BY <1>6, <1>7, <1>8

\* What is left when the loop ends: operators that bind looser than priority.
LEMMA ProcessBinOpsSound ==
  ASSUME ConfigOK, NEW m, Sound(m), Runnable(m), NEW priority \in Nat
  PROVE  LET n == ProcessBinOps(m, priority)
         IN  /\ Sound(n)
             /\ n.bop_stack = m.bop_stack
             /\ n.bin_op_was_entered = m.bin_op_was_entered
             /\ n.bop_stack_index <= m.bop_stack_index
             /\ n = m \/ n.stack_index = n.bop_stack_index + 1
             /\ Stops(n, priority)
<1> DEFINE k == m.bop_stack_index
           Same(n) == /\ Sound(n)
                      /\ n.bop_stack = m.bop_stack
                      /\ n.bin_op_was_entered = m.bin_op_was_entered
                      /\ n.bop_stack_index <= k
                      /\ n = m \/ n.stack_index = n.bop_stack_index + 1
           Turn(n, i) == Same(n) /\ (Stops(n, priority) \/ n.bop_stack_index = k - i)
<1>1. k \in Nat /\ k <= BOP_STACK_SIZE /\ BOP_STACK_SIZE \in Nat
      BY IndexTypes, Sizes DEF Sound
<1>2. PICK f : /\ IsRun(f, m, priority, BOP_STACK_SIZE)
               /\ ProcessBinOps(m, priority) = f[k]
      BY ProcessBinOpsRun
<1> DEFINE S == {i \in Nat : i <= k => Turn(f[i], i)}
<1>3. 0 \in S
  <2>1. f[0] = m
        BY <1>1, <1>2 DEF IsRun
  <2> QED BY <2>1, <1>1
<1>4. ASSUME NEW i \in Nat, i \in S PROVE i + 1 \in S
  <2> SUFFICES ASSUME i + 1 <= k PROVE Turn(f[i + 1], i + 1)
      BY <1>1
  <2> DEFINE n == f[i]
  <2>1. Turn(n, i)
        BY <1>4, <1>1
  <2>2. f[i + 1] = BinOpStep(n, priority)
    <3>1. i + 1 \in 0..BOP_STACK_SIZE /\ i + 1 # 0 /\ (i + 1) - 1 = i
          BY <1>1
    <3> QED BY <3>1, <1>2, Zenon DEF IsRun
  <2>3. n.bop_stack_index \in Nat
        BY <2>1, IndexTypes DEF Sound
  <2> HIDE DEF n
  <2>4. CASE Stops(n, priority)
    <3>1. BinOpStep(n, priority) = n
          BY <2>4 DEF BinOpStep, Stops, BopPop
    <3> QED BY <3>1, <2>1, <2>2, <2>4
  <2>5. CASE ~Stops(n, priority)
    <3>1. Runnable(n)
          BY <2>1, <2>3, <1>1 DEF Runnable
    <3>2. LET n1 == BinOpStep(n, priority)
          IN  /\ Sound(n1)
              /\ n1.bop_stack = n.bop_stack
              /\ n1.bin_op_was_entered = n.bin_op_was_entered
              /\ n1.bop_stack_index = n.bop_stack_index - 1
              /\ n1.stack_index = n1.bop_stack_index + 1
          BY <2>1, <2>5, <3>1, BinOpStepSound
    <3> QED BY <3>2, <2>1, <2>2, <2>3, <2>5, <1>1
  <2> QED BY <2>4, <2>5
<1>5. k \in S
  <2> HIDE DEF S
  <2> QED BY <1>1, <1>3, <1>4, Induction
<1>6. Turn(f[k], k)
      BY <1>1, <1>5
<1>7. f[k].bop_stack_index = k - k => Stops(f[k], priority)
      BY <1>1 DEF Stops
<1> QED BY <1>2, <1>6, <1>7

LEMMA NewArgSound ==
  ASSUME ConfigOK, NEW m, Sound(m), NEW ival \in IVal, NEW fval \in FVal
  PROVE  LET n == NewArg(m, ival, fval)
         IN  Sound(n) /\ SameBops(n, m) /\ n.stack_index = n.bop_stack_index + 1
<1> DEFINE el == [ival |-> MaskWidth(ival, integer_width), fval |-> fval]
           m1 == IF m.stack_index > m.bop_stack_index THEN StackPop(m) ELSE m
<1>1. el \in StackEl
      BY OperationsClosed DEF ConfigOK, StackEl
<1>2. /\ m1 \in Machines /\ m1.error = FALSE /\ SameBops(m1, m)
      /\ m1.stack_index = m.bop_stack_index
      BY StackPopSound, IndexTypes DEF Sound, SameBops
<1>3. m1.stack_index < STACK_SIZE
      BY <1>2, IndexTypes, Sizes DEF SameBops
<1>4. NewArg(m, ival, fval) = StackPush(m1, el)
      BY DEF NewArg
<1> HIDE DEF m1, el
<1>5. LET n == StackPush(m1, el)
      IN  /\ n \in Machines /\ n.stack_index = m1.stack_index + 1
          /\ n.error = m1.error /\ SameBops(n, m1)
      BY <1>1, <1>2, <1>3, StackPushSound
<1>6. m1.stack_index \in Nat
      BY <1>2, IndexTypes
<1> QED BY <1>2, <1>4, <1>5, <1>6 DEF Sound, SameBops

LEMMA ReplaceTopSound ==
  ASSUME NEW m, Sound(m), NEW result \in StackEl
  PROVE  LET n == ReplaceTop(m, result)
         IN  Sound(n) /\ SameBops(n, m) /\ n.stack_index = n.bop_stack_index + 1
<1> DEFINE m1 == StackPop(m)
           m2 == IF m1.stack_index < m1.bop_stack_index
                 THEN StackPush(m1, StackTop(m)) ELSE m1
<1>1. m \in Machines /\ m.stack_index > 0
      BY IndexTypes DEF Sound
<1>2. /\ m1 \in Machines /\ m1.error = FALSE /\ SameBops(m1, m)
      /\ m1.stack_index = m.stack_index - 1
      BY <1>1, StackPopSound DEF Sound
<1>3. m1.stack_index < STACK_SIZE
      BY <1>1, <1>2, IndexTypes, Sizes
<1> HIDE DEF m1
<1>4. /\ m2 \in Machines /\ m2.error = FALSE /\ SameBops(m2, m)
      /\ m2.stack_index = m.bop_stack_index
  <2>1. CASE m1.stack_index < m1.bop_stack_index
    <3>1. StackTop(m) \in StackEl
          BY <1>1, StackTopType
    <3>2. LET n == StackPush(m1, StackTop(m))
          IN  /\ n \in Machines /\ n.stack_index = m1.stack_index + 1
              /\ n.error = m1.error /\ SameBops(n, m1)
          BY <1>2, <1>3, <3>1, StackPushSound
    <3> QED BY <2>1, <3>2, <1>1, <1>2, IndexTypes DEF Sound, SameBops
  <2>2. CASE ~(m1.stack_index < m1.bop_stack_index)
        BY <2>2, <1>1, <1>2, IndexTypes DEF Sound, SameBops
  <2> QED BY <2>1, <2>2
<1>5. m2.stack_index < STACK_SIZE
      BY <1>1, <1>4, IndexTypes, Sizes
<1>6. ReplaceTop(m, result) = StackPush(m2, result)
      BY DEF ReplaceTop, m1
<1> HIDE DEF m2
<1>7. LET n == StackPush(m2, result)
      IN  /\ n \in Machines /\ n.stack_index = m2.stack_index + 1
          /\ n.error = m2.error /\ SameBops(n, m2)
      BY <1>4, <1>5, StackPushSound
<1> QED BY <1>1, <1>4, <1>6, <1>7, IndexTypes DEF Sound, SameBops

\* The operator kept for repeated evaluation has a function.
Kept(m) == m.bin_op_was_entered => HasBop(m.bop_stack[0].cop, calc_mode)

\* The state after op_equals: no pending operator.
LEMMA OpEqualsSound ==
  ASSUME ConfigOK, NEW m, Sound(m), Runnable(m), Kept(m)
  PROVE  LET n == OpEquals(m)
         IN  /\ Sound(n)
             /\ n.bop_stack_index = 0
             /\ n.bop_stack = m.bop_stack
             /\ n.bin_op_was_entered = m.bin_op_was_entered
<1> DEFINE Done(n) == /\ Sound(n)
                      /\ n.bop_stack_index = 0
                      /\ n.bop_stack = m.bop_stack
                      /\ n.bin_op_was_entered = m.bin_op_was_entered
<1>1. m \in Machines /\ m.stack_index \in Nat /\ m.bop_stack_index \in Nat
      BY IndexTypes DEF Sound
<1>2. ASSUME NEW n, Done(n) PROVE Done(RequestDisplayUpdate(n))
  <2>1. n \in Machines /\ n.stack_index > 0
        BY <1>2, IndexTypes DEF Sound
  <2>2. LET r == RequestDisplayUpdate(n)
        IN  /\ r \in Machines /\ r.stack_index = n.stack_index
            /\ r.error = n.error /\ SameBops(r, n)
        BY <2>1, RequestDisplayUpdateSound
  <2> QED BY <2>2, <1>2 DEF Sound, SameBops
<1>3. CASE m.bop_stack_index > 0
  <2> DEFINE n == ProcessBinOps(m, PRIORITY_ADD_SUB)
  <2>1. /\ Sound(n) /\ n.bop_stack = m.bop_stack
        /\ n.bin_op_was_entered = m.bin_op_was_entered
        /\ n.bop_stack_index <= m.bop_stack_index
        /\ Stops(n, PRIORITY_ADD_SUB)
        BY ProcessBinOpsSound DEF PRIORITY_ADD_SUB
  <2>2. OpEquals(m) = RequestDisplayUpdate(n)
        BY <1>3 DEF OpEquals
  <2> HIDE DEF n
  <2>3. n.bop_stack_index = 0
    <3> SUFFICES ASSUME n.bop_stack_index # 0 PROVE FALSE
        OBVIOUS
    <3>1. n \in Machines /\ n.bop_stack_index - 1 \in 0..n.bop_stack_index - 1
          BY <2>1, IndexTypes DEF Sound
    <3> DEFINE top == n.bop_stack[n.bop_stack_index - 1]
    <3>2. top \in BopEl
          BY <3>1, BopStackType
    <3>3. PRIORITY_ADD_SUB > top.priority
          BY <2>1 DEF Stops
    <3> HIDE DEF top
    <3> QED BY <3>2, <3>3, BopElType DEF PRIORITY_ADD_SUB
  <2> QED BY <1>2, <2>1, <2>2, <2>3
<1>4. CASE m.bop_stack_index = 0 /\ m.bin_op_was_entered /\ allow_repeated_equals
  <2> DEFINE result == ApplyBop(m.bop_stack[0].cop, m.stack[0], m.stack[1])
             m1 == [m EXCEPT !.stack[0] = result]
             n  == HistoryUpdate(m1, StackTop(m1))
  <2>1. HasBop(m.bop_stack[0].cop, calc_mode)
        BY <1>4 DEF Kept
  <2>2. m.stack[0] \in StackEl /\ m.stack[1] \in StackEl
        BY <1>1, Sizes, SizesAssumption DEF Machines
  <2>3. result \in StackEl
        BY <2>1, <2>2, ApplyBopType
  <2>4. OpEquals(m) = RequestDisplayUpdate(n)
        BY <1>4, <1>1, <2>1 DEF OpEquals
  <2> HIDE DEF result
  <2>5. /\ m1 \in Machines /\ m1.stack_index = m.stack_index
        /\ m1.error = m.error /\ SameBops(m1, m)
    <3>1. [m.stack EXCEPT ![0] = result] \in [0..STACK_SIZE - 1 -> StackEl]
          BY <2>3, <1>1, Sizes DEF Machines
    <3> QED BY <3>1, <1>1 DEF Machines, SameBops
  <2> HIDE DEF m1
  <2>6. n \in Machines /\ n.stack_index = m1.stack_index
        /\ n.error = m1.error /\ SameBops(n, m1)
    <3>1. Append(m1.pushed, StackTop(m1)) \in Seq(StackEl)
          BY <2>5, StackTopType DEF Machines
    <3> QED BY <3>1, <2>5 DEF HistoryUpdate, Machines, SameBops
  <2> HIDE DEF n
  <2>7. Done(n)
        BY <2>5, <2>6, <1>4, <1>1 DEF Sound, SameBops
  <2> QED BY <1>2, <2>4, <2>7
<1>5. CASE m.bop_stack_index = 0 /\ ~(m.bin_op_was_entered /\ allow_repeated_equals)
  <2>1. OpEquals(m) = RequestDisplayUpdate(m)
        BY <1>5 DEF OpEquals
  <2>2. Done(m)
        BY <1>5
  <2> QED BY <1>2, <2>1, <2>2
<1> QED BY <1>1, <1>3, <1>4, <1>5

LEMMA MapStackSound ==
  ASSUME NEW m, Sound(m), NEW f \in [IVal -> IVal]
  PROVE  LET n == MapStack(m, f)
         IN  Sound(n) /\ SameBops(n, m) /\ n.stack_index = m.stack_index
<1> DEFINE g == [i \in 0..STACK_SIZE - 1 |->
                   IF i < m.stack_index THEN [m.stack[i] EXCEPT !.ival = f[@]] ELSE m.stack[i]]
<1>1. m \in Machines /\ m.stack \in [0..STACK_SIZE - 1 -> StackEl]
      BY DEF Sound, Machines
<1>2. ASSUME NEW el \in StackEl PROVE [el EXCEPT !.ival = f[@]] \in StackEl
      BY DEF StackEl
<1>3. g \in [0..STACK_SIZE - 1 -> StackEl]
      BY <1>1, <1>2
<1>4. MapStack(m, f) = [m EXCEPT !.stack = g]
      BY DEF MapStack
<1> HIDE DEF g
<1>5. /\ MapStack(m, f) \in Machines
      /\ MapStack(m, f).stack_index = m.stack_index
      /\ MapStack(m, f).error = m.error
      /\ SameBops(MapStack(m, f), m)
      BY <1>1, <1>3, <1>4 DEF Machines, SameBops
<1> QED BY <1>5 DEF Sound, SameBops

LEMMA MaskStackAllSound ==
  ASSUME NEW m, Sound(m), NEW width \in Width
  PROVE  LET n == MaskStackAll(m, width)
         IN  Sound(n) /\ SameBops(n, m)
<1> DEFINE f == [v \in IVal |-> MaskWidth(v, width)]
           k == MapStack(m, f)
<1>1. f \in [IVal -> IVal]
      BY OperationsClosed
<1>2. Sound(k) /\ SameBops(k, m)
  <2> HIDE DEF f
  <2> QED BY <1>1, MapStackSound
<1>3. MaskStackAll(m, width) = HistoryUpdate(StackPeek(k), StackTop(k))
      BY DEF MaskStackAll
<1> HIDE DEF k
<1>4. k \in Machines /\ StackPeek(k) = k
      BY <1>2, StackPeekSound, IndexTypes DEF Sound
<1>5. Append(k.pushed, StackTop(k)) \in Seq(StackEl)
      BY <1>4, StackTopType DEF Machines
<1>6. MaskStackAll(m, width) = [k EXCEPT !.pushed = Append(k.pushed, StackTop(k))]
      BY <1>3, <1>4 DEF HistoryUpdate
<1> QED BY <1>2, <1>4, <1>5, <1>6 DEF Sound, SameBops, Machines

-----------------------------------------------------------------------------
(* Room on the operator stack.  Levels are RAISE >= 3 apart, so the rank    *)
(* 3 * level + priority orders operators as their raised priority does; the *)
(* ranks of pending operators increase, hence that of the i-th is >= i.     *)

LEMMA PriorityRange ==
  ASSUME NEW cop \in BinaryOps
  PROVE  Priority(cop) \in 0..2
BY DEF BinaryOps, Priority, PRIORITY_ADD_SUB, PRIORITY_MUL_DIV, PRIORITY_POWER_ROOT

LEMMA RankOrder ==
  ASSUME NEW l0 \in Nat, NEW l \in Nat, NEW p0 \in 0..2, NEW p \in 0..2,
         p0 + l0 * PARENTHESES_PRIORITY_RAISE < p + l * PARENTHESES_PRIORITY_RAISE
  PROVE  3 * l0 + p0 < 3 * l + p
<1> DEFINE R == PARENTHESES_PRIORITY_RAISE
<1>1. R \in Nat /\ R >= 3
      BY SizesAssumption
<1> HIDE DEF R
<1>2. p0 + l0 * R < p + l * R
      BY DEF R
<1>3. ASSUME l0 > l PROVE FALSE
  <2>1. (l0 - l) * R >= R
        BY <1>1, <1>3
  <2>2. l0 * R = l * R + (l0 - l) * R
        BY <1>1, <1>3
  <2>3. l * R \in Nat /\ (l0 - l) * R \in Nat
        BY <1>1, <1>3
  <2> QED BY <1>1, <1>2, <2>1, <2>2, <2>3
<1>4. CASE l0 = l
      BY <1>1, <1>2, <1>4
<1>5. CASE l0 < l
      BY <1>5
<1> QED BY <1>3, <1>4, <1>5

\* OperatorOrder of the first k operators of bops, within n brackets.
Ordered(bops, k, n) ==
  /\ \A i, j \in 0..k - 1 : i < j => bops[i].priority < bops[j].priority
  /\ \A i \in 0..k - 1 : \E level \in 0..n :
       bops[i].priority = Priority(bops[i].cop) + level * PARENTHESES_PRIORITY_RAISE

LEMMA RoomForOperator ==
  ASSUME NEW bops, NEW k \in Nat, NEW n \in Nat, Ordered(bops, k, n),
         \A i \in 0..k - 1 : bops[i].cop \in BinaryOps,
         NEW cop \in BinaryOps,
         k > 0 => bops[k - 1].priority < Priority(cop) + n * PARENTHESES_PRIORITY_RAISE
  PROVE  k <= 3 * n + 2
<1> DEFINE R == PARENTHESES_PRIORITY_RAISE
           S == {i \in Nat : i < k => \E p \in 0..2, l \in 0..n :
                                        bops[i].priority = p + l * R /\ 3 * l + p >= i}
<1>1. ASSUME NEW i \in 0..k - 1
      PROVE  \E p \in 0..2, l \in 0..n : bops[i].priority = p + l * R
  <2>1. Priority(bops[i].cop) \in 0..2
        BY PriorityRange
  <2> QED BY <2>1 DEF Ordered
<1>2. 0 \in S
  <2> SUFFICES ASSUME 0 < k
               PROVE  \E p \in 0..2, l \in 0..n : bops[0].priority = p + l * R /\ 3 * l + p >= 0
      OBVIOUS
  <2>1. PICK p \in 0..2, l \in 0..n : bops[0].priority = p + l * R
        BY <1>1
  <2>2. 3 * l + p >= 0
        OBVIOUS
  <2> QED BY <2>1, <2>2
<1>3. ASSUME NEW i \in Nat, i \in S PROVE i + 1 \in S
  <2> SUFFICES ASSUME i + 1 < k
               PROVE  \E p \in 0..2, l \in 0..n :
                        bops[i + 1].priority = p + l * R /\ 3 * l + p >= i + 1
      OBVIOUS
  <2>1. i \in 0..k - 1 /\ i + 1 \in 0..k - 1
        OBVIOUS
  <2>2. PICK p0 \in 0..2, l0 \in 0..n : bops[i].priority = p0 + l0 * R /\ 3 * l0 + p0 >= i
        BY <1>3
  <2>3. PICK p \in 0..2, l \in 0..n : bops[i + 1].priority = p + l * R
        BY <1>1, <2>1
  <2>4. p0 + l0 * R < p + l * R
        BY <2>1, <2>2, <2>3 DEF Ordered
  <2>5. l0 \in Nat /\ l \in Nat
        OBVIOUS
  <2>6. 3 * l0 + p0 < 3 * l + p
        BY <2>4, <2>5, RankOrder
  <2>7. 3 * l + p >= i + 1
        BY <2>2, <2>6
  <2> QED BY <2>3, <2>7
<1>4. CASE k = 0
      BY <1>4
<1>5. CASE k > 0
  <2>1. k - 1 \in S
    <3> HIDE DEF S
    <3> QED BY <1>2, <1>3, <1>5, Induction
  <2>2. PICK p0 \in 0..2, l0 \in 0..n :
          bops[k - 1].priority = p0 + l0 * R /\ 3 * l0 + p0 >= k - 1
        BY <2>1, <1>5
  <2>3. Priority(cop) \in 0..2
        BY PriorityRange
  <2>4. p0 + l0 * R < Priority(cop) + n * R
        BY <1>5, <2>2
  <2>5. l0 \in Nat
        OBVIOUS
  <2>6. 3 * l0 + p0 < 3 * n + Priority(cop)
        BY <2>3, <2>4, <2>5, RankOrder
  <2> QED BY <2>2, <2>3, <2>6
<1> QED BY <1>4, <1>5

-----------------------------------------------------------------------------
(* The inductive invariant: the four safety invariants need each other.     *)

Inv == TypeOK /\ NoError /\ StackShape /\ OperatorOrder /\ NoNullFunction

\* The part of TypeOK that is not about the two stacks.
RestOK ==
  /\ calc_mode \in Mode
  /\ use_unsigned \in BOOLEAN
  /\ integer_width \in Width
  /\ allow_repeated_equals \in BOOLEAN
  /\ num_parentheses \in 0..MAX_PARENTHESES
  /\ paren_allowed \in BOOLEAN
  /\ mem_val \in [Memory -> StackEl]
  /\ mem_was_unsigned \in [Memory -> BOOLEAN]
  /\ save_val \in StackEl
  /\ init_from_save_val \in BOOLEAN
  /\ ready \in BOOLEAN

LEMMA InvMachine ==
  ASSUME Inv
  PROVE  /\ ConfigOK /\ RestOK
         /\ Machine \in Machines
         /\ Machine.error = FALSE
         /\ Runnable(Machine) /\ Kept(Machine)
         /\ Ordered(Machine.bop_stack, Machine.bop_stack_index, num_parentheses)
         /\ ready => Sound(Machine)
<1>1. ConfigOK /\ RestOK
      BY DEF Inv, TypeOK, ConfigOK, RestOK
<1>2. <<>> \in Seq(StackEl)
      OBVIOUS
<1>3. Machine \in Machines /\ Machine.error = FALSE
      BY <1>2 DEF Inv, TypeOK, NoError, Machine, Machines
<1>4. Runnable(Machine) /\ Kept(Machine)
      BY DEF Inv, NoNullFunction, Machine, Runnable, Kept
<1>5. Ordered(Machine.bop_stack, Machine.bop_stack_index, num_parentheses)
      BY DEF Inv, OperatorOrder, Machine, Ordered
<1>6. ASSUME ready PROVE Sound(Machine)
  <2>1. stack_index >= 1 /\ stack_index \in {bop_stack_index, bop_stack_index + 1}
        BY <1>6 DEF Inv, StackShape
  <2>2. Machine.stack_index = stack_index /\ Machine.bop_stack_index = bop_stack_index
        BY DEF Machine
  <2> QED BY <1>3, <2>1, <2>2 DEF Sound
<1> QED BY <1>1, <1>3, <1>4, <1>5, <1>6

LEMMA CommitInv ==
  ASSUME NEW m, Sound(m), Commit(m), RestOK',
         Ordered(m.bop_stack, m.bop_stack_index, num_parentheses'),
         \A i \in 0..m.bop_stack_index - 1 : HasBop(m.bop_stack[i].cop, calc_mode'),
         m.bin_op_was_entered => HasBop(m.bop_stack[0].cop, calc_mode')
  PROVE  Inv'
<1>1. TypeOK'
      BY DEF Sound, Machines, Commit, TypeOK, RestOK
<1>2. NoError' /\ StackShape'
      BY DEF Sound, Commit, NoError, StackShape
<1>3. OperatorOrder'
      BY DEF Ordered, Commit, OperatorOrder
<1>4. NoNullFunction'
      BY DEF Commit, NoNullFunction
<1> QED BY <1>1, <1>2, <1>3, <1>4 DEF Inv

\* Calls that leave the pending operators alone.
LEMMA CommitSameBops ==
  ASSUME Inv, NEW m, Sound(m), SameBops(m, Machine), Commit(m), RestOK',
         calc_mode' = calc_mode, num_parentheses' >= num_parentheses
  PROVE  Inv'
<1>1. Runnable(Machine) /\ Kept(Machine)
      /\ Ordered(Machine.bop_stack, Machine.bop_stack_index, num_parentheses)
      BY InvMachine
<1>2. num_parentheses \in Nat /\ num_parentheses' \in Nat
      BY InvMachine, SizesAssumption DEF RestOK
<1>3. 0..num_parentheses \subseteq 0..num_parentheses'
      BY <1>2
<1>4. Ordered(m.bop_stack, m.bop_stack_index, num_parentheses')
      BY <1>1, <1>3 DEF Ordered, SameBops
<1>5. \A i \in 0..m.bop_stack_index - 1 : HasBop(m.bop_stack[i].cop, calc_mode')
      BY <1>1 DEF Runnable, SameBops
<1>6. m.bin_op_was_entered => HasBop(m.bop_stack[0].cop, calc_mode')
      BY <1>1 DEF Kept, SameBops
<1> QED BY <1>4, <1>5, <1>6, CommitInv

\* Calls that leave no pending operator.
LEMMA CommitNoBops ==
  ASSUME NEW m, Sound(m), m.bop_stack_index = 0, Commit(m), RestOK',
         m.bin_op_was_entered => HasBop(m.bop_stack[0].cop, calc_mode')
  PROVE  Inv'
<1>1. 0..m.bop_stack_index - 1 = {}
      OBVIOUS
<1>2. Ordered(m.bop_stack, m.bop_stack_index, num_parentheses')
      BY <1>1 DEF Ordered
<1> QED BY <1>1, <1>2, CommitInv

LEMMA DisplaySound ==
  ASSUME NEW m, Sound(m)
  PROVE  LET n == RequestDisplayUpdate(m)
         IN  Sound(n) /\ SameBops(n, m) /\ n.stack_index = m.stack_index
<1>1. m \in Machines /\ m.stack_index > 0
      BY IndexTypes DEF Sound
<1> QED BY <1>1, RequestDisplayUpdateSound DEF Sound, SameBops

LEMMA InitInv == Init => Inv
<1> SUFFICES ASSUME Init PROVE Inv
    OBVIOUS
<1>1. Zero \in StackEl /\ NoBop \in BopEl
      BY InputsAssumption DEF Zero, StackEl, NoBop, BopEl
<1>2. TypeOK
  <2>1. stack \in [0..STACK_SIZE - 1 -> StackEl] /\ stack_index \in 0..STACK_SIZE
        BY <1>1, Sizes DEF Init
  <2>2. bop_stack \in [0..BOP_STACK_SIZE - 1 -> BopEl] /\ bop_stack_index \in 0..BOP_STACK_SIZE
        BY <1>1, Sizes DEF Init
  <2>3. pushed \in Seq(StackEl) /\ shown \in [el : StackEl, cop : BinaryOps \cup {"nop"}]
    <3>1. <<>> \in Seq(StackEl)
          OBVIOUS
    <3>2. shown = [el |-> Zero, cop |-> "nop"] /\ pushed = <<>>
          BY DEF Init
    <3> QED BY <1>1, <3>1, <3>2
  <2>4. mem_val \in [Memory -> StackEl] /\ mem_was_unsigned \in [Memory -> BOOLEAN]
        BY <1>1 DEF Init
  <2>5. num_parentheses \in 0..MAX_PARENTHESES
        BY SizesAssumption DEF Init
  <2>6. /\ calc_mode \in Mode /\ use_unsigned \in BOOLEAN /\ integer_width \in Width
        /\ allow_repeated_equals \in BOOLEAN /\ paren_allowed \in BOOLEAN
        /\ bin_op_was_entered \in BOOLEAN /\ init_from_save_val \in BOOLEAN
        /\ error \in BOOLEAN /\ ready \in BOOLEAN
        BY DEF Init
  <2>7. save_val \in StackEl
        BY <1>1 DEF Init
  <2> QED BY <2>1, <2>2, <2>3, <2>4, <2>5, <2>6, <2>7 DEF TypeOK
<1>3. OperatorOrder
      BY DEF Init, OperatorOrder
<1> QED BY <1>2, <1>3 DEF Init, Inv, NoError, StackShape, NoNullFunction

-----------------------------------------------------------------------------
(* Every call preserves it                                                  *)

LEMMA GiveArgInv ==
  ASSUME Inv, NEW ival \in IVal, NEW fval \in FVal, GiveArg(ival, fval)
  PROVE  Inv'
<1> DEFINE m == NewArg(Machine, ival, fval)
<1>1. Sound(m) /\ SameBops(m, Machine)
      BY InvMachine, NewArgSound DEF GiveArg
<1>2. RestOK' /\ calc_mode' = calc_mode /\ num_parentheses' = num_parentheses
      BY InvMachine DEF GiveArg, RestOK, modeVars, configVars, memVars
<1>3. Commit(m)
      BY DEF GiveArg
<1>4. num_parentheses' >= num_parentheses
      BY <1>2, InvMachine, SizesAssumption DEF RestOK
<1> HIDE DEF m
<1> QED BY <1>1, <1>2, <1>3, <1>4, CommitSameBops

LEMMA PeekInv ==
  ASSUME Inv, Peek
  PROVE  Inv'
<1> DEFINE m == RequestDisplayUpdate(Machine)
<1>1. Sound(m) /\ SameBops(m, Machine)
      BY InvMachine, DisplaySound DEF Peek, Pressed
<1>2. RestOK' /\ calc_mode' = calc_mode /\ num_parentheses' = num_parentheses
      BY InvMachine DEF Peek, RestOK, modeVars, configVars, memVars, parenVars
<1>3. Commit(m)
      BY DEF Peek
<1>4. num_parentheses' >= num_parentheses
      BY <1>2, InvMachine, SizesAssumption DEF RestOK
<1> HIDE DEF m
<1> QED BY <1>1, <1>2, <1>3, <1>4, CommitSameBops

LEMMA EqualsInv ==
  ASSUME Inv, Equals
  PROVE  Inv'
<1> DEFINE m == OpEquals(Machine)
<1>1. /\ Sound(m) /\ m.bop_stack_index = 0
      /\ m.bop_stack = Machine.bop_stack
      /\ m.bin_op_was_entered = Machine.bin_op_was_entered
      BY InvMachine, OpEqualsSound DEF Equals, Pressed
<1>2. RestOK' /\ calc_mode' = calc_mode
      BY InvMachine, SizesAssumption DEF Equals, RestOK, modeVars, configVars, memVars
<1>3. Commit(m)
      BY DEF Equals
<1> HIDE DEF m
<1>4. m.bin_op_was_entered => HasBop(m.bop_stack[0].cop, calc_mode')
      BY <1>1, <1>2, InvMachine DEF Kept
<1> QED BY <1>1, <1>2, <1>3, <1>4, CommitNoBops

LEMMA MemoryPlusInv ==
  ASSUME Inv, NEW k \in Memory, MemoryPlus(k)
  PROVE  Inv'
<1> DEFINE m0  == [Machine EXCEPT !.bin_op_was_entered = FALSE]
           m   == OpEquals(m0)
           top == StackTop(m)
           sum == IopBinary("add", MaskWidth(mem_val[k].ival, integer_width), top.ival,
                            integer_width, use_unsigned)
<1>1. ConfigOK /\ RestOK /\ Sound(Machine) /\ Runnable(Machine)
      BY InvMachine DEF MemoryPlus, Pressed
<1>2. Sound(m0) /\ Runnable(m0) /\ Kept(m0) /\ m0.bin_op_was_entered = FALSE
      BY <1>1 DEF Sound, Machines, Runnable, Kept
<1> HIDE DEF m0
<1>3. Sound(m) /\ m.bop_stack_index = 0 /\ m.bin_op_was_entered = FALSE
      BY <1>1, <1>2, OpEqualsSound
<1>4. m \in Machines /\ StackPeek(m) = m
      BY <1>3, StackPeekSound, IndexTypes DEF Sound
<1>5. Commit(m)
      BY <1>4 DEF MemoryPlus, EvaluateOutstanding, m0
<1> HIDE DEF m
<1>6. top \in StackEl /\ mem_val[k] \in StackEl
      BY <1>1, <1>4, StackTopType DEF RestOK
<1>7. top.ival \in IVal /\ top.fval \in FVal /\ mem_val[k].ival \in IVal /\ mem_val[k].fval \in FVal
      BY <1>6 DEF StackEl
<1> HIDE DEF top
<1>8. SignForMemory(sum) \in IVal
  <2>1. "add" \in BinaryOps /\ HasIop("add")
        BY DEF BinaryOps, HasIop
  <2>2. MaskWidth(mem_val[k].ival, integer_width) \in IVal
        BY <1>1, <1>7, OperationsClosed DEF ConfigOK
  <2>3. sum \in IVal
        BY <1>1, <1>7, <2>1, <2>2, OperationsClosed DEF ConfigOK
  <2> HIDE DEF sum
  <2> QED BY <1>1, <2>3, OperationsClosed DEF ConfigOK, SignForMemory
<1>9. FopBinary("add", mem_val[k].fval, top.fval) \in FVal
  <2>1. "add" \in BinaryOps /\ HasFop("add")
        BY DEF BinaryOps, HasFop
  <2> QED BY <1>7, <2>1, OperationsClosed
<1>10. mem_val' \in [Memory -> StackEl] /\ mem_was_unsigned' \in [Memory -> BOOLEAN]
  <2> HIDE DEF sum
  <2>1. CASE calc_mode = "integer"
    <3>1. /\ mem_val' = [mem_val EXCEPT ![k].ival = SignForMemory(sum)]
          /\ mem_was_unsigned' = [mem_was_unsigned EXCEPT ![k] = use_unsigned]
          BY <2>1 DEF MemoryPlus, EvaluateOutstanding, m, m0, top, sum
    <3>2. [mem_val[k] EXCEPT !.ival = SignForMemory(sum)] \in StackEl
          BY <1>6, <1>8 DEF StackEl
    <3> QED BY <3>1, <3>2, <1>1, <1>6 DEF RestOK, ConfigOK
  <2>2. CASE calc_mode # "integer"
    <3>1. /\ mem_val' = [mem_val EXCEPT ![k].fval = FopBinary("add", mem_val[k].fval, top.fval)]
          /\ mem_was_unsigned' = mem_was_unsigned
          BY <2>2 DEF MemoryPlus, EvaluateOutstanding, m, m0, top
    <3>2. [mem_val[k] EXCEPT !.fval = FopBinary("add", mem_val[k].fval, top.fval)] \in StackEl
          BY <1>6, <1>9 DEF StackEl
    <3> QED BY <3>1, <3>2, <1>1, <1>6 DEF RestOK
  <2> QED BY <2>1, <2>2
<1>11. RestOK'
      BY <1>1, <1>10, SizesAssumption DEF MemoryPlus, RestOK, modeVars, configVars
<1> QED BY <1>3, <1>5, <1>11, CommitNoBops

LEMMA UnaryOpInv ==
  ASSUME Inv, NEW cop \in IntUnaryOps \cup FloatUnaryOps, UnaryOp(cop)
  PROVE  Inv'
<1> DEFINE el == StackTop(Machine)
           result == ApplyUop(cop, el)
           m1 == ReplaceTop(Machine, result)
           m  == RequestDisplayUpdate(m1)
<1>1. ConfigOK /\ RestOK /\ Sound(Machine)
      BY InvMachine DEF UnaryOp, Pressed
<1>2. el.ival \in IVal /\ el.fval \in FVal
      BY <1>1, StackTopType, StackElType DEF Sound
<1> HIDE DEF el
<1>3. result \in StackEl
  <2>1. CASE calc_mode = "integer"
    <3>1. IopUnary(cop, el.ival, integer_width, use_unsigned) \in IVal
          BY <1>1, <1>2, <2>1, OperationsClosed DEF UnaryOp, HasUop, ConfigOK
    <3> QED BY <3>1, <2>1, InputsAssumption DEF ApplyUop, IntEl, StackEl
  <2>2. CASE calc_mode # "integer"
    <3>1. FopUnary(cop, el.fval) \in FVal
          BY <1>2, <2>2, OperationsClosed DEF UnaryOp, HasUop
    <3> QED BY <3>1, <2>2, InputsAssumption DEF ApplyUop, FloatEl, StackEl
  <2> QED BY <2>1, <2>2
<1> HIDE DEF result
<1>4. Sound(m1) /\ SameBops(m1, Machine)
      BY <1>1, <1>3, ReplaceTopSound
<1> HIDE DEF m1
<1>5. Sound(m) /\ SameBops(m, Machine)
      BY <1>4, DisplaySound DEF SameBops
<1>6. Commit(m)
      BY DEF UnaryOp, m1, result, el
<1>7. RestOK' /\ calc_mode' = calc_mode /\ num_parentheses' = num_parentheses
      BY <1>1 DEF UnaryOp, RestOK, modeVars, configVars, memVars, parenVars
<1>8. num_parentheses' >= num_parentheses
      BY <1>1, <1>7, SizesAssumption DEF RestOK
<1> HIDE DEF m
<1> QED BY <1>5, <1>6, <1>7, <1>8, CommitSameBops

LEMMA BitXorInv ==
  ASSUME Inv, NEW bitmask \in BitMasks, BitXor(bitmask)
  PROVE  Inv'
<1> DEFINE result == ApplyBop("xor", StackTop(Machine), IntEl(bitmask))
           m1 == ReplaceTop(Machine, result)
           m  == RequestDisplayUpdate(m1)
<1>1. ConfigOK /\ RestOK /\ Sound(Machine)
      BY InvMachine DEF BitXor
<1>2. StackTop(Machine) \in StackEl /\ IntEl(bitmask) \in StackEl
      BY <1>1, StackTopType, InputsAssumption DEF Sound, IntEl, StackEl
<1>3. HasBop("xor", calc_mode)
      BY DEF BitXor, HasBop, HasIop, BinaryOps
<1>4. result \in StackEl
      BY <1>1, <1>2, <1>3, ApplyBopType
<1> HIDE DEF result
<1>5. Sound(m1) /\ SameBops(m1, Machine)
      BY <1>1, <1>4, ReplaceTopSound
<1> HIDE DEF m1
<1>6. Sound(m) /\ SameBops(m, Machine)
      BY <1>5, DisplaySound DEF SameBops
<1>7. Commit(m)
      BY DEF BitXor, m1, result
<1>8. RestOK' /\ calc_mode' = calc_mode /\ num_parentheses' = num_parentheses
      BY <1>1 DEF BitXor, RestOK, modeVars, configVars, memVars, parenVars
<1>9. num_parentheses' >= num_parentheses
      BY <1>1, <1>8, SizesAssumption DEF RestOK
<1> HIDE DEF m
<1> QED BY <1>6, <1>7, <1>8, <1>9, CommitSameBops

\* The effect of entering a number and showing it, as (, MR and the constants do.
LEMMA EnterSound ==
  ASSUME Inv, ready, NEW ival \in IVal, NEW fval \in FVal
  PROVE  LET m == RequestDisplayUpdate(NewArg(Machine, ival, fval))
         IN  Sound(m) /\ SameBops(m, Machine)
<1> DEFINE m1 == NewArg(Machine, ival, fval)
<1>1. Sound(m1) /\ SameBops(m1, Machine)
      BY InvMachine, NewArgSound
<1> HIDE DEF m1
<1>2. Sound(RequestDisplayUpdate(m1)) /\ SameBops(RequestDisplayUpdate(m1), Machine)
      BY <1>1, DisplaySound DEF SameBops
<1> QED BY <1>2 DEF m1

LEMMA ParenthesesLeftInv ==
  ASSUME Inv, ParenthesesLeft
  PROVE  Inv'
<1> DEFINE m == RequestDisplayUpdate(NewArg(Machine, IZero, FZero))
<1>1. Sound(m) /\ SameBops(m, Machine)
      BY EnterSound, InputsAssumption DEF ParenthesesLeft, Pressed
<1>2. /\ RestOK' /\ calc_mode' = calc_mode
      /\ num_parentheses' >= num_parentheses
      BY InvMachine, SizesAssumption
         DEF ParenthesesLeft, RestOK, modeVars, configVars, memVars
<1>3. Commit(m)
      BY DEF ParenthesesLeft
<1> HIDE DEF m
<1> QED BY <1>1, <1>2, <1>3, CommitSameBops

LEMMA EnterInv ==
  ASSUME Inv, ready, NEW el \in StackEl, Enter(el)
  PROVE  Inv'
<1> DEFINE m == RequestDisplayUpdate(NewArg(Machine, el.ival, el.fval))
<1>1. Sound(m) /\ SameBops(m, Machine)
      BY EnterSound, StackElType
<1>2. RestOK' /\ calc_mode' = calc_mode /\ num_parentheses' = num_parentheses
      BY InvMachine DEF Enter, RestOK, modeVars, configVars, memVars
<1>3. num_parentheses' >= num_parentheses
      BY <1>2, InvMachine, SizesAssumption DEF RestOK
<1>4. Commit(m)
      BY DEF Enter
<1> HIDE DEF m
<1> QED BY <1>1, <1>2, <1>3, <1>4, CommitSameBops

LEMMA MemoryRecallInv ==
  ASSUME Inv, NEW k \in Memory, MemoryRecall(k)
  PROVE  Inv'
<1>1. mem_val[k] \in StackEl
      BY InvMachine DEF RestOK
<1>2. ready /\ Enter(mem_val[k])
      BY DEF MemoryRecall, Pressed, Enter
<1> QED BY <1>1, <1>2, EnterInv

LEMMA MemoryStoreInv ==
  ASSUME Inv, NEW k \in Memory, MemoryStore(k)
  PROVE  Inv'
<1> DEFINE top == StackTop(Machine)
           m == RequestDisplayUpdate(Machine)
<1>1. ConfigOK /\ RestOK /\ Sound(Machine)
      BY InvMachine DEF MemoryStore, Pressed
<1>2. top \in StackEl /\ mem_val[k] \in StackEl
      BY <1>1, StackTopType DEF Sound, RestOK
<1>3. top.ival \in IVal /\ top.fval \in FVal
      BY <1>2 DEF StackEl
<1> HIDE DEF top
<1>4. SignForMemory(top.ival) \in IVal
      BY <1>1, <1>3, OperationsClosed DEF ConfigOK, SignForMemory
<1>5. mem_val' \in [Memory -> StackEl] /\ mem_was_unsigned' \in [Memory -> BOOLEAN]
  <2>1. CASE calc_mode = "integer"
    <3>1. /\ mem_val' = [mem_val EXCEPT ![k].ival = SignForMemory(top.ival)]
          /\ mem_was_unsigned' = [mem_was_unsigned EXCEPT ![k] = use_unsigned]
          BY <2>1 DEF MemoryStore, top
    <3>2. [mem_val[k] EXCEPT !.ival = SignForMemory(top.ival)] \in StackEl
          BY <1>2, <1>4 DEF StackEl
    <3> QED BY <3>1, <3>2, <1>1, <1>2 DEF RestOK, ConfigOK
  <2>2. CASE calc_mode # "integer"
    <3>1. /\ mem_val' = [mem_val EXCEPT ![k].fval = top.fval]
          /\ mem_was_unsigned' = mem_was_unsigned
          BY <2>2 DEF MemoryStore, top
    <3>2. [mem_val[k] EXCEPT !.fval = top.fval] \in StackEl
          BY <1>2, <1>3 DEF StackEl
    <3> QED BY <3>1, <3>2, <1>1, <1>2 DEF RestOK
  <2> QED BY <2>1, <2>2
<1>6. Sound(m) /\ SameBops(m, Machine)
      BY <1>1, DisplaySound
<1>7. RestOK' /\ calc_mode' = calc_mode /\ num_parentheses' = num_parentheses
      BY <1>1, <1>5 DEF MemoryStore, RestOK, modeVars, configVars, parenVars
<1>8. num_parentheses' >= num_parentheses
      BY <1>1, <1>7, SizesAssumption DEF RestOK
<1>9. Commit(m)
      BY DEF MemoryStore
<1> HIDE DEF m
<1> QED BY <1>6, <1>7, <1>8, <1>9, CommitSameBops

\* The operators left by ProcessBinOps are in order, and have functions.
LEMMA OrderedPrefix ==
  ASSUME NEW bops, NEW k \in Nat, NEW j \in Nat, j <= k, NEW n, Ordered(bops, k, n)
  PROVE  Ordered(bops, j, n)
<1>1. 0..j - 1 \subseteq 0..k - 1
      OBVIOUS
<1> QED BY <1>1 DEF Ordered

LEMMA BinaryOpInv ==
  ASSUME Inv, NEW cop \in BinaryOps, BinaryOp(cop)
  PROVE  Inv'
<1> DEFINE n == num_parentheses
           priority == Priority(cop) + n * PARENTHESES_PRIORITY_RAISE
           m1 == IF bop_stack_index > 0 /\ bop_stack_index >= stack_index
                 THEN BopPop(Machine) ELSE Machine
           m2 == ProcessBinOps(m1, priority)
           m3 == BopPush(m2, cop, priority)
           m  == RequestDisplayUpdate(m3)
<1>1. /\ ConfigOK /\ RestOK /\ Sound(Machine) /\ Runnable(Machine)
      /\ Ordered(bop_stack, bop_stack_index, n)
      BY InvMachine DEF BinaryOp, Pressed, Machine
<1>2. n \in Nat /\ n <= MAX_PARENTHESES /\ MAX_PARENTHESES \in Nat
      BY <1>1, SizesAssumption DEF RestOK
<1>3. Priority(cop) \in 0..2
      BY PriorityRange
<1>4. priority \in Nat
      BY <1>2, <1>3, SizesAssumption
<1>5. /\ Sound(m1) /\ Runnable(m1) /\ m1.bop_stack = bop_stack
      /\ m1.bop_stack_index <= bop_stack_index
      /\ m1.stack_index = m1.bop_stack_index + 1
  <2>1. /\ Machine.bop_stack_index = bop_stack_index /\ Machine.stack_index = stack_index
        /\ Machine.bop_stack = bop_stack
        /\ Machine \in Machines /\ bop_stack_index \in Nat /\ stack_index \in Nat
    <3>1. Machine.bop_stack_index = bop_stack_index /\ Machine.stack_index = stack_index
          /\ Machine.bop_stack = bop_stack
          BY DEF Machine
    <3> QED BY <1>1, <3>1, IndexTypes DEF Sound
  <2>2. CASE bop_stack_index > 0 /\ bop_stack_index >= stack_index
    <3>1. m1 = BopPop(Machine)
          BY <2>2
    <3> HIDE DEF m1
    <3>2. /\ m1 \in Machines /\ m1.bop_stack_index = bop_stack_index - 1
          /\ m1.bop_stack = bop_stack /\ m1.stack_index = stack_index
          /\ m1.error = Machine.error
          BY <2>1, <2>2, <3>1, BopPopSound
    <3>3. Sound(m1)
          BY <1>1, <2>1, <2>2, <3>2 DEF Sound
    <3>4. 0..m1.bop_stack_index - 1 \subseteq 0..bop_stack_index - 1
          BY <2>1, <3>2
    <3>5. Runnable(m1)
          BY <1>1, <2>1, <3>2, <3>4 DEF Runnable
    <3> QED BY <1>1, <2>1, <2>2, <3>2, <3>3, <3>5 DEF Sound
  <2>3. CASE ~(bop_stack_index > 0 /\ bop_stack_index >= stack_index)
    <3>1. m1 = Machine
          BY <2>3
    <3> HIDE DEF m1
    <3> QED BY <1>1, <2>1, <2>3, <3>1 DEF Sound
  <2> QED BY <2>2, <2>3
<1> HIDE DEF m1, priority
<1>6. /\ Sound(m2) /\ m2.bop_stack = bop_stack
      /\ m2.bop_stack_index <= m1.bop_stack_index
      /\ m2.stack_index = m2.bop_stack_index + 1
      /\ Stops(m2, priority)
      BY <1>1, <1>4, <1>5, ProcessBinOpsSound
<1> DEFINE k == m2.bop_stack_index
<1>7. /\ k \in Nat /\ k <= bop_stack_index /\ bop_stack_index \in Nat
      /\ bop_stack_index <= BOP_STACK_SIZE
  <2>1. m1.bop_stack_index \in Nat /\ k \in Nat
        BY <1>5, <1>6, IndexTypes DEF Sound
  <2>2. bop_stack_index \in Nat /\ bop_stack_index <= BOP_STACK_SIZE
        BY Sizes DEF Inv, TypeOK
  <2> QED BY <1>5, <1>6, <2>1, <2>2
<1> HIDE DEF m2
<1>8. Ordered(bop_stack, k, n)
      BY <1>1, <1>7, OrderedPrefix
<1>9. \A i \in 0..k - 1 : HasBop(bop_stack[i].cop, calc_mode)
  <2>1. 0..k - 1 \subseteq 0..bop_stack_index - 1
        BY <1>7
  <2> QED BY <2>1 DEF Inv, NoNullFunction
<1>10. k > 0 => bop_stack[k - 1].priority < priority
  <2> SUFFICES ASSUME k > 0 PROVE bop_stack[k - 1].priority < priority
      OBVIOUS
  <2>1. priority > bop_stack[k - 1].priority
        BY <1>6, <1>7 DEF Stops
  <2>2. k - 1 \in 0..BOP_STACK_SIZE - 1
        BY <1>7, Sizes
  <2>3. bop_stack[k - 1] \in BopEl
        BY <2>2 DEF Inv, TypeOK
  <2> DEFINE top == bop_stack[k - 1]
  <2> HIDE DEF top
  <2>4. top.priority \in Nat
        BY <2>3, BopElType DEF top
  <2> QED BY <1>4, <2>1, <2>4 DEF top
<1>11. k < BOP_STACK_SIZE
  <2>1. \A i \in 0..k - 1 : bop_stack[i].cop \in BinaryOps
        BY <1>9, HasBopType
  <2>2. k <= 3 * n + 2
        BY <1>2, <1>7, <1>8, <1>10, <2>1, RoomForOperator DEF priority
  <2> QED BY <1>2, <1>7, <2>2, Sizes
<1>12. /\ m3 \in Machines
       /\ m3.bop_stack[k].cop = cop /\ m3.bop_stack[k].priority = priority
       /\ \A i \in 0..k - 1 : m3.bop_stack[i] = bop_stack[i]
       /\ m3.bop_stack_index = k + 1
       /\ m3.stack_index = k + 1
       /\ m3.error = FALSE
  <2>1. m2 \in Machines /\ m2.error = FALSE
        BY <1>6 DEF Sound
  <2>2. /\ m3 \in Machines
        /\ m3.bop_stack[k].cop = cop /\ m3.bop_stack[k].priority = priority
        /\ \A i \in 0..k - 1 : m3.bop_stack[i] = m2.bop_stack[i]
        /\ m3.bop_stack_index = k + 1
        /\ m3.stack_index = m2.stack_index
        /\ m3.error = m2.error
        BY <1>4, <1>11, <2>1, BopPushSound
  <2> HIDE DEF m3
  <2> QED BY <1>6, <2>1, <2>2
<1>13. Commit(m)
      BY DEF BinaryOp, m2, m1, priority
<1> HIDE DEF m3
<1>14. Sound(m3)
      BY <1>7, <1>12 DEF Sound
<1>15. Sound(m) /\ SameBops(m, m3)
      BY <1>14, DisplaySound
<1> HIDE DEF m
<1> DEFINE bops == m3.bop_stack
<1>16. /\ \A i \in 0..k - 1 : bops[i] = bop_stack[i]
       /\ bops[k].cop = cop /\ bops[k].priority = priority
       /\ 0..(k + 1) - 1 = 0..k - 1 \cup {k}
      BY <1>7, <1>12
<1> HIDE DEF bops
<1>17. Ordered(bops, k + 1, n)
  <2>1. ASSUME NEW i \in 0..k, NEW j \in 0..k, i < j
        PROVE  bops[i].priority < bops[j].priority
    <3>1. i \in 0..k - 1
          BY <1>7, <2>1
    <3>2. CASE j \in 0..k - 1
          BY <1>8, <1>16, <2>1, <3>1, <3>2 DEF Ordered
    <3>3. CASE j = k
      <4>1. bop_stack[i].priority \in Nat /\ bop_stack[k - 1].priority \in Nat
        <5>1. i \in 0..BOP_STACK_SIZE - 1 /\ k - 1 \in 0..BOP_STACK_SIZE - 1
              BY <1>7, <1>11, <3>1, Sizes
        <5>2. \A x \in 0..BOP_STACK_SIZE - 1 : bop_stack[x] \in BopEl
              BY DEF Inv, TypeOK
        <5>3. \A x \in 0..BOP_STACK_SIZE - 1 : bop_stack[x].priority \in Nat
              BY <5>2, BopElType
        <5> QED BY <5>1, <5>3
      <4>2. bop_stack[i].priority <= bop_stack[k - 1].priority
        <5>1. CASE i = k - 1
              BY <4>1, <5>1
        <5>2. CASE i < k - 1
          <6>1. k - 1 \in 0..k - 1
                BY <1>7, <3>1
          <6> QED BY <1>8, <3>1, <5>2, <6>1, <4>1 DEF Ordered
        <5> QED BY <3>1, <1>7, <5>1, <5>2
      <4>3. bop_stack[k - 1].priority < priority
            BY <1>7, <1>10, <3>1
      <4> QED BY <1>4, <1>16, <3>1, <3>3, <4>1, <4>2, <4>3
    <3> QED BY <1>7, <3>2, <3>3
  <2>2. ASSUME NEW i \in 0..k
        PROVE  \E level \in 0..n :
                 bops[i].priority = Priority(bops[i].cop) + level * PARENTHESES_PRIORITY_RAISE
    <3>1. CASE i \in 0..k - 1
          BY <1>8, <1>16, <3>1 DEF Ordered
    <3>2. CASE i = k
      <4>1. n \in 0..n
            BY <1>2
      <4> QED BY <1>16, <3>2, <4>1 DEF priority
    <3> QED BY <1>7, <3>1, <3>2
  <2>3. (k + 1) - 1 = k
        BY <1>7
  <2> QED BY <2>1, <2>2, <2>3 DEF Ordered
<1>18. /\ RestOK' /\ calc_mode' = calc_mode /\ num_parentheses' = n
      BY <1>1 DEF BinaryOp, RestOK, modeVars, configVars, memVars
<1>19. m.bop_stack = bops /\ m.bop_stack_index = k + 1
      BY <1>12, <1>15 DEF SameBops, bops
<1>20. \A i \in 0..k : HasBop(bops[i].cop, calc_mode)
  <2>1. HasBop(cop, calc_mode)
        BY DEF BinaryOp
  <2> QED BY <1>7, <1>9, <1>16, <2>1
<1>21. 0 \in 0..k /\ (k + 1) - 1 = k
      BY <1>7
<1>22. Ordered(m.bop_stack, m.bop_stack_index, num_parentheses')
      BY <1>17, <1>18, <1>19
<1>23. \A i \in 0..m.bop_stack_index - 1 : HasBop(m.bop_stack[i].cop, calc_mode')
      BY <1>18, <1>19, <1>20, <1>21
<1>24. HasBop(m.bop_stack[0].cop, calc_mode')
      BY <1>18, <1>19, <1>20, <1>21
<1> QED BY <1>13, <1>15, <1>18, <1>22, <1>23, <1>24, CommitInv

LEMMA ParenthesesRightInv ==
  ASSUME Inv, ParenthesesRight
  PROVE  Inv'
<1> DEFINE n == num_parentheses
           R == PARENTHESES_PRIORITY_RAISE
           m1 == ProcessBinOps(Machine, n * R)
           m  == RequestDisplayUpdate(m1)
<1>1. /\ ConfigOK /\ RestOK /\ Sound(Machine) /\ Runnable(Machine) /\ Kept(Machine)
      /\ Machine.bop_stack = bop_stack /\ Machine.bop_stack_index = bop_stack_index
      /\ Ordered(bop_stack, bop_stack_index, n)
      BY InvMachine DEF ParenthesesRight, Pressed, Machine
<1>2. /\ n \in Nat /\ n > 0 /\ n <= MAX_PARENTHESES
      /\ R \in Nat /\ n * R \in Nat /\ MAX_PARENTHESES \in Nat
      BY <1>1, SizesAssumption DEF RestOK, ParenthesesRight
<1>3. /\ Sound(m1) /\ m1.bop_stack = bop_stack
      /\ m1.bin_op_was_entered = Machine.bin_op_was_entered
      /\ m1.bop_stack_index <= bop_stack_index
      /\ Stops(m1, n * R)
      BY <1>1, <1>2, ProcessBinOpsSound
<1> HIDE DEF m1
<1>4. Sound(m) /\ SameBops(m, m1)
      BY <1>3, DisplaySound
<1>5. Commit(m)
      BY DEF ParenthesesRight, m1
<1> HIDE DEF m
<1> DEFINE k == m.bop_stack_index
<1>6. /\ k \in Nat /\ k <= bop_stack_index /\ bop_stack_index \in Nat
      /\ bop_stack_index <= BOP_STACK_SIZE
  <2>1. k \in Nat /\ k = m1.bop_stack_index
        BY <1>4, IndexTypes DEF Sound, SameBops
  <2>2. bop_stack_index \in Nat /\ bop_stack_index <= BOP_STACK_SIZE
        BY Sizes DEF Inv, TypeOK
  <2> QED BY <1>3, <2>1, <2>2
<1>7. /\ m.bop_stack = bop_stack
      /\ m.bin_op_was_entered = Machine.bin_op_was_entered
      /\ k > 0 => n * R > bop_stack[k - 1].priority
      BY <1>3, <1>4, <1>6 DEF SameBops, Stops
<1>8. /\ RestOK' /\ calc_mode' = calc_mode /\ num_parentheses' = n - 1
      BY <1>1, <1>2 DEF ParenthesesRight, RestOK, modeVars, configVars, memVars
<1>9. Ordered(bop_stack, k, n)
      BY <1>1, <1>6, OrderedPrefix
<1>10. \A i \in 0..k - 1 : HasBop(bop_stack[i].cop, calc_mode) /\ bop_stack[i] \in BopEl
  <2>1. 0..k - 1 \subseteq 0..bop_stack_index - 1 /\ 0..k - 1 \subseteq 0..BOP_STACK_SIZE - 1
        BY <1>6, Sizes
  <2>2. bop_stack \in [0..BOP_STACK_SIZE - 1 -> BopEl]
        BY DEF Inv, TypeOK
  <2> QED BY <2>1, <2>2 DEF Inv, NoNullFunction
<1> HIDE DEF k
<1>11. ASSUME NEW i \in 0..k - 1
       PROVE  \E level \in 0..n - 1 :
                bop_stack[i].priority = Priority(bop_stack[i].cop) + level * R
  <2>1. k - 1 \in 0..k - 1 /\ k > 0
        BY <1>6
  <2> DEFINE prio == bop_stack[i].priority
             last == bop_stack[k - 1].priority
             p    == Priority(bop_stack[i].cop)
  <2>2. prio \in Nat /\ last \in Nat
        BY <1>10, <2>1, BopElType
  <2>3. PICK level \in 0..n : prio = p + level * R
        BY <1>9 DEF Ordered
  <2>4. p \in 0..2
        BY <1>10, HasBopType, PriorityRange
  <2>5. prio <= last
    <3>1. CASE i = k - 1
          BY <2>2, <3>1
    <3>2. CASE i < k - 1
          BY <1>9, <2>1, <2>2, <3>2 DEF Ordered
    <3> QED BY <1>6, <3>1, <3>2
  <2>6. n * R > prio
        BY <1>2, <1>7, <2>1, <2>2, <2>5
  <2> HIDE DEF prio, p
  <2>7. level # n
        BY <1>2, <2>3, <2>4, <2>6
  <2>8. level \in 0..n - 1
        BY <1>2, <2>7
  <2> QED BY <2>3, <2>8 DEF prio, p
<1>12. Ordered(m.bop_stack, k, num_parentheses')
      BY <1>7, <1>8, <1>9, <1>11 DEF Ordered
<1>13. \A i \in 0..k - 1 : HasBop(m.bop_stack[i].cop, calc_mode')
      BY <1>7, <1>8, <1>10
<1>14. m.bin_op_was_entered => HasBop(m.bop_stack[0].cop, calc_mode')
      BY <1>1, <1>7, <1>8 DEF Kept
<1> QED BY <1>4, <1>5, <1>8, <1>12, <1>13, <1>14, CommitInv DEF k

LEMMA ClearInv ==
  ASSUME Inv, Clear
  PROVE  Inv'
<1> DEFINE first == IF init_from_save_val
                    THEN [save_val EXCEPT !.ival = MaskWidth(@, integer_width)]
                    ELSE Zero
           empty == [Machine EXCEPT !.stack_index = 0, !.bop_stack_index = 0,
                                    !.bin_op_was_entered = FALSE]
           m1 == StackPush(empty, first)
           m  == RequestDisplayUpdate(m1)
<1>1. ConfigOK /\ RestOK /\ Machine \in Machines /\ Machine.error = FALSE
      BY InvMachine
<1>2. first \in StackEl
  <2>1. save_val \in StackEl
        BY <1>1 DEF RestOK
  <2>2. save_val.ival \in IVal
        BY <2>1, StackElType
  <2>3. MaskWidth(save_val.ival, integer_width) \in IVal
        BY <1>1, <2>2, OperationsClosed DEF ConfigOK
  <2>4. [save_val EXCEPT !.ival = MaskWidth(@, integer_width)] \in StackEl
        BY <2>1, <2>3 DEF StackEl
  <2>5. Zero \in StackEl
        BY InputsAssumption DEF Zero, StackEl
  <2> QED BY <2>4, <2>5
<1>3. /\ empty \in Machines /\ empty.stack_index = 0 /\ empty.bop_stack_index = 0
      /\ empty.bin_op_was_entered = FALSE /\ empty.error = FALSE
  <2>1. 0 \in 0..STACK_SIZE /\ 0 \in 0..BOP_STACK_SIZE
        BY Sizes
  <2> QED BY <1>1, <2>1 DEF Machines
<1>4. /\ RestOK' /\ calc_mode' = calc_mode
  <2>1. save_val' \in StackEl
    <3>1. save_val' = IF init_from_save_val THEN first ELSE save_val
          BY DEF Clear
    <3> HIDE DEF first
    <3> QED BY <1>1, <1>2, <3>1 DEF RestOK
  <2>2. /\ num_parentheses' = 0 /\ paren_allowed' = TRUE
        /\ init_from_save_val' = FALSE /\ ready' = TRUE
        /\ UNCHANGED <<calc_mode, configVars, memVars>>
        BY DEF Clear
  <2>3. 0 \in 0..MAX_PARENTHESES
        BY SizesAssumption
  <2> QED BY <1>1, <2>1, <2>2, <2>3 DEF RestOK, configVars, memVars
<1>5. Commit(m)
      BY DEF Clear
<1> HIDE DEF first, empty
<1>6. /\ m1 \in Machines /\ m1.stack_index = 1 /\ m1.error = FALSE
      /\ SameBops(m1, empty)
  <2>1. empty.stack_index < STACK_SIZE
        BY <1>3, Sizes
  <2> QED BY <1>2, <1>3, <2>1, StackPushSound
<1> HIDE DEF m1
<1>7. Sound(m1)
      BY <1>3, <1>6 DEF Sound, SameBops
<1>8. Sound(m) /\ SameBops(m, m1)
      BY <1>7, DisplaySound
<1>9. m.bop_stack_index = 0 /\ m.bin_op_was_entered = FALSE
      BY <1>3, <1>6, <1>8 DEF SameBops
<1> HIDE DEF m
<1> QED BY <1>4, <1>5, <1>8, <1>9, CommitNoBops

LEMMA SetModeInv ==
  ASSUME Inv, NEW best \in BestIntegers, SetMode(best)
  PROVE  Inv'
<1> DEFINE m0  == [Machine EXCEPT !.bin_op_was_entered = FALSE]
           m   == OpEquals(m0)
           top == StackTop(m)
<1>1. ConfigOK /\ RestOK /\ Sound(Machine) /\ Runnable(Machine)
      BY InvMachine DEF SetMode
<1>2. Sound(m0) /\ Runnable(m0) /\ Kept(m0) /\ m0.bin_op_was_entered = FALSE
      BY <1>1 DEF Sound, Machines, Runnable, Kept
<1> HIDE DEF m0
<1>3. Sound(m) /\ m.bop_stack_index = 0 /\ m.bin_op_was_entered = FALSE
      BY <1>1, <1>2, OpEqualsSound
<1>4. m \in Machines /\ StackPeek(m) = m
      BY <1>3, StackPeekSound, IndexTypes DEF Sound
<1>5. Commit(m)
      BY <1>4 DEF SetMode, EvaluateOutstanding, m0
<1> HIDE DEF m
<1>6. top.ival \in IVal /\ save_val \in StackEl
      BY <1>1, <1>4, StackTopType, StackElType DEF RestOK
<1> HIDE DEF top
<1>7. best.uval \in IVal /\ best.negative \in BOOLEAN
      BY InputsAssumption
<1>8. save_val' \in StackEl /\ calc_mode' \in Mode /\ integer_width' \in Width
  <2>1. CASE calc_mode = "integer"
    <3>1. /\ calc_mode' = "float"
          /\ save_val' = [save_val EXCEPT !.fval =
                            IntToFloat(top.ival, integer_width, use_unsigned)]
          /\ integer_width' = integer_width
          BY <2>1 DEF SetMode, EvaluateOutstanding, m, m0, top
    <3>2. IntToFloat(top.ival, integer_width, use_unsigned) \in FVal
          BY <1>1, <1>6, OperationsClosed DEF ConfigOK
    <3> QED BY <3>1, <3>2, <1>1, <1>6 DEF StackEl, ConfigOK, Mode
  <2>2. CASE calc_mode # "integer"
    <3>1. /\ calc_mode' = "integer"
          /\ save_val' = [save_val EXCEPT !.ival = IF best.ok THEN best.uval ELSE IZero]
          /\ integer_width' = IF best.ok
                              THEN ChangedWidth(best.uval, best.negative, integer_width)
                              ELSE integer_width
          BY <2>2 DEF SetMode
    <3>2. ChangedWidth(best.uval, best.negative, integer_width) \in Width
          BY <1>1, <1>7, OperationsClosed DEF ConfigOK
    <3>3. (IF best.ok THEN best.uval ELSE IZero) \in IVal
          BY <1>7, InputsAssumption
    <3> QED BY <3>1, <3>2, <3>3, <1>1, <1>6 DEF StackEl, ConfigOK, Mode
  <2> QED BY <2>1, <2>2
<1>9. RestOK'
  <2>1. /\ num_parentheses' = 0 /\ paren_allowed' = TRUE
        /\ init_from_save_val' = TRUE /\ ready' = FALSE
        /\ UNCHANGED <<memVars, use_unsigned, allow_repeated_equals>>
        BY DEF SetMode
  <2>2. 0 \in 0..MAX_PARENTHESES
        BY SizesAssumption
  <2> QED BY <1>1, <1>8, <2>1, <2>2 DEF RestOK, memVars
<1> QED BY <1>3, <1>5, <1>9, CommitNoBops

LEMMA SetRepeatedEqualsInv ==
  ASSUME Inv, SetRepeatedEquals
  PROVE  Inv'
<1> USE DEF SetRepeatedEquals, machineVars, modeVars, parenVars, memVars
<1>1. TypeOK'
      BY DEF Inv, TypeOK
<1>2. OperatorOrder'
      BY DEF Inv, OperatorOrder
<1>3. NoError' /\ StackShape' /\ NoNullFunction'
      BY DEF Inv, NoError, StackShape, NoNullFunction
<1> QED BY <1>1, <1>2, <1>3 DEF Inv

LEMMA SetUseUnsignedInv ==
  ASSUME Inv, SetUseUnsigned
  PROVE  Inv'
<1> DEFINE m == MaskStackAll(Machine, integer_width)
<1>1. ConfigOK /\ RestOK /\ Sound(Machine)
      BY InvMachine DEF SetUseUnsigned
<1>2. Sound(m) /\ SameBops(m, Machine)
      BY <1>1, MaskStackAllSound DEF ConfigOK
<1>3. RestOK' /\ calc_mode' = calc_mode /\ num_parentheses' = num_parentheses
      BY <1>1 DEF SetUseUnsigned, RestOK, modeVars, parenVars, memVars
<1>4. num_parentheses' >= num_parentheses
      BY <1>1, <1>3, SizesAssumption DEF RestOK
<1>5. Commit(m)
      BY DEF SetUseUnsigned
<1> HIDE DEF m
<1> QED BY <1>2, <1>3, <1>4, <1>5, CommitSameBops

LEMMA SetIntegerWidthInv ==
  ASSUME Inv, NEW width \in Width, SetIntegerWidth(width)
  PROVE  Inv'
<1> DEFINE f  == [v \in IVal |-> GetSigned(v, integer_width)]
           m1 == IF use_unsigned THEN Machine ELSE MapStack(Machine, f)
           m  == MaskStackAll(m1, width)
<1>1. ConfigOK /\ RestOK /\ Sound(Machine)
      BY InvMachine DEF SetIntegerWidth
<1>2. f \in [IVal -> IVal]
      BY <1>1, OperationsClosed DEF ConfigOK
<1>3. Sound(m1) /\ SameBops(m1, Machine)
  <2> HIDE DEF f
  <2>1. Sound(MapStack(Machine, f)) /\ SameBops(MapStack(Machine, f), Machine)
        BY <1>1, <1>2, MapStackSound
  <2>2. SameBops(Machine, Machine)
        BY DEF SameBops
  <2> QED BY <1>1, <2>1, <2>2
<1>4. Commit(m)
      BY DEF SetIntegerWidth
<1> HIDE DEF m1
<1>5. Sound(m) /\ SameBops(m, Machine)
      BY <1>3, MaskStackAllSound DEF SameBops
<1>6. RestOK' /\ calc_mode' = calc_mode /\ num_parentheses' = num_parentheses
      BY <1>1 DEF SetIntegerWidth, RestOK, modeVars, parenVars, memVars
<1>7. num_parentheses' >= num_parentheses
      BY <1>1, <1>6, SizesAssumption DEF RestOK
<1> HIDE DEF m
<1> QED BY <1>4, <1>5, <1>6, <1>7, CommitSameBops

LEMMA StepInv == Inv /\ [Next]_vars => Inv'
<1> SUFFICES ASSUME Inv, [Next]_vars PROVE Inv'
    OBVIOUS
<1>1. IZero \in IVal /\ FZero \in FVal /\ ArgI \subseteq IVal /\ ArgF \subseteq FVal
      BY InputsAssumption
<1>2. CASE MemoryWrite
  <2>1. PICK k \in Memory : MemoryStore(k) \/ MemoryPlus(k)
        BY <1>2 DEF MemoryWrite
  <2> QED BY <2>1, MemoryStoreInv, MemoryPlusInv
<1>3. CASE OtherCall
  <2>1. CASE \E v \in ArgI : calc_mode = "integer" /\ GiveArg(v, FZero)
        BY <1>1, <2>1, GiveArgInv
  <2>2. CASE \E v \in ArgF : calc_mode = "float" /\ GiveArg(IZero, v)
        BY <1>1, <2>2, GiveArgInv
  <2>3. CASE Peek
        BY <2>3, PeekInv
  <2>4. CASE Equals
        BY <2>4, EqualsInv
  <2>5. CASE \E cop \in BinaryOps : BinaryOp(cop)
        BY <2>5, BinaryOpInv
  <2>6. CASE \E cop \in IntUnaryOps \cup FloatUnaryOps : UnaryOp(cop)
        BY <2>6, UnaryOpInv
  <2>7. CASE \E bitmask \in BitMasks : BitXor(bitmask)
        BY <2>7, BitXorInv
  <2>8. CASE ParenthesesLeft
        BY <2>8, ParenthesesLeftInv
  <2>9. CASE ParenthesesRight
        BY <2>9, ParenthesesRightInv
  <2>10. CASE \E k \in Memory : MemoryRecall(k)
        BY <2>10, MemoryRecallInv
  <2>11. CASE EnterPi
    <3>1. FloatEl(Pi) \in StackEl
          BY InputsAssumption DEF FloatEl, StackEl
    <3> QED BY <2>11, <3>1, EnterInv DEF EnterPi, Pressed
  <2>12. CASE EnterRand
    <3>1. PICK r \in RandVals : Enter(FloatEl(r))
          BY <2>12 DEF EnterRand
    <3>2. FloatEl(r) \in StackEl
          BY InputsAssumption DEF FloatEl, StackEl
    <3> QED BY <2>12, <3>1, <3>2, EnterInv DEF EnterRand, Pressed
  <2>13. CASE calc_mode = "integer" /\ EnterIntMin
    <3>1. IntEl(IntMin(integer_width)) \in StackEl
          BY InvMachine, InputsAssumption, OperationsClosed DEF ConfigOK, IntEl, StackEl
    <3> QED BY <2>13, <3>1, EnterInv DEF EnterIntMin, Pressed
  <2>14. CASE Clear
        BY <2>14, ClearInv
  <2>15. CASE \E best \in BestIntegers : SetMode(best)
        BY <2>15, SetModeInv
  <2>16. CASE SetRepeatedEquals
        BY <2>16, SetRepeatedEqualsInv
  <2>17. CASE calc_mode = "integer" /\ SetUseUnsigned
        BY <2>17, SetUseUnsignedInv
  <2>18. CASE \E width \in Width : calc_mode = "integer" /\ SetIntegerWidth(width)
        BY <2>18, SetIntegerWidthInv
  <2> QED BY <1>3, <2>1, <2>2, <2>3, <2>4, <2>5, <2>6, <2>7, <2>8, <2>9, <2>10, <2>11,
             <2>12, <2>13, <2>14, <2>15, <2>16, <2>17, <2>18 DEF OtherCall
<1>4. CASE UNCHANGED vars
  <2> USE <1>4 DEF vars, machineVars, modeVars, configVars, parenVars, memVars
  <2>1. TypeOK'
        BY DEF Inv, TypeOK
  <2>2. OperatorOrder'
        BY DEF Inv, OperatorOrder
  <2>3. NoError' /\ StackShape' /\ NoNullFunction'
        BY DEF Inv, NoError, StackShape, NoNullFunction
  <2> QED BY <2>1, <2>2, <2>3 DEF Inv
<1> QED BY <1>2, <1>3, <1>4 DEF Next

-----------------------------------------------------------------------------
(* Theorems                                                                 *)

\* The five invariants together hold in every reachable state.
THEOREM EngineInvariant == Spec => []Inv
BY InitInv, StepInv, PTL DEF Spec

\* Every variable keeps its type: the two indexes stay within their arrays for
\* any depth of brackets, any width and any values (calc.c:34-106).
THEOREM TypeCorrect == Spec => []TypeOK
<1>1. Inv => TypeOK
      BY DEF Inv
<1> QED BY <1>1, EngineInvariant, PTL

\* calc_error is unreachable: no call pops an empty stack, overruns STACK_SIZE or
\* BOP_STACK_SIZE, or calls a NULL function, whatever was called before it.
THEOREM ErrorFree == Spec => []NoError
<1>1. Inv => NoError
      BY DEF Inv
<1> QED BY <1>1, EngineInvariant, PTL

\* Each pending operator has its first argument, and there is always a value to
\* show (the test of bin_op_common and process_bin_ops rely on both).
THEOREM StackShaped == Spec => []StackShape
<1>1. Inv => StackShape
      BY DEF Inv
<1> QED BY <1>1, EngineInvariant, PTL

\* Pending operators bind ever tighter and none is left of a closed bracket.
THEOREM OperatorsOrdered == Spec => []OperatorOrder
<1>1. Inv => OperatorOrder
      BY DEF Inv
<1> QED BY <1>1, EngineInvariant, PTL

\* No operator outlives the mode in which it has a function.
THEOREM FunctionsExist == Spec => []NoNullFunction
<1>1. Inv => NoNullFunction
      BY DEF Inv
<1> QED BY <1>1, EngineInvariant, PTL

-----------------------------------------------------------------------------
(* The arguments on the stack are masked to the integer width, whatever was *)
(* pressed: LiveMasked.  A value in use is a value that was pushed, or the  *)
(* result of an operator.                                                   *)

\* The arguments in use of m are masked to the width w.
ArgsMasked(m, w) ==
  \A i \in 0..m.stack_index - 1 : MaskWidth(m.stack[i].ival, w) = m.stack[i].ival

\* m has the arguments of m1.
SameArgs(m, m1) == m.stack = m1.stack /\ m.stack_index = m1.stack_index

LEMMA SameArgsMasked ==
  ASSUME NEW m, NEW m1, NEW w, ArgsMasked(m1, w), SameArgs(m, m1)
  PROVE  ArgsMasked(m, w)
BY DEF ArgsMasked, SameArgs

-----------------------------------------------------------------------------
(* The helpers on the stack                                                 *)

LEMMA PushMasked ==
  ASSUME NEW m \in Machines, NEW el \in StackEl, m.stack_index < STACK_SIZE,
         NEW w, ArgsMasked(m, w), MaskWidth(el.ival, w) = el.ival
  PROVE  ArgsMasked(StackPush(m, el), w)
<1> DEFINE h == [m EXCEPT !.stack[m.stack_index] = el, !.stack_index = @ + 1]
           n == StackPush(m, el)
           k == m.stack_index
<1>1. k \in Nat /\ m.stack \in [0..STACK_SIZE - 1 -> StackEl]
      BY IndexTypes DEF Machines
<1>2. h.stack = [m.stack EXCEPT ![k] = el] /\ h.stack_index = k + 1
      BY DEF Machines
<1>3. n = [h EXCEPT !.pushed = Append(@, el)]
      BY DEF StackPush, HistoryUpdate
<1>4. n.stack = h.stack /\ n.stack_index = h.stack_index
  <2>1. h \in [DOMAIN h -> {h[x] : x \in DOMAIN h}] /\ DOMAIN h = DOMAIN m
        OBVIOUS
  <2>2. "stack" \in DOMAIN m /\ "stack_index" \in DOMAIN m
        BY DEF Machines
  <2> HIDE DEF h
  <2> QED BY <1>3, <2>1, <2>2
<1> HIDE DEF h, n
<1> SUFFICES ASSUME NEW i \in 0..n.stack_index - 1
             PROVE  MaskWidth(n.stack[i].ival, w) = n.stack[i].ival
    BY DEF ArgsMasked, n
<1>5. i \in 0..k /\ i \in 0..STACK_SIZE - 1
      BY <1>1, <1>2, <1>4, Sizes
<1>6. n.stack[i] = IF i = k THEN el ELSE m.stack[i]
      BY <1>1, <1>2, <1>4, <1>5
<1>7. CASE i = k
      BY <1>6, <1>7
<1>8. CASE i # k
  <2>1. i \in 0..k - 1
        BY <1>1, <1>5, <1>8
  <2> QED BY <1>6, <1>8, <2>1 DEF ArgsMasked
<1> QED BY <1>7, <1>8

LEMMA PopMasked ==
  ASSUME NEW m \in Machines, m.stack_index > 0, NEW w, ArgsMasked(m, w)
  PROVE  ArgsMasked(StackPop(m), w)
<1> DEFINE n == StackPop(m)
<1>1. n.stack = m.stack /\ n.stack_index = m.stack_index - 1 /\ m.stack_index \in Nat
      BY IndexTypes DEF StackPop, Machines
<1>2. 0..n.stack_index - 1 \subseteq 0..m.stack_index - 1
      BY <1>1
<1> HIDE DEF n
<1>3. ArgsMasked(n, w)
      BY <1>1, <1>2 DEF ArgsMasked
<1> QED BY <1>3 DEF n

LEMMA TopMasked ==
  ASSUME NEW m \in Machines, m.stack_index > 0, NEW w, ArgsMasked(m, w)
  PROVE  MaskWidth(StackTop(m).ival, w) = StackTop(m).ival
<1>1. m.stack_index - 1 \in 0..m.stack_index - 1
      BY IndexTypes
<1>2. StackTop(m) = m.stack[m.stack_index - 1]
      BY DEF StackTop
<1> QED BY <1>1, <1>2, Zenon DEF ArgsMasked

LEMMA DisplayMasked ==
  ASSUME NEW m, Sound(m), NEW w, ArgsMasked(m, w)
  PROVE  ArgsMasked(RequestDisplayUpdate(m), w)
<1> DEFINE n == RequestDisplayUpdate(m)
<1>1. m \in Machines /\ m.stack_index > 0
      BY IndexTypes DEF Sound
<1>2. n = [m EXCEPT !.shown = [el |-> StackTop(m), cop |-> TopOp(m)]]
      BY <1>1, StackPeekSound DEF RequestDisplayUpdate
<1>3. SameArgs(n, m)
      BY <1>1, <1>2 DEF Machines, SameArgs
<1> HIDE DEF n
<1> QED BY <1>3, SameArgsMasked DEF n

-----------------------------------------------------------------------------
(* The operators                                                            *)

\* The first argument is masked; the second need not be, as [=] may repeat one
\* that was popped before the width changed.
LEMMA ApplyBopMasked ==
  ASSUME ConfigOK, NEW cop, HasBop(cop, calc_mode),
         NEW a \in StackEl, NEW b \in StackEl,
         MaskWidth(a.ival, integer_width) = a.ival
  PROVE  MaskWidth(ApplyBop(cop, a, b).ival, integer_width) = ApplyBop(cop, a, b).ival
<1>1. cop \in BinaryOps /\ integer_width \in Width /\ use_unsigned \in BOOLEAN
      BY HasBopType DEF ConfigOK
<1>2. a.ival \in IVal /\ b.ival \in IVal
      BY StackElType
<1>3. CASE calc_mode = "integer"
  <2> DEFINE r == IopBinary(cop, a.ival, b.ival, integer_width, use_unsigned)
  <2>1. HasIop(cop)
        BY <1>3 DEF HasBop
  <2>2. MaskWidth(r, integer_width) = r
        BY <1>1, <1>2, <2>1, OperationsMasked
  <2>3. ApplyBop(cop, a, b).ival = r
        BY <1>3 DEF ApplyBop, IntEl
  <2> QED BY <2>2, <2>3, Zenon
<1>4. CASE calc_mode # "integer"
  <2>1. ApplyBop(cop, a, b).ival = IZero
        BY <1>4 DEF ApplyBop, FloatEl
  <2> QED BY <1>1, <2>1, OperationsMasked
<1> QED BY <1>3, <1>4

LEMMA ApplyUopMasked ==
  ASSUME ConfigOK, NEW cop, HasUop(cop, calc_mode), NEW a \in StackEl,
         MaskWidth(a.ival, integer_width) = a.ival
  PROVE  MaskWidth(ApplyUop(cop, a).ival, integer_width) = ApplyUop(cop, a).ival
<1>1. integer_width \in Width /\ use_unsigned \in BOOLEAN /\ a.ival \in IVal
      BY StackElType DEF ConfigOK
<1>2. CASE calc_mode = "integer"
  <2> DEFINE r == IopUnary(cop, a.ival, integer_width, use_unsigned)
  <2>1. cop \in IntUnaryOps
        BY <1>2 DEF HasUop
  <2>2. MaskWidth(r, integer_width) = r
        BY <1>1, <2>1, OperationsMasked
  <2>3. ApplyUop(cop, a).ival = r
        BY <1>2 DEF ApplyUop, IntEl
  <2> QED BY <2>2, <2>3, Zenon
<1>3. CASE calc_mode # "integer"
  <2>1. ApplyUop(cop, a).ival = IZero
        BY <1>3 DEF ApplyUop, FloatEl
  <2> QED BY <1>1, <2>1, OperationsMasked
<1> QED BY <1>2, <1>3

LEMMA EvaluateMasked ==
  ASSUME ConfigOK, NEW m \in Machines, m.stack_index >= 2,
         NEW cop, HasBop(cop, calc_mode), ArgsMasked(m, integer_width)
  PROVE  ArgsMasked(Evaluate(m, cop), integer_width)
<1> DEFINE m1 == StackPop(m)
           m2 == StackPop(m1)
           a  == StackTop(m1)
           el == ApplyBop(cop, a, StackTop(m))
<1>1. m1 \in Machines /\ m1.stack_index = m.stack_index - 1 /\ ArgsMasked(m1, integer_width)
      BY StackPopSound, PopMasked, IndexTypes
<1>2. m1.stack_index > 0
      BY <1>1, IndexTypes
<1>3. a \in StackEl /\ StackTop(m) \in StackEl /\ MaskWidth(a.ival, integer_width) = a.ival
      BY <1>1, <1>2, StackTopType, TopMasked
<1> HIDE DEF m1, a
<1>4. m2 \in Machines /\ m2.stack_index = m1.stack_index - 1 /\ ArgsMasked(m2, integer_width)
      BY <1>1, <1>2, StackPopSound, PopMasked
<1>5. el \in StackEl /\ MaskWidth(el.ival, integer_width) = el.ival
      BY <1>3, ApplyBopType, ApplyBopMasked
<1>6. m2.stack_index < STACK_SIZE
      BY <1>1, <1>4, Sizes, IndexTypes
<1> HIDE DEF m2, el
<1>7. ArgsMasked(StackPush(m2, el), integer_width)
      BY <1>4, <1>5, <1>6, PushMasked
<1>8. Evaluate(m, cop) = StackPush(m2, el)
      BY DEF Evaluate, m1, m2, a, el
<1> QED BY <1>7, <1>8

LEMMA BinOpStepMasked ==
  ASSUME ConfigOK, NEW m, Sound(m), Runnable(m), NEW priority, ~Stops(m, priority),
         ArgsMasked(m, integer_width)
  PROVE  ArgsMasked(BinOpStep(m, priority), integer_width)
<1> DEFINE m1  == BopPop(m)
           top == m.bop_stack[m1.bop_stack_index]
           m2  == StackPush(StackPeek(m1), StackTop(m1))
           n   == BinOpStep(m, priority)
<1>0. m \in Machines /\ m.bop_stack_index > 0 /\ m.bop_stack_index \in Nat
      BY IndexTypes DEF Sound, Stops
<1>1. /\ m1 \in Machines
      /\ m1.bop_stack_index = m.bop_stack_index - 1
      /\ m1.stack_index = m.stack_index
      BY <1>0, BopPopSound
<1>2. m1.stack_index \in Nat /\ m1.bop_stack_index \in Nat /\ m1.stack_index >= 1
      BY <1>1, IndexTypes DEF Sound
<1>3. HasBop(top.cop, calc_mode)
      BY <1>0, <1>1, <1>2 DEF Runnable
<1>4. ArgsMasked(m1, integer_width)
  <2>1. SameArgs(m1, m)
        BY <1>0 DEF BopPop, SameArgs, Machines
  <2> HIDE DEF m1
  <2> QED BY <2>1, SameArgsMasked
<1>5. top = m.bop_stack[m.bop_stack_index - 1]
      BY <1>1
<1>6. n = IF m1.stack_index < m1.bop_stack_index + 2
          THEN IF allow_repeated_equals THEN Evaluate(m2, top.cop) ELSE StackPop(m2)
          ELSE Evaluate(m1, top.cop)
      BY <1>5 DEF BinOpStep, Stops
<1>7. \/ m1.stack_index = m1.bop_stack_index + 1
      \/ m1.stack_index = m1.bop_stack_index + 2
      BY <1>0, <1>1, <1>2 DEF Sound
<1> HIDE DEF m1, top, n
<1>8. CASE m1.stack_index = m1.bop_stack_index + 1
  <2>1. StackPeek(m1) = m1 /\ StackTop(m1) \in StackEl
        /\ MaskWidth(StackTop(m1).ival, integer_width) = StackTop(m1).ival
        BY <1>1, <1>2, <1>4, StackPeekSound, StackTopType, TopMasked
  <2>2. m1.stack_index < STACK_SIZE
        BY <1>8, <1>0, <1>1, Sizes, SMTT(60) DEF Machines
  <2>3. m2 \in Machines /\ m2.stack_index = m1.stack_index + 1
        BY <1>1, <2>1, <2>2, StackPushSound
  <2>4. ArgsMasked(m2, integer_width)
        BY <1>1, <1>4, <2>1, <2>2, PushMasked
  <2> HIDE DEF m2
  <2>5. ArgsMasked(Evaluate(m2, top.cop), integer_width)
        BY <1>2, <1>3, <2>3, <2>4, EvaluateMasked
  <2>6. ArgsMasked(StackPop(m2), integer_width)
        BY <1>2, <2>3, <2>4, PopMasked
  <2>7. n \in {Evaluate(m2, top.cop), StackPop(m2)}
        BY <1>2, <1>6, <1>8
  <2> QED BY <2>5, <2>6, <2>7 DEF n
<1>9. CASE m1.stack_index = m1.bop_stack_index + 2
  <2>1. n = Evaluate(m1, top.cop)
        BY <1>2, <1>6, <1>9
  <2>2. m1.stack_index >= 2
        BY <1>2, <1>9
  <2> QED BY <1>1, <1>3, <1>4, <2>1, <2>2, EvaluateMasked DEF n
<1> QED BY <1>7, <1>8, <1>9

LEMMA ProcessBinOpsMasked ==
  ASSUME ConfigOK, NEW m, Sound(m), Runnable(m), NEW priority \in Nat,
         ArgsMasked(m, integer_width)
  PROVE  ArgsMasked(ProcessBinOps(m, priority), integer_width)
<1> DEFINE k == m.bop_stack_index
           Turn(n) == /\ Sound(n) /\ n.bop_stack = m.bop_stack /\ n.bop_stack_index <= k
                      /\ ArgsMasked(n, integer_width)
<1>1. k \in Nat /\ k <= BOP_STACK_SIZE /\ BOP_STACK_SIZE \in Nat
      BY IndexTypes, Sizes DEF Sound
<1>2. PICK f : /\ IsRun(f, m, priority, BOP_STACK_SIZE)
               /\ ProcessBinOps(m, priority) = f[k]
      BY ProcessBinOpsRun
<1> DEFINE S == {i \in Nat : i <= k => Turn(f[i])}
<1>3. 0 \in S
  <2>1. f[0] = m
        BY <1>1, <1>2 DEF IsRun
  <2> QED BY <2>1, <1>1
<1>4. ASSUME NEW i \in Nat, i \in S PROVE i + 1 \in S
  <2> SUFFICES ASSUME i + 1 <= k PROVE Turn(f[i + 1])
      BY <1>1
  <2> DEFINE n == f[i]
  <2>1. Turn(n)
        BY <1>4, <1>1
  <2>2. f[i + 1] = BinOpStep(n, priority)
    <3>1. i + 1 \in 0..BOP_STACK_SIZE /\ i + 1 # 0 /\ (i + 1) - 1 = i
          BY <1>1
    <3> QED BY <3>1, <1>2, Zenon DEF IsRun
  <2>3. n.bop_stack_index \in Nat
        BY <2>1, IndexTypes DEF Sound
  <2> HIDE DEF n
  <2>4. CASE Stops(n, priority)
    <3>1. BinOpStep(n, priority) = n
          BY <2>4 DEF BinOpStep, Stops, BopPop
    <3> QED BY <3>1, <2>1, <2>2
  <2>5. CASE ~Stops(n, priority)
    <3>1. Runnable(n)
          BY <2>1, <2>3, <1>1 DEF Runnable
    <3>2. ArgsMasked(BinOpStep(n, priority), integer_width)
          BY <2>1, <2>5, <3>1, BinOpStepMasked
    <3>3. LET n1 == BinOpStep(n, priority)
          IN  /\ Sound(n1) /\ n1.bop_stack = n.bop_stack
              /\ n1.bop_stack_index = n.bop_stack_index - 1
          BY <2>1, <2>5, <3>1, BinOpStepSound
    <3> QED BY <2>1, <2>2, <2>3, <3>2, <3>3, <1>1
  <2> QED BY <2>4, <2>5
<1>5. k \in S
  <2> HIDE DEF S
  <2> QED BY <1>1, <1>3, <1>4, Induction
<1> QED BY <1>1, <1>2, <1>5

\* A new argument is masked as it comes.
LEMMA NewArgMasked ==
  ASSUME ConfigOK, NEW m, Sound(m), NEW ival \in IVal, NEW fval \in FVal,
         ArgsMasked(m, integer_width)
  PROVE  ArgsMasked(NewArg(m, ival, fval), integer_width)
<1> DEFINE el == [ival |-> MaskWidth(ival, integer_width), fval |-> fval]
           m1 == IF m.stack_index > m.bop_stack_index THEN StackPop(m) ELSE m
<1>1. el \in StackEl
      BY OperationsClosed DEF ConfigOK, StackEl
<1>2. MaskWidth(el.ival, integer_width) = el.ival
      BY OperationsMasked DEF ConfigOK
<1>3. m1 \in Machines /\ m1.stack_index = m.bop_stack_index /\ SameBops(m1, m)
      BY StackPopSound, IndexTypes DEF Sound, SameBops
<1>4. ArgsMasked(m1, integer_width)
  <2>1. CASE m.stack_index > m.bop_stack_index
        BY <2>1, PopMasked, IndexTypes DEF Sound
  <2>2. CASE ~(m.stack_index > m.bop_stack_index)
        BY <2>2
  <2> QED BY <2>1, <2>2
<1>5. m1.stack_index < STACK_SIZE
      BY <1>3, IndexTypes, Sizes DEF SameBops
<1>6. NewArg(m, ival, fval) = StackPush(m1, el)
      BY DEF NewArg
<1> HIDE DEF m1, el
<1> QED BY <1>1, <1>2, <1>3, <1>4, <1>5, <1>6, PushMasked

LEMMA ReplaceTopMasked ==
  ASSUME NEW m, Sound(m), NEW result \in StackEl,
         NEW w, ArgsMasked(m, w), MaskWidth(result.ival, w) = result.ival
  PROVE  ArgsMasked(ReplaceTop(m, result), w)
<1> DEFINE m1 == StackPop(m)
           m2 == IF m1.stack_index < m1.bop_stack_index
                 THEN StackPush(m1, StackTop(m)) ELSE m1
<1>1. m \in Machines /\ m.stack_index > 0
      BY IndexTypes DEF Sound
<1>2. /\ m1 \in Machines /\ m1.stack_index = m.stack_index - 1 /\ SameBops(m1, m)
      /\ ArgsMasked(m1, w)
      BY <1>1, StackPopSound, PopMasked
<1>3. StackTop(m) \in StackEl /\ MaskWidth(StackTop(m).ival, w) = StackTop(m).ival
      BY <1>1, StackTopType, TopMasked
<1>4. m1.stack_index < STACK_SIZE
      BY <1>1, <1>2, IndexTypes, Sizes
<1> HIDE DEF m1
<1>5. m2 \in Machines /\ ArgsMasked(m2, w) /\ m2.stack_index = m.bop_stack_index
  <2>1. CASE m1.stack_index < m1.bop_stack_index
    <3>1. LET n == StackPush(m1, StackTop(m))
          IN  n \in Machines /\ n.stack_index = m1.stack_index + 1 /\ ArgsMasked(n, w)
          BY <1>2, <1>3, <1>4, StackPushSound, PushMasked
    <3> QED BY <2>1, <3>1, <1>1, <1>2, IndexTypes DEF Sound, SameBops
  <2>2. CASE ~(m1.stack_index < m1.bop_stack_index)
        BY <2>2, <1>1, <1>2, IndexTypes DEF Sound, SameBops
  <2> QED BY <2>1, <2>2
<1>6. m2.stack_index < STACK_SIZE
      BY <1>1, <1>5, IndexTypes, Sizes
<1>7. ReplaceTop(m, result) = StackPush(m2, result)
      BY DEF ReplaceTop, m1
<1> HIDE DEF m2
<1> QED BY <1>5, <1>6, <1>7, PushMasked

\* Repeated evaluation leaves the result of an operator in the place of its first
\* argument, whose second lies popped and unmasked behind it.
LEMMA OpEqualsMasked ==
  ASSUME ConfigOK, NEW m, Sound(m), Runnable(m), Kept(m), ArgsMasked(m, integer_width)
  PROVE  ArgsMasked(OpEquals(m), integer_width)
<1>1. m \in Machines /\ m.stack_index \in Nat /\ m.bop_stack_index \in Nat
      BY IndexTypes DEF Sound
<1>2. CASE m.bop_stack_index > 0
  <2> DEFINE n == ProcessBinOps(m, PRIORITY_ADD_SUB)
  <2>1. Sound(n) /\ ArgsMasked(n, integer_width)
        BY ProcessBinOpsSound, ProcessBinOpsMasked DEF PRIORITY_ADD_SUB
  <2>2. OpEquals(m) = RequestDisplayUpdate(n)
        BY <1>2 DEF OpEquals
  <2> HIDE DEF n
  <2> QED BY <2>1, <2>2, DisplayMasked
<1>3. CASE m.bop_stack_index = 0 /\ m.bin_op_was_entered /\ allow_repeated_equals
  <2> DEFINE result == ApplyBop(m.bop_stack[0].cop, m.stack[0], m.stack[1])
             m1 == [m EXCEPT !.stack[0] = result]
             n  == HistoryUpdate(m1, StackTop(m1))
  <2>1. HasBop(m.bop_stack[0].cop, calc_mode)
        BY <1>3 DEF Kept
  <2>2. m.stack[0] \in StackEl /\ m.stack[1] \in StackEl
        /\ m.stack \in [0..STACK_SIZE - 1 -> StackEl] /\ 0 \in 0..STACK_SIZE - 1
        BY <1>1, Sizes, SizesAssumption DEF Machines
  <2>3. m.stack_index = 1
        BY <1>1, <1>3 DEF Sound
  <2>4. MaskWidth(m.stack[0].ival, integer_width) = m.stack[0].ival
        BY <2>3 DEF ArgsMasked
  <2>5. result \in StackEl /\ MaskWidth(result.ival, integer_width) = result.ival
        BY <2>1, <2>2, <2>4, ApplyBopType, ApplyBopMasked
  <2>6. OpEquals(m) = RequestDisplayUpdate(n)
        BY <1>3, <1>1, <2>1 DEF OpEquals
  <2> HIDE DEF result
  <2>7. /\ m1 \in Machines /\ m1.stack_index = 1 /\ m1.error = m.error /\ SameBops(m1, m)
        /\ m1.stack[0] = result
    <3>1. [m.stack EXCEPT ![0] = result] \in [0..STACK_SIZE - 1 -> StackEl]
          BY <2>5, <2>2
    <3>2. m1.stack = [m.stack EXCEPT ![0] = result]
          BY <1>1 DEF Machines
    <3>3. m1 \in Machines /\ m1.stack_index = m.stack_index /\ m1.error = m.error
          /\ SameBops(m1, m)
          BY <3>1, <1>1 DEF Machines, SameBops
    <3> HIDE DEF m1
    <3> QED BY <3>2, <3>3, <2>2, <2>3
  <2> HIDE DEF m1
  <2>8. /\ n \in Machines /\ n.stack_index = 1 /\ n.error = m.error /\ SameBops(n, m)
        /\ n.stack = m1.stack
    <3>1. Append(m1.pushed, StackTop(m1)) \in Seq(StackEl)
          BY <2>7, StackTopType DEF Machines
    <3> QED BY <3>1, <2>7 DEF HistoryUpdate, Machines, SameBops
  <2> HIDE DEF n
  <2>9. Sound(n)
        BY <2>8, <1>3 DEF Sound, SameBops
  <2>10. ArgsMasked(n, integer_width)
        BY <2>5, <2>7, <2>8 DEF ArgsMasked
  <2> QED BY <2>6, <2>9, <2>10, DisplayMasked
<1>4. CASE m.bop_stack_index = 0 /\ ~(m.bin_op_was_entered /\ allow_repeated_equals)
  <2>1. OpEquals(m) = RequestDisplayUpdate(m)
        BY <1>4 DEF OpEquals
  <2> QED BY <2>1, DisplayMasked
<1> QED BY <1>1, <1>2, <1>3, <1>4

\* A change of sign or width masks every argument in use again.
LEMMA MaskStackAllMasked ==
  ASSUME NEW m, Sound(m), NEW width \in Width
  PROVE  ArgsMasked(MaskStackAll(m, width), width)
<1> DEFINE f == [v \in IVal |-> MaskWidth(v, width)]
           k == MapStack(m, f)
           n == MaskStackAll(m, width)
<1>1. f \in [IVal -> IVal]
      BY OperationsClosed
<1>2. Sound(k) /\ k.stack_index = m.stack_index
  <2> HIDE DEF f
  <2> QED BY <1>1, MapStackSound
<1>3. m \in Machines /\ m.stack \in [0..STACK_SIZE - 1 -> StackEl]
      /\ m.stack_index \in Nat /\ m.stack_index <= STACK_SIZE
      BY IndexTypes DEF Sound, Machines
<1>4. ASSUME NEW i \in 0..m.stack_index - 1
      PROVE  MaskWidth(k.stack[i].ival, width) = k.stack[i].ival
  <2>1. i \in 0..STACK_SIZE - 1 /\ i < m.stack_index
        BY <1>3, Sizes
  <2>2. m.stack[i] \in StackEl
        BY <1>3, <2>1
  <2>3. m.stack[i].ival \in IVal
        BY <2>2, StackElType
  <2>4. k.stack = [j \in 0..STACK_SIZE - 1 |->
                     IF j < m.stack_index THEN [m.stack[j] EXCEPT !.ival = f[@]] ELSE m.stack[j]]
        BY <1>3 DEF MapStack, Machines
  <2>5. k.stack[i] = [m.stack[i] EXCEPT !.ival = f[@]]
        BY <2>1, <2>4
  <2>6. k.stack[i].ival = MaskWidth(m.stack[i].ival, width)
        BY <2>2, <2>3, <2>5 DEF StackEl
  <2> QED BY <2>3, <2>6, OperationsMasked
<1>5. n = HistoryUpdate(StackPeek(k), StackTop(k))
      BY DEF MaskStackAll
<1> HIDE DEF k, n
<1>6. k \in Machines /\ StackPeek(k) = k
      BY <1>2, StackPeekSound, IndexTypes DEF Sound
<1>7. SameArgs(n, k)
      BY <1>5, <1>6 DEF HistoryUpdate, Machines, SameArgs
<1>8. ArgsMasked(k, width)
      BY <1>2, <1>4 DEF ArgsMasked
<1>9. ArgsMasked(n, width)
      BY <1>7, <1>8, SameArgsMasked
<1> QED BY <1>9 DEF n

-----------------------------------------------------------------------------
(* Every call preserves it                                                  *)

LEMMA CommitMasked ==
  ASSUME NEW m, Commit(m), ArgsMasked(m, integer_width')
  PROVE  LiveMasked'
BY DEF Commit, ArgsMasked, LiveMasked

LEMMA MachineMasked ==
  ASSUME Inv, LiveMasked
  PROVE  ArgsMasked(Machine, integer_width) /\ ConfigOK /\ RestOK
         /\ Runnable(Machine) /\ Kept(Machine) /\ (ready => Sound(Machine))
<1>1. ArgsMasked(Machine, integer_width)
      BY DEF LiveMasked, ArgsMasked, Machine
<1> QED BY <1>1, InvMachine

\* Entering a number and showing it.
LEMMA EnterMasked ==
  ASSUME Inv, LiveMasked, ready, NEW ival \in IVal, NEW fval \in FVal,
         Commit(RequestDisplayUpdate(NewArg(Machine, ival, fval))),
         integer_width' = integer_width
  PROVE  LiveMasked'
<1> DEFINE m1 == NewArg(Machine, ival, fval)
           m  == RequestDisplayUpdate(m1)
<1>1. Sound(m1) /\ ArgsMasked(m1, integer_width)
      BY MachineMasked, NewArgSound, NewArgMasked
<1> HIDE DEF m1
<1>2. ArgsMasked(m, integer_width)
      BY <1>1, DisplayMasked
<1> QED BY <1>2, CommitMasked DEF m1

\* Replacing the value on top, as a unary operator does.
LEMMA ReplaceMasked ==
  ASSUME Inv, LiveMasked, ready, NEW result \in StackEl,
         MaskWidth(result.ival, integer_width) = result.ival,
         Commit(RequestDisplayUpdate(ReplaceTop(Machine, result))),
         integer_width' = integer_width
  PROVE  LiveMasked'
<1> DEFINE m1 == ReplaceTop(Machine, result)
           m  == RequestDisplayUpdate(m1)
<1>1. Sound(m1) /\ ArgsMasked(m1, integer_width)
      BY MachineMasked, ReplaceTopSound, ReplaceTopMasked
<1> HIDE DEF m1
<1>2. ArgsMasked(m, integer_width)
      BY <1>1, DisplayMasked
<1> QED BY <1>2, CommitMasked DEF m1

\* What M+ and a switch of mode start with.
LEMMA OutstandingMasked ==
  ASSUME Inv, LiveMasked, ready
  PROVE  LET m == EvaluateOutstanding
         IN  Sound(m) /\ StackPeek(m) = m /\ ArgsMasked(m, integer_width)
<1> DEFINE m0 == [Machine EXCEPT !.bin_op_was_entered = FALSE]
           m  == OpEquals(m0)
<1>1. Sound(Machine) /\ Machine \in Machines
      BY MachineMasked DEF Sound
<1>2. Sound(m0) /\ Runnable(m0) /\ Kept(m0) /\ SameArgs(m0, Machine)
      BY <1>1, MachineMasked DEF Sound, Machines, Runnable, Kept, SameArgs
<1> HIDE DEF m0
<1>3. Sound(m) /\ ArgsMasked(m, integer_width)
      BY <1>2, MachineMasked, SameArgsMasked, OpEqualsSound, OpEqualsMasked
<1> HIDE DEF m
<1>4. StackPeek(m) = m
      BY <1>3, StackPeekSound, IndexTypes DEF Sound
<1> QED BY <1>3, <1>4 DEF EvaluateOutstanding, m, m0

LEMMA BinaryOpMasked ==
  ASSUME Inv, LiveMasked, NEW cop \in BinaryOps, BinaryOp(cop)
  PROVE  LiveMasked'
<1> DEFINE priority == Priority(cop) + num_parentheses * PARENTHESES_PRIORITY_RAISE
           m1 == IF bop_stack_index > 0 /\ bop_stack_index >= stack_index
                 THEN BopPop(Machine) ELSE Machine
           m2 == ProcessBinOps(m1, priority)
           m3 == BopPush(m2, cop, priority)
           m  == RequestDisplayUpdate(m3)
<1>1. ConfigOK /\ Sound(Machine) /\ Runnable(Machine) /\ ArgsMasked(Machine, integer_width)
      BY MachineMasked DEF BinaryOp, Pressed
<1>2. priority \in Nat
  <2>1. num_parentheses \in Nat /\ Priority(cop) \in 0..2
        BY InvMachine, PriorityRange, SizesAssumption DEF RestOK
  <2> QED BY <2>1, SizesAssumption
<1>3. /\ Sound(m1) /\ Runnable(m1) /\ ArgsMasked(m1, integer_width)
      /\ m1.bop_stack_index + 1 = m1.stack_index
  <2>1. /\ Machine.bop_stack_index = bop_stack_index /\ Machine.stack_index = stack_index
        /\ Machine \in Machines /\ bop_stack_index \in Nat /\ stack_index \in Nat
    <3>1. Machine.bop_stack_index = bop_stack_index /\ Machine.stack_index = stack_index
          BY DEF Machine
    <3> QED BY <1>1, <3>1, IndexTypes DEF Sound
  <2>2. CASE bop_stack_index > 0 /\ bop_stack_index >= stack_index
    <3>1. m1 = BopPop(Machine)
          BY <2>2
    <3>2. SameArgs(m1, Machine)
          BY <3>1, <2>1 DEF BopPop, SameArgs, Machines
    <3> HIDE DEF m1
    <3>3. /\ m1 \in Machines /\ m1.bop_stack_index = bop_stack_index - 1
          /\ m1.bop_stack = Machine.bop_stack /\ m1.stack_index = stack_index
          /\ m1.error = Machine.error
          BY <2>1, <2>2, <3>1, BopPopSound
    <3>4. 0..m1.bop_stack_index - 1 \subseteq 0..bop_stack_index - 1
          BY <2>1, <3>3
    <3>5. Sound(m1) /\ Runnable(m1) /\ ArgsMasked(m1, integer_width)
          BY <1>1, <2>1, <2>2, <3>2, <3>3, <3>4, SameArgsMasked DEF Sound, Runnable
    <3> QED BY <1>1, <2>1, <2>2, <3>3, <3>5 DEF Sound
  <2>3. CASE ~(bop_stack_index > 0 /\ bop_stack_index >= stack_index)
    <3>1. m1 = Machine
          BY <2>3
    <3> HIDE DEF m1
    <3> QED BY <1>1, <2>1, <2>3, <3>1 DEF Sound
  <2> QED BY <2>2, <2>3
<1> HIDE DEF m1, priority
<1>4. /\ Sound(m2) /\ ArgsMasked(m2, integer_width)
      /\ m2.stack_index = m2.bop_stack_index + 1
      BY <1>1, <1>2, <1>3, ProcessBinOpsSound, ProcessBinOpsMasked
<1> HIDE DEF m2
<1>5. m2 \in Machines /\ m2.bop_stack_index \in Nat /\ m2.stack_index \in Nat
      /\ m2.bop_stack_index <= BOP_STACK_SIZE /\ m2.stack_index <= STACK_SIZE
      BY <1>4, IndexTypes DEF Sound
<1>6. CASE m2.bop_stack_index < BOP_STACK_SIZE
  <2>1. /\ m3 \in Machines /\ m3.bop_stack_index = m2.bop_stack_index + 1
        /\ m3.stack_index = m2.stack_index /\ m3.error = m2.error
        BY <1>2, <1>5, <1>6, BopPushSound
  <2>2. SameArgs(m3, m2)
        BY <1>5, <1>6 DEF BopPush, SameArgs, Machines
  <2> HIDE DEF m3
  <2>3. Sound(m3)
        BY <1>4, <1>5, <2>1 DEF Sound
  <2>4. ArgsMasked(m, integer_width)
        BY <1>4, <2>2, <2>3, SameArgsMasked, DisplayMasked
  <2> QED BY <2>4, CommitMasked DEF BinaryOp, configVars, m3, m2, m1, priority
<1>7. CASE ~(m2.bop_stack_index < BOP_STACK_SIZE)
  <2>1. m3 = [m2 EXCEPT !.error = TRUE]
        BY <1>7 DEF BopPush, Fail
  <2> HIDE DEF m3
  <2>2. SameArgs(m3, m2) /\ m3 \in Machines /\ m3.stack_index > 0
    <3>1. m3.stack = m2.stack /\ m3.stack_index = m2.stack_index /\ m3 \in Machines
          BY <1>5, <2>1 DEF Machines
    <3> QED BY <1>4, <1>5, <3>1 DEF SameArgs
  <2>3. m = [m3 EXCEPT !.shown = [el |-> StackTop(m3), cop |-> TopOp(m3)]]
        BY <2>2, StackPeekSound DEF RequestDisplayUpdate
  <2>4. SameArgs(m, m3)
        BY <2>2, <2>3 DEF Machines, SameArgs
  <2> HIDE DEF m
  <2>5. ArgsMasked(m, integer_width)
        BY <1>4, <2>2, <2>4, SameArgsMasked
  <2>6. Commit(m) /\ integer_width' = integer_width
        BY DEF BinaryOp, configVars, m, m3, m2, m1, priority
  <2> QED BY <2>5, <2>6, CommitMasked
<1> QED BY <1>6, <1>7

LEMMA UnaryOpMasked ==
  ASSUME Inv, LiveMasked, NEW cop \in IntUnaryOps \cup FloatUnaryOps, UnaryOp(cop)
  PROVE  LiveMasked'
<1> DEFINE el == StackTop(Machine)
           result == ApplyUop(cop, el)
<1>1. ConfigOK /\ Sound(Machine) /\ ArgsMasked(Machine, integer_width) /\ ready
      BY MachineMasked DEF UnaryOp, Pressed
<1>2. el \in StackEl /\ MaskWidth(el.ival, integer_width) = el.ival
      BY <1>1, StackTopType, TopMasked, IndexTypes DEF Sound
<1>3. HasUop(cop, calc_mode) /\ integer_width' = integer_width
      /\ Commit(RequestDisplayUpdate(ReplaceTop(Machine, result)))
      BY DEF UnaryOp, configVars
<1> HIDE DEF el
<1>4. MaskWidth(result.ival, integer_width) = result.ival
      BY <1>1, <1>2, <1>3, ApplyUopMasked
<1>5. result \in StackEl
  <2>1. el.ival \in IVal /\ el.fval \in FVal
        BY <1>2, StackElType
  <2>2. CASE calc_mode = "integer"
    <3>1. IopUnary(cop, el.ival, integer_width, use_unsigned) \in IVal
          BY <1>1, <1>3, <2>1, <2>2, OperationsClosed DEF HasUop, ConfigOK
    <3> QED BY <3>1, <2>2, InputsAssumption DEF ApplyUop, IntEl, StackEl
  <2>3. CASE calc_mode # "integer"
    <3>1. FopUnary(cop, el.fval) \in FVal
          BY <1>3, <2>1, <2>3, OperationsClosed DEF HasUop
    <3> QED BY <3>1, <2>3, InputsAssumption DEF ApplyUop, FloatEl, StackEl
  <2> QED BY <2>2, <2>3
<1> HIDE DEF result
<1> QED BY <1>1, <1>3, <1>4, <1>5, ReplaceMasked

LEMMA BitXorMasked ==
  ASSUME Inv, LiveMasked, NEW bitmask \in BitMasks, BitXor(bitmask)
  PROVE  LiveMasked'
<1> DEFINE el == StackTop(Machine)
           result == ApplyBop("xor", el, IntEl(bitmask))
<1>1. ConfigOK /\ Sound(Machine) /\ ArgsMasked(Machine, integer_width) /\ ready
      BY MachineMasked DEF BitXor
<1>2. el \in StackEl /\ MaskWidth(el.ival, integer_width) = el.ival
      BY <1>1, StackTopType, TopMasked, IndexTypes DEF Sound
<1>3. /\ integer_width' = integer_width
      /\ Commit(RequestDisplayUpdate(ReplaceTop(Machine, result)))
      BY DEF BitXor, configVars
<1>4. IntEl(bitmask) \in StackEl /\ HasBop("xor", calc_mode)
      BY InputsAssumption DEF IntEl, StackEl, BitXor, HasBop, HasIop, BinaryOps
<1> HIDE DEF el
<1>5. result \in StackEl /\ MaskWidth(result.ival, integer_width) = result.ival
      BY <1>1, <1>2, <1>4, ApplyBopType, ApplyBopMasked
<1> HIDE DEF result
<1> QED BY <1>1, <1>3, <1>5, ReplaceMasked

LEMMA ParenthesesRightMasked ==
  ASSUME Inv, LiveMasked, ParenthesesRight
  PROVE  LiveMasked'
<1> DEFINE priority == num_parentheses * PARENTHESES_PRIORITY_RAISE
           m1 == ProcessBinOps(Machine, priority)
           m  == RequestDisplayUpdate(m1)
<1>1. /\ ConfigOK /\ Sound(Machine) /\ Runnable(Machine)
      /\ ArgsMasked(Machine, integer_width)
      BY MachineMasked DEF ParenthesesRight, Pressed
<1>2. priority \in Nat
      BY InvMachine, SizesAssumption DEF RestOK
<1>3. Commit(m) /\ integer_width' = integer_width
      BY DEF ParenthesesRight, configVars
<1> HIDE DEF priority
<1>4. Sound(m1) /\ ArgsMasked(m1, integer_width)
      BY <1>1, <1>2, ProcessBinOpsSound, ProcessBinOpsMasked
<1> HIDE DEF m1
<1>5. ArgsMasked(m, integer_width)
      BY <1>4, DisplayMasked
<1> HIDE DEF m
<1> QED BY <1>3, <1>5, CommitMasked

LEMMA ClearMasked ==
  ASSUME Inv, LiveMasked, Clear
  PROVE  LiveMasked'
<1> DEFINE first == IF init_from_save_val
                    THEN [save_val EXCEPT !.ival = MaskWidth(@, integer_width)]
                    ELSE Zero
           empty == [Machine EXCEPT !.stack_index = 0, !.bop_stack_index = 0,
                                    !.bin_op_was_entered = FALSE]
           m1 == StackPush(empty, first)
           m  == RequestDisplayUpdate(m1)
<1>1. ConfigOK /\ RestOK /\ Machine \in Machines /\ Machine.error = FALSE
      BY InvMachine
<1>2. first \in StackEl /\ MaskWidth(first.ival, integer_width) = first.ival
  <2>1. save_val \in StackEl /\ save_val.ival \in IVal /\ integer_width \in Width
        BY <1>1, StackElType DEF RestOK
  <2>2. MaskWidth(save_val.ival, integer_width) \in IVal
        BY <2>1, OperationsClosed
  <2>3. CASE init_from_save_val
    <3>1. first = [save_val EXCEPT !.ival = MaskWidth(@, integer_width)]
          BY <2>3
    <3>2. first \in StackEl /\ first.ival = MaskWidth(save_val.ival, integer_width)
          BY <2>1, <2>2, <3>1 DEF StackEl
    <3> HIDE DEF first
    <3> QED BY <2>1, <3>2, OperationsMasked
  <2>4. CASE ~init_from_save_val
    <3>1. first = Zero /\ Zero \in StackEl /\ Zero.ival = IZero
          BY <2>4, InputsAssumption DEF Zero, StackEl
    <3> HIDE DEF first
    <3> QED BY <2>1, <3>1, OperationsMasked
  <2> QED BY <2>3, <2>4
<1>3. /\ empty \in Machines /\ empty.stack_index = 0 /\ empty.bop_stack_index = 0
      /\ empty.error = FALSE
  <2>1. 0 \in 0..STACK_SIZE /\ 0 \in 0..BOP_STACK_SIZE
        BY Sizes
  <2> QED BY <1>1, <2>1 DEF Machines
<1>4. Commit(m) /\ integer_width' = integer_width
      BY DEF Clear, configVars
<1> HIDE DEF first, empty
<1>5. ArgsMasked(empty, integer_width)
      BY <1>3 DEF ArgsMasked
<1>6. empty.stack_index < STACK_SIZE
      BY <1>3, Sizes
<1>7. /\ m1 \in Machines /\ m1.stack_index = 1 /\ m1.error = FALSE
      /\ SameBops(m1, empty) /\ ArgsMasked(m1, integer_width)
      BY <1>2, <1>3, <1>5, <1>6, StackPushSound, PushMasked
<1> HIDE DEF m1
<1>8. Sound(m1)
      BY <1>3, <1>7 DEF Sound, SameBops
<1>9. ArgsMasked(m, integer_width)
      BY <1>7, <1>8, DisplayMasked
<1> HIDE DEF m
<1> QED BY <1>4, <1>9, CommitMasked

\* A switch to integer may widen the words, but never narrows them: numbers that MR
\* entered in float mode are still in the stack.
LEMMA SetModeMasked ==
  ASSUME Inv, LiveMasked, NEW best \in BestIntegers, SetMode(best)
  PROVE  LiveMasked'
<1> DEFINE m == EvaluateOutstanding
<1>1. Sound(m) /\ StackPeek(m) = m /\ ArgsMasked(m, integer_width)
      BY OutstandingMasked DEF SetMode
<1>2. Commit(m)
      BY <1>1 DEF SetMode
<1>3. \/ integer_width' = integer_width
      \/ integer_width' = ChangedWidth(best.uval, best.negative, integer_width)
      BY DEF SetMode
<1>4. m.stack \in [0..STACK_SIZE - 1 -> StackEl] /\ m.stack_index \in 0..STACK_SIZE
      BY <1>1 DEF Sound, Machines
<1> HIDE DEF m
<1>5. CASE integer_width' = integer_width
      BY <1>1, <1>2, <1>5, CommitMasked
<1>6. CASE integer_width' = ChangedWidth(best.uval, best.negative, integer_width)
  <2>1. ASSUME NEW i \in 0..m.stack_index - 1
        PROVE  MaskWidth(m.stack[i].ival, integer_width') = m.stack[i].ival
    <3>1. i \in 0..STACK_SIZE - 1
          BY <1>4, Sizes
    <3>2. m.stack[i].ival \in IVal
          BY <1>4, <3>1, StackElType
    <3>3. MaskWidth(m.stack[i].ival, integer_width) = m.stack[i].ival
          BY <1>1 DEF ArgsMasked
    <3>4. integer_width \in Width
          BY InvMachine DEF ConfigOK
    <3> QED BY <1>6, <3>2, <3>3, <3>4, OperationsMasked
  <2>2. ArgsMasked(m, integer_width')
        BY <2>1 DEF ArgsMasked
  <2> QED BY <1>2, <2>2, CommitMasked
<1> QED BY <1>3, <1>5, <1>6

LEMMA SetIntegerWidthMasked ==
  ASSUME Inv, LiveMasked, NEW width \in Width, SetIntegerWidth(width)
  PROVE  LiveMasked'
<1> DEFINE f  == [v \in IVal |-> GetSigned(v, integer_width)]
           m1 == IF use_unsigned THEN Machine ELSE MapStack(Machine, f)
           m  == MaskStackAll(m1, width)
<1>1. ConfigOK /\ Sound(Machine)
      BY MachineMasked DEF SetIntegerWidth
<1>2. f \in [IVal -> IVal]
      BY <1>1, OperationsClosed DEF ConfigOK
<1>3. Sound(m1)
  <2> HIDE DEF f
  <2> QED BY <1>1, <1>2, MapStackSound
<1>4. Commit(m) /\ integer_width' = width
      BY DEF SetIntegerWidth
<1> HIDE DEF m1
<1>5. ArgsMasked(m, width)
      BY <1>3, MaskStackAllMasked
<1> HIDE DEF m
<1> QED BY <1>4, <1>5, CommitMasked

LEMMA StepMasked == Inv /\ LiveMasked /\ [Next]_vars => LiveMasked'
<1> SUFFICES ASSUME Inv, LiveMasked, [Next]_vars PROVE LiveMasked'
    OBVIOUS
<1> USE DEF modeVars, configVars, memVars, parenVars
<1>1. IZero \in IVal /\ FZero \in FVal /\ ArgI \subseteq IVal /\ ArgF \subseteq FVal
      BY InputsAssumption
<1>2. ASSUME NEW ival \in IVal, NEW fval \in FVal, GiveArg(ival, fval) PROVE LiveMasked'
  <2>1. ready /\ Commit(NewArg(Machine, ival, fval)) /\ integer_width' = integer_width
        BY <1>2 DEF GiveArg
  <2>2. ArgsMasked(NewArg(Machine, ival, fval), integer_width)
        BY <2>1, MachineMasked, NewArgMasked
  <2> QED BY <2>1, <2>2, CommitMasked
<1>3. ASSUME ready, Commit(RequestDisplayUpdate(Machine)), integer_width' = integer_width
      PROVE  LiveMasked'
      BY <1>3, MachineMasked, DisplayMasked, CommitMasked
<1>4. ASSUME ready, NEW el \in StackEl, Enter(el) PROVE LiveMasked'
  <2>1. el.ival \in IVal /\ el.fval \in FVal
        BY StackElType
  <2> QED BY <1>4, <2>1, EnterMasked DEF Enter
<1>5. CASE MemoryWrite
  <2>1. PICK k \in Memory : MemoryStore(k) \/ MemoryPlus(k)
        BY <1>5 DEF MemoryWrite
  <2>2. CASE MemoryStore(k)
        BY <1>3, <2>2 DEF MemoryStore, Pressed
  <2>3. CASE MemoryPlus(k)
    <3>1. ready /\ Commit(StackPeek(EvaluateOutstanding)) /\ integer_width' = integer_width
          BY <2>3 DEF MemoryPlus, Pressed
    <3> QED BY <3>1, OutstandingMasked, CommitMasked
  <2> QED BY <2>1, <2>2, <2>3
<1>6. CASE OtherCall
  <2>1. CASE \E v \in ArgI : calc_mode = "integer" /\ GiveArg(v, FZero)
        BY <1>1, <1>2, <2>1
  <2>2. CASE \E v \in ArgF : calc_mode = "float" /\ GiveArg(IZero, v)
        BY <1>1, <1>2, <2>2
  <2>3. CASE Peek
        BY <1>3, <2>3 DEF Peek, Pressed
  <2>4. CASE Equals
    <3>1. ready /\ Commit(OpEquals(Machine)) /\ integer_width' = integer_width
          BY <2>4 DEF Equals, Pressed
    <3>2. ArgsMasked(OpEquals(Machine), integer_width)
          BY <3>1, MachineMasked, OpEqualsMasked
    <3> QED BY <3>1, <3>2, CommitMasked
  <2>5. CASE \E cop \in BinaryOps : BinaryOp(cop)
        BY <2>5, BinaryOpMasked
  <2>6. CASE \E cop \in IntUnaryOps \cup FloatUnaryOps : UnaryOp(cop)
        BY <2>6, UnaryOpMasked
  <2>7. CASE \E bitmask \in BitMasks : BitXor(bitmask)
        BY <2>7, BitXorMasked
  <2>8. CASE ParenthesesLeft
        BY <1>1, <2>8, EnterMasked DEF ParenthesesLeft, Pressed
  <2>9. CASE ParenthesesRight
        BY <2>9, ParenthesesRightMasked
  <2>10. CASE \E k \in Memory : MemoryRecall(k)
    <3>1. PICK k \in Memory : MemoryRecall(k)
          BY <2>10
    <3>2. ready /\ Enter(mem_val[k])
          BY <3>1 DEF MemoryRecall, Pressed, Enter
    <3>3. mem_val[k] \in StackEl
          BY InvMachine DEF RestOK
    <3> QED BY <1>4, <3>2, <3>3
  <2>11. CASE EnterPi
    <3>1. FloatEl(Pi) \in StackEl
          BY InputsAssumption DEF FloatEl, StackEl
    <3> QED BY <1>4, <2>11, <3>1 DEF EnterPi, Pressed
  <2>12. CASE EnterRand
    <3>1. PICK r \in RandVals : Enter(FloatEl(r))
          BY <2>12 DEF EnterRand
    <3>2. FloatEl(r) \in StackEl
          BY InputsAssumption DEF FloatEl, StackEl
    <3> QED BY <1>4, <2>12, <3>1, <3>2 DEF EnterRand, Pressed
  <2>13. CASE calc_mode = "integer" /\ EnterIntMin
    <3>1. IntEl(IntMin(integer_width)) \in StackEl
          BY InvMachine, InputsAssumption, OperationsClosed DEF ConfigOK, IntEl, StackEl
    <3> QED BY <1>4, <2>13, <3>1 DEF EnterIntMin, Pressed
  <2>14. CASE Clear
        BY <2>14, ClearMasked
  <2>15. CASE \E best \in BestIntegers : SetMode(best)
        BY <2>15, SetModeMasked
  <2>16. CASE SetRepeatedEquals
        BY <2>16 DEF SetRepeatedEquals, machineVars, LiveMasked
  <2>17. CASE calc_mode = "integer" /\ SetUseUnsigned
    <3>1. /\ ready /\ Commit(MaskStackAll(Machine, integer_width))
          /\ integer_width' = integer_width
          BY <2>17 DEF SetUseUnsigned
    <3>2. ArgsMasked(MaskStackAll(Machine, integer_width), integer_width)
          BY <3>1, MachineMasked, MaskStackAllMasked DEF ConfigOK
    <3> QED BY <3>1, <3>2, CommitMasked
  <2>18. CASE \E width \in Width : calc_mode = "integer" /\ SetIntegerWidth(width)
        BY <2>18, SetIntegerWidthMasked
  <2> QED BY <1>6, <2>1, <2>2, <2>3, <2>4, <2>5, <2>6, <2>7, <2>8, <2>9, <2>10, <2>11,
             <2>12, <2>13, <2>14, <2>15, <2>16, <2>17, <2>18 DEF OtherCall
<1>7. CASE UNCHANGED vars
      BY <1>7 DEF vars, machineVars, LiveMasked
<1> QED BY <1>5, <1>6, <1>7 DEF Next

-----------------------------------------------------------------------------
(* Theorem                                                                  *)

\* Every argument in use is masked to the current width, after any calls of the engine's
\* interface: memories, numbers of the other mode, repeated evaluation with an operand
\* that is not masked, and changes of width and sign (calc.h:229-232).
THEOREM ArgumentsMasked == Spec => []LiveMasked
<1>1. Init => LiveMasked
      BY DEF Init, LiveMasked
<1> QED BY <1>1, InitInv, StepInv, StepMasked, PTL DEF Spec
=============================================================================
