----------------------------- MODULE CalcEngine -----------------------------
(***************************************************************************)
(* The evaluation engine of the calculator (src/src/calc.c): an argument   *)
(* stack and a stack of pending binary operators, the collapse of pending  *)
(* operators by priority, parentheses, repeated evaluation, two memories,  *)
(* and the switches of mode, integer width and signedness.                 *)
(*                                                                         *)
(* One action is one call of the engine's interface (calc.h); the program  *)
(* is single threaded, so a call runs to completion.  The arrays are kept  *)
(* whole, popped slots included, because op_equals reads popped slots.     *)
(* Values and the functions that compute them are parameters: calc_float.c *)
(* stays uninterpreted, CalcInteger gives calc_integer.c.                  *)
(***************************************************************************)
EXTENDS Integers, Sequences

CONSTANTS
  MAX_PARENTHESES,             \* levels of nested parentheses (4)
  PARENTHESES_PRIORITY_RAISE,  \* priority added per level (10)
  NUM_MEMORY,                  \* memories (2)
  Width,                       \* the integer widths
  IVal, IZero,                 \* 64 bit words, and 0
  FVal, FZero,                 \* decimal floating point values, and 0
  MaskWidth(_, _),             \* calc_util_mask_width(value, width)
  GetSigned(_, _),             \* calc_util_get_signed(value, width), as a word
  ChangedWidth(_, _, _),       \* calc_util_get_changed_width
  IopUnary(_, _, _, _),        \* integer unary op: (cop, arg, width, unsigned)
  IopBinary(_, _, _, _, _),    \* integer binary op: (cop, a, b, width, unsigned)
  FopUnary(_, _),              \* float unary op: (cop, arg)
  FopBinary(_, _, _),          \* float binary op: (cop, a, b)
  IntToFloat(_, _, _),         \* printed and parsed again: (value, width, unsigned)
  IntMin(_),                   \* least signed value of a width, masked
  Pi,                          \* the constant entered by the PI key
  BestIntegers,                \* answers of the display's best-integer callback
  ArgI, ArgF,                  \* values the user may enter, in each mode
  RandVals,                    \* values rand() may give
  BitMasks,                    \* single-bit masks of the bit display
  Keys                         \* the operations the user may press

\* calc.c relies on levels of parentheses not reaching into each other (64-67).
ASSUME SizesAssumption ==
  /\ MAX_PARENTHESES \in Nat
  /\ PARENTHESES_PRIORITY_RAISE \in Nat
  /\ PARENTHESES_PRIORITY_RAISE >= 3
  /\ NUM_MEMORY \in Nat

ASSUME InputsAssumption ==
  /\ IZero \in IVal /\ FZero \in FVal /\ Pi \in FVal
  /\ ArgI \subseteq IVal /\ ArgF \subseteq FVal
  /\ RandVals \subseteq FVal /\ BitMasks \subseteq IVal
  /\ BestIntegers \subseteq [ok : BOOLEAN, uval : IVal, negative : BOOLEAN]

VARIABLES
  calc_mode, use_unsigned, integer_width, allow_repeated_equals,
  num_parentheses, paren_allowed,
  stack, stack_index,          \* argument stack
  bop_stack, bop_stack_index,  \* pending binary operators
  bin_op_was_entered,
  mem_val, mem_was_unsigned,
  save_val, init_from_save_val,
  shown,                       \* last value and operator given to result_callback
  pushed,                      \* values given to history_callback by the last call
  error,                       \* calc_error was called, or a NULL function
  ready                        \* the caller did its calc_clear (calc.h:102-103)

machineVars == <<stack, stack_index, bop_stack, bop_stack_index,
                 bin_op_was_entered, shown, pushed, error>>
modeVars    == <<calc_mode, save_val, init_from_save_val, ready>>
configVars  == <<use_unsigned, integer_width, allow_repeated_equals>>
parenVars   == <<num_parentheses, paren_allowed>>
memVars     == <<mem_val, mem_was_unsigned>>
vars == <<machineVars, modeVars, configVars, parenVars, memVars>>

-----------------------------------------------------------------------------
(* Operations (calc_op_enum) and the functions calc_give_op gives for them *)

BinaryOps == {"add", "sub", "and", "or", "xor", "mul", "div", "mod",
              "gcd", "lsftn", "rsftn", "pow", "root"}

PRIORITY_ADD_SUB    == 0
PRIORITY_MUL_DIV    == 1
PRIORITY_POWER_ROOT == 2
NUM_PRIORITY        == PRIORITY_POWER_ROOT + 1

Priority(cop) ==
  CASE cop \in {"add", "sub", "and", "or", "xor"}              -> PRIORITY_ADD_SUB
    [] cop \in {"mul", "div", "mod", "gcd", "lsftn", "rsftn"} -> PRIORITY_MUL_DIV
    [] cop \in {"pow", "root"}                                -> PRIORITY_POWER_ROOT

HasIop(cop) == cop \in BinaryOps \ {"pow", "root"}
HasFop(cop) == cop \in {"add", "sub", "mul", "div", "mod", "pow", "root"}

\* The function pointer of the mode is not NULL.
HasBop(cop, mode) == IF mode = "integer" THEN HasIop(cop) ELSE HasFop(cop)

IntUnaryOps   == {"pm", "com", "sqr", "lsft", "rsft", "rol", "ror"}
FloatUnaryOps == {"pm", "sqr", "sqrt", "onedx", "log", "inv_log", "ln", "inv_ln",
                  "sin", "inv_sin", "cos", "inv_cos", "tan", "inv_tan",
                  "sinh", "inv_sinh", "cosh", "inv_cosh", "tanh", "inv_tanh", "fact"}
HasUop(cop, mode) == cop \in IF mode = "integer" THEN IntUnaryOps ELSE FloatUnaryOps

OtherOps == {"peek", "eq", "parl", "parr", "ms", "mr", "mp", "pi", "rand", "int_min"}

Mode   == {"integer", "float"}
Memory == 0..NUM_MEMORY - 1

STACK_SIZE     == NUM_PRIORITY * (MAX_PARENTHESES + 1) + 1
BOP_STACK_SIZE == NUM_PRIORITY * (MAX_PARENTHESES + 1)

StackEl == [ival : IVal, fval : FVal]
BopEl   == [cop : BinaryOps \cup {"nop"}, priority : Nat]
Zero    == [ival |-> IZero, fval |-> FZero]
NoBop   == [cop |-> "nop", priority |-> 0]

IntEl(v)   == [ival |-> v, fval |-> FZero]
FloatEl(v) == [ival |-> IZero, fval |-> v]

-----------------------------------------------------------------------------
(* The two stacks, as a record that the helpers of calc.c transform *)

Machine ==
  [stack |-> stack, stack_index |-> stack_index,
   bop_stack |-> bop_stack, bop_stack_index |-> bop_stack_index,
   bin_op_was_entered |-> bin_op_was_entered,
   shown |-> shown, pushed |-> <<>>, error |-> error]

Commit(m) ==
  /\ stack' = m.stack
  /\ stack_index' = m.stack_index
  /\ bop_stack' = m.bop_stack
  /\ bop_stack_index' = m.bop_stack_index
  /\ bin_op_was_entered' = m.bin_op_was_entered
  /\ shown' = m.shown
  /\ pushed' = m.pushed
  /\ error' = m.error

Fail(m) == [m EXCEPT !.error = TRUE]

HistoryUpdate(m, el) == [m EXCEPT !.pushed = Append(@, el)]

StackPush(m, el) ==
  IF m.stack_index < STACK_SIZE
  THEN HistoryUpdate([m EXCEPT !.stack[m.stack_index] = el, !.stack_index = @ + 1], el)
  ELSE Fail(m)

StackPop(m) ==
  IF m.stack_index > 0 THEN [m EXCEPT !.stack_index = @ - 1] ELSE Fail(m)

\* What stack_peek points to, and what stack_pop returns.
StackTop(m) == m.stack[IF m.stack_index > 0 THEN m.stack_index - 1 ELSE 0]

StackPeek(m) == IF m.stack_index > 0 THEN m ELSE Fail(m)

BopPush(m, cop, priority) ==
  IF m.bop_stack_index < BOP_STACK_SIZE
  THEN [m EXCEPT !.bop_stack[m.bop_stack_index] = [cop |-> cop, priority |-> priority],
                 !.bop_stack_index = @ + 1,
                 !.bin_op_was_entered = TRUE]
  ELSE Fail(m)

BopPop(m) == [m EXCEPT !.bop_stack_index = @ - 1]   \* callers test for empty first

TopOp(m) ==
  IF m.bop_stack_index > 0 THEN m.bop_stack[m.bop_stack_index - 1].cop ELSE "nop"

RequestDisplayUpdate(m) ==
  [StackPeek(m) EXCEPT !.shown = [el |-> StackTop(m), cop |-> TopOp(m)]]

\* The result of an operator in the current mode; the other half is zeroed.
ApplyBop(cop, a, b) ==
  IF calc_mode = "integer"
  THEN IntEl(IopBinary(cop, a.ival, b.ival, integer_width, use_unsigned))
  ELSE FloatEl(FopBinary(cop, a.fval, b.fval))

ApplyUop(cop, a) ==
  IF calc_mode = "integer"
  THEN IntEl(IopUnary(cop, a.ival, integer_width, use_unsigned))
  ELSE FloatEl(FopUnary(cop, a.fval))

\* Pop two arguments, push the result.  A NULL function is an error.
Evaluate(m, cop) ==
  LET m1   == StackPop(m)
      m2   == StackPop(m1)
  IN  IF HasBop(cop, calc_mode)
      THEN StackPush(m2, ApplyBop(cop, StackTop(m1), StackTop(m)))
      ELSE Fail(m)

\* Mutants of BinOpStep: no test for a dangling operator; operators of the same
\* priority left pending.
BinOpStepNoDangling(m, priority) ==
  LET m1  == BopPop(m)
      top == m.bop_stack[m1.bop_stack_index]
  IN  IF m.bop_stack_index = 0 \/ priority > top.priority THEN m ELSE Evaluate(m1, top.cop)

BinOpStepRightAssociative(m, priority) ==
  IF m.bop_stack_index > 0 /\ priority = m.bop_stack[m.bop_stack_index - 1].priority
  THEN m ELSE BinOpStepNoDangling(m, priority)

\* One turn of the loop of process_bin_ops; no change once it breaks.  A
\* dangling operator duplicates its first argument, and is dropped unless
\* allow_repeated_equals: then the duplicate stays in the popped slot.
BinOpStep(m, priority) ==
  LET m1       == BopPop(m)
      top      == m.bop_stack[m1.bop_stack_index]
      dangling == m1.stack_index < m1.bop_stack_index + 2
      m2       == StackPush(StackPeek(m1), StackTop(m1))
  IN  CASE m.bop_stack_index = 0 \/ priority > top.priority -> m
        [] OTHER -> IF dangling
                    THEN IF allow_repeated_equals
                         THEN Evaluate(m2, top.cop)
                         ELSE StackPop(m2)
                    ELSE Evaluate(m1, top.cop)

\* Each turn but the last pops an operator, so the pending ones bound the turns.
ProcessBinOps(m, priority) ==
  LET loop[i \in 0..BOP_STACK_SIZE] ==
        IF i = 0 THEN m ELSE BinOpStep(loop[i - 1], priority)
  IN  loop[m.bop_stack_index]

\* op_equals, as far as it concerns the stacks.  With no operator pending,
\* the last one is taken from the popped slots bop_stack[0] and stack[1].
OpEquals(m) ==
  LET repeat == m.bin_op_was_entered /\ allow_repeated_equals
      cop    == m.bop_stack[0].cop
      result == ApplyBop(cop, m.stack[0], m.stack[1])
      m1     == [m EXCEPT !.stack[0] = result]
  IN  IF m.bop_stack_index > 0
      THEN RequestDisplayUpdate(ProcessBinOps(m, PRIORITY_ADD_SUB))
      ELSE IF repeat
           THEN IF HasBop(cop, calc_mode)
                THEN RequestDisplayUpdate(HistoryUpdate(m1, StackTop(m1)))
                ELSE Fail(m)
           ELSE RequestDisplayUpdate(m)

\* Mutants of NewArg: never replaces; takes the value as it comes.
NewArgAlwaysPushed(m, ival, fval) ==
  StackPush(m, [ival |-> MaskWidth(ival, integer_width), fval |-> fval])

NewArgUnmasked(m, ival, fval) ==
  StackPush(IF m.stack_index > m.bop_stack_index THEN StackPop(m) ELSE m,
            [ival |-> ival, fval |-> fval])

\* The new argument replaces the top of the stack unless an operator waits for it.
NewArg(m, ival, fval) ==
  LET el == [ival |-> MaskWidth(ival, integer_width), fval |-> fval]
  IN  StackPush(IF m.stack_index > m.bop_stack_index THEN StackPop(m) ELSE m, el)

\* Mutant of ReplaceTop: off by one in the test for a waiting operator.
ReplaceTopOffByOne(m, result) ==
  LET m1 == StackPop(m)
  IN  StackPush(IF m1.stack_index <= m1.bop_stack_index
                THEN StackPush(m1, StackTop(m)) ELSE m1, result)

\* A unary operator replaces its argument, unless an operator waits for one.
ReplaceTop(m, result) ==
  LET m1 == StackPop(m)
      m2 == IF m1.stack_index < m1.bop_stack_index
            THEN StackPush(m1, StackTop(m)) ELSE m1
  IN  StackPush(m2, result)

\* What M+ and a switch of mode start with: equals, without repeated evaluation.
EvaluateOutstanding == OpEquals([Machine EXCEPT !.bin_op_was_entered = FALSE])

-----------------------------------------------------------------------------
(* calc_give_arg and calc_give_op *)

Pressed(cop) == ready /\ cop \in Keys

GiveArg(ival, fval) ==
  /\ ready
  /\ Commit(NewArg(Machine, ival, fval))
  /\ paren_allowed' = FALSE
  /\ UNCHANGED <<modeVars, configVars, memVars, num_parentheses>>

Peek ==
  /\ Pressed("peek")
  /\ Commit(RequestDisplayUpdate(Machine))
  /\ UNCHANGED <<modeVars, configVars, memVars, parenVars>>

Equals ==
  /\ Pressed("eq")
  /\ Commit(OpEquals(Machine))
  /\ paren_allowed' = TRUE
  /\ num_parentheses' = 0
  /\ UNCHANGED <<modeVars, configVars, memVars>>

\* bin_op_common: a second operator in a row replaces the first.
BinaryOp(cop) ==
  LET priority == Priority(cop) + num_parentheses * PARENTHESES_PRIORITY_RAISE
      m1 == IF bop_stack_index > 0 /\ bop_stack_index >= stack_index
            THEN BopPop(Machine) ELSE Machine
      m2 == BopPush(ProcessBinOps(m1, priority), cop, priority)
  IN  /\ Pressed(cop)
      /\ HasBop(cop, calc_mode)
      /\ Commit(RequestDisplayUpdate(m2))
      /\ paren_allowed' = TRUE
      /\ UNCHANGED <<modeVars, configVars, memVars, num_parentheses>>

UnaryOp(cop) ==
  /\ Pressed(cop)
  /\ HasUop(cop, calc_mode)
  /\ Commit(RequestDisplayUpdate(
              ReplaceTop(Machine, ApplyUop(cop, StackTop(Machine)))))
  /\ UNCHANGED <<modeVars, configVars, memVars, parenVars>>

\* calc_binary_bit_xor: a click on the bit display, treated as a unary operator.
BitXor(bitmask) ==
  /\ ready
  /\ calc_mode = "integer"
  /\ Commit(RequestDisplayUpdate(
              ReplaceTop(Machine, ApplyBop("xor", StackTop(Machine), IntEl(bitmask)))))
  /\ UNCHANGED <<modeVars, configVars, memVars, parenVars>>

ParenthesesLeft ==
  /\ Pressed("parl")
  /\ num_parentheses < MAX_PARENTHESES
  /\ paren_allowed
  /\ Commit(RequestDisplayUpdate(NewArg(Machine, IZero, FZero)))
  /\ num_parentheses' = num_parentheses + 1
  /\ UNCHANGED <<modeVars, configVars, memVars, paren_allowed>>

\* Mutants of ParenthesesRight: no test for an open bracket; the level is lowered
\* before the operators in the bracket are evaluated.
ParenthesesRightUnguarded ==
  /\ Pressed("parr")
  /\ Commit(RequestDisplayUpdate(
              ProcessBinOps(Machine, num_parentheses * PARENTHESES_PRIORITY_RAISE)))
  /\ num_parentheses' = num_parentheses - 1
  /\ UNCHANGED <<modeVars, configVars, memVars, paren_allowed>>

ParenthesesRightLowersFirst ==
  /\ Pressed("parr")
  /\ num_parentheses > 0
  /\ Commit(RequestDisplayUpdate(
              ProcessBinOps(Machine, (num_parentheses - 1) * PARENTHESES_PRIORITY_RAISE)))
  /\ num_parentheses' = num_parentheses - 1
  /\ UNCHANGED <<modeVars, configVars, memVars, paren_allowed>>

ParenthesesRight ==
  /\ Pressed("parr")
  /\ num_parentheses > 0
  /\ Commit(RequestDisplayUpdate(
              ProcessBinOps(Machine, num_parentheses * PARENTHESES_PRIORITY_RAISE)))
  /\ num_parentheses' = num_parentheses - 1
  /\ UNCHANGED <<modeVars, configVars, memVars, paren_allowed>>

-----------------------------------------------------------------------------
(* Memories *)

\* Mutant of SignForMemory: kept as on the stack.
SignNotExtended(v) == v

\* Signed values are kept sign extended, not masked to the width.
SignForMemory(v) == IF use_unsigned THEN v ELSE GetSigned(v, integer_width)

MemoryStore(k) ==
  LET top == StackTop(Machine)
  IN  /\ Pressed("ms")
      /\ IF calc_mode = "integer"
         THEN /\ mem_val' = [mem_val EXCEPT ![k].ival = SignForMemory(top.ival)]
              /\ mem_was_unsigned' = [mem_was_unsigned EXCEPT ![k] = use_unsigned]
         ELSE /\ mem_val' = [mem_val EXCEPT ![k].fval = top.fval]
              /\ UNCHANGED mem_was_unsigned
      /\ Commit(RequestDisplayUpdate(Machine))
      /\ UNCHANGED <<modeVars, configVars, parenVars>>

MemoryRecall(k) ==
  /\ Pressed("mr")
  /\ Commit(RequestDisplayUpdate(NewArg(Machine, mem_val[k].ival, mem_val[k].fval)))
  /\ paren_allowed' = FALSE
  /\ UNCHANGED <<modeVars, configVars, memVars, num_parentheses>>

\* Like equals, without repeated evaluation, then adds the result to the memory.
MemoryPlus(k) ==
  LET m   == EvaluateOutstanding
      top == StackTop(m)
      sum == IopBinary("add", MaskWidth(mem_val[k].ival, integer_width), top.ival,
                       integer_width, use_unsigned)
  IN  /\ Pressed("mp")
      /\ Commit(StackPeek(m))
      /\ IF calc_mode = "integer"
         THEN /\ mem_val' = [mem_val EXCEPT ![k].ival = SignForMemory(sum)]
              /\ mem_was_unsigned' = [mem_was_unsigned EXCEPT ![k] = use_unsigned]
         ELSE /\ mem_val' = [mem_val EXCEPT ![k].fval = FopBinary("add", @, top.fval)]
              /\ UNCHANGED mem_was_unsigned
      /\ paren_allowed' = TRUE
      /\ num_parentheses' = 0
      /\ UNCHANGED <<modeVars, configVars>>

-----------------------------------------------------------------------------
(* Values the engine enters itself *)

Enter(el) ==
  /\ Commit(RequestDisplayUpdate(NewArg(Machine, el.ival, el.fval)))
  /\ paren_allowed' = FALSE
  /\ UNCHANGED <<modeVars, configVars, memVars, num_parentheses>>

EnterPi ==
  /\ Pressed("pi")
  /\ calc_mode = "float"
  /\ Enter(FloatEl(Pi))

EnterRand ==
  /\ Pressed("rand")
  /\ calc_mode = "float"
  /\ \E r \in RandVals : Enter(FloatEl(r))

EnterIntMin ==
  /\ Pressed("int_min")
  /\ Enter(IntEl(IntMin(integer_width)))

-----------------------------------------------------------------------------
(* Clear, mode, width, signedness, repeated evaluation *)

Clear ==
  LET first == IF init_from_save_val
               THEN [save_val EXCEPT !.ival = MaskWidth(@, integer_width)]
               ELSE Zero
      empty == [Machine EXCEPT !.stack_index = 0, !.bop_stack_index = 0,
                               !.bin_op_was_entered = FALSE]
  IN  /\ Commit(RequestDisplayUpdate(StackPush(empty, first)))
      /\ num_parentheses' = 0
      /\ paren_allowed' = TRUE
      /\ save_val' = IF init_from_save_val THEN first ELSE save_val
      /\ init_from_save_val' = FALSE
      /\ ready' = TRUE
      /\ UNCHANGED <<calc_mode, configVars, memVars>>

\* calc_set_mode to the other mode.  The value on top is converted into
\* save_val: to float by printing it, to integer by asking the display.
SetMode(best) ==
  LET m   == EvaluateOutstanding
      top == StackTop(m)
  IN  /\ ready
      /\ Commit(StackPeek(m))
      /\ num_parentheses' = 0
      /\ paren_allowed' = TRUE
      /\ IF calc_mode = "integer"
         THEN /\ calc_mode' = "float"
              /\ save_val' = [save_val EXCEPT !.fval =
                               IntToFloat(top.ival, integer_width, use_unsigned)]
              /\ UNCHANGED integer_width
         ELSE /\ calc_mode' = "integer"
              /\ save_val' = [save_val EXCEPT !.ival = IF best.ok THEN best.uval ELSE IZero]
              /\ integer_width' = IF best.ok
                                  THEN ChangedWidth(best.uval, best.negative, integer_width)
                                  ELSE integer_width
      /\ init_from_save_val' = TRUE
      /\ ready' = FALSE
      /\ UNCHANGED <<memVars, use_unsigned, allow_repeated_equals>>

SetRepeatedEquals ==
  /\ ready
  /\ allow_repeated_equals' = ~allow_repeated_equals
  /\ UNCHANGED <<machineVars, modeVars, parenVars, memVars, use_unsigned, integer_width>>

\* Mutant of MapStack: reaches the top of the stack only.
MapStackTop(m, f) == [m EXCEPT !.stack[m.stack_index - 1].ival = f[@]]

\* sign_extend_stack_all and mask_stack_all reach the arguments in use only.
MapStack(m, f) ==
  [m EXCEPT !.stack = [i \in 0..STACK_SIZE - 1 |->
     IF i < m.stack_index THEN [m.stack[i] EXCEPT !.ival = f[@]] ELSE m.stack[i]]]

MaskStackAll(m, width) ==
  LET masked == MapStack(m, [v \in IVal |-> MaskWidth(v, width)])
  IN  HistoryUpdate(StackPeek(masked), StackTop(masked))

SetUseUnsigned ==
  /\ ready
  /\ use_unsigned' = ~use_unsigned
  /\ Commit(MaskStackAll(Machine, integer_width))
  /\ UNCHANGED <<modeVars, parenVars, memVars, integer_width, allow_repeated_equals>>

SetIntegerWidth(width) ==
  LET m1 == IF use_unsigned THEN Machine
            ELSE MapStack(Machine, [v \in IVal |-> GetSigned(v, integer_width)])
  IN  /\ ready
      /\ width # integer_width
      /\ integer_width' = width
      /\ Commit(MaskStackAll(m1, width))
      /\ UNCHANGED <<modeVars, parenVars, memVars, use_unsigned, allow_repeated_equals>>

-----------------------------------------------------------------------------
(* calc_init with the settings it is given, and the calls of the program:  *)
(* gui.c offers width, sign and the least integer in integer mode only.    *)

Init ==
  /\ calc_mode \in Mode
  /\ use_unsigned \in BOOLEAN
  /\ integer_width \in Width
  /\ allow_repeated_equals = FALSE
  /\ num_parentheses = 0
  /\ paren_allowed = FALSE
  /\ stack = [i \in 0..STACK_SIZE - 1 |-> Zero]
  /\ stack_index = 0
  /\ bop_stack = [i \in 0..BOP_STACK_SIZE - 1 |-> NoBop]
  /\ bop_stack_index = 0
  /\ bin_op_was_entered = FALSE
  /\ mem_val = [k \in Memory |-> Zero]
  /\ mem_was_unsigned = [k \in Memory |-> FALSE]
  /\ save_val = Zero
  /\ init_from_save_val = FALSE
  /\ shown = [el |-> Zero, cop |-> "nop"]
  /\ pushed = <<>>
  /\ error = FALSE
  /\ ready = FALSE

MemoryWrite == \E k \in Memory : MemoryStore(k) \/ MemoryPlus(k)

OtherCall ==
  \/ \E v \in ArgI : calc_mode = "integer" /\ GiveArg(v, FZero)
  \/ \E v \in ArgF : calc_mode = "float" /\ GiveArg(IZero, v)
  \/ Peek
  \/ Equals
  \/ \E cop \in BinaryOps : BinaryOp(cop)
  \/ \E cop \in IntUnaryOps \cup FloatUnaryOps : UnaryOp(cop)
  \/ \E bitmask \in BitMasks : BitXor(bitmask)
  \/ ParenthesesLeft
  \/ ParenthesesRight
  \/ \E k \in Memory : MemoryRecall(k)
  \/ EnterPi
  \/ EnterRand
  \/ calc_mode = "integer" /\ EnterIntMin
  \/ Clear
  \/ \E best \in BestIntegers : SetMode(best)
  \/ SetRepeatedEquals
  \/ calc_mode = "integer" /\ SetUseUnsigned
  \/ \E width \in Width : calc_mode = "integer" /\ SetIntegerWidth(width)

Next == MemoryWrite \/ OtherCall

Spec == Init /\ [][Next]_vars

-----------------------------------------------------------------------------
(* What later calls can depend on.  Popped slots are dead but for the two   *)
(* that op_equals reads while no operator is pending; half of a value is    *)
(* dead in either mode; save_val is dead until a switch sets it.  TLC's     *)
(* VIEW uses this to identify states that behave the same.                  *)

Half(el) == IF calc_mode = "integer" THEN el.ival ELSE el.fval

LiveState ==
  [mode   |-> <<calc_mode, ready, init_from_save_val, configVars, parenVars, memVars>>,
   args   |-> [i \in 0..stack_index - 1 |-> Half(stack[i])],
   bops   |-> [i \in 0..bop_stack_index - 1 |-> bop_stack[i]],
   repeat |-> IF bin_op_was_entered /\ bop_stack_index = 0
              THEN <<bop_stack[0], Half(stack[1])>> ELSE <<bin_op_was_entered>>,
   saved  |-> IF init_from_save_val THEN save_val ELSE Zero,
   error  |-> error]

-----------------------------------------------------------------------------
(* Type invariant *)

\* Every variable keeps the type of its declaration in calc.c.
TypeOK ==
  /\ calc_mode \in Mode
  /\ use_unsigned \in BOOLEAN
  /\ integer_width \in Width
  /\ allow_repeated_equals \in BOOLEAN
  /\ num_parentheses \in 0..MAX_PARENTHESES
  /\ paren_allowed \in BOOLEAN
  /\ stack \in [0..STACK_SIZE - 1 -> StackEl]
  /\ stack_index \in 0..STACK_SIZE
  /\ bop_stack \in [0..BOP_STACK_SIZE - 1 -> BopEl]
  /\ bop_stack_index \in 0..BOP_STACK_SIZE
  /\ bin_op_was_entered \in BOOLEAN
  /\ mem_val \in [Memory -> StackEl]
  /\ mem_was_unsigned \in [Memory -> BOOLEAN]
  /\ save_val \in StackEl
  /\ init_from_save_val \in BOOLEAN
  /\ shown \in [el : StackEl, cop : BinaryOps \cup {"nop"}]
  /\ pushed \in Seq(StackEl)
  /\ error \in BOOLEAN
  /\ ready \in BOOLEAN

-----------------------------------------------------------------------------
(* Safety *)

\* No sequence of calls pops an empty stack, overruns one of the two arrays
\* (STACK_SIZE, BOP_STACK_SIZE) or calls a NULL function: calc_error is never
\* reached, whatever was pressed before a bracket or a mode switch.
NoError == ~error

\* Once cleared, there is always a value to show, and each pending operator
\* has its first argument; only the last one may still wait for the second.
StackShape ==
  ready => /\ stack_index >= 1
           /\ stack_index \in {bop_stack_index, bop_stack_index + 1}

\* Pending operators bind ever tighter and none belongs to a bracket that is
\* closed: the bound that BOP_STACK_SIZE relies on (comment at calc.c:63-66).
OperatorOrder ==
  /\ \A i, j \in 0..bop_stack_index - 1 :
        i < j => bop_stack[i].priority < bop_stack[j].priority
  /\ \A i \in 0..bop_stack_index - 1 :
        \E level \in 0..num_parentheses :
           bop_stack[i].priority =
             Priority(bop_stack[i].cop) + level * PARENTHESES_PRIORITY_RAISE

\* Every operator that can still be evaluated, the one kept for repeated
\* evaluation included, has a function in the current mode.
NoNullFunction ==
  /\ \A i \in 0..bop_stack_index - 1 : HasBop(bop_stack[i].cop, calc_mode)
  /\ bin_op_was_entered => HasBop(bop_stack[0].cop, calc_mode)

\* The arguments in use are masked to the current width (calc.h:229-232,
\* calc_integer.c:31-34), whatever widths and modes they went through: values
\* from the memories, the history and the other mode come in unmasked.
LiveMasked ==
  \A i \in 0..stack_index - 1 :
    MaskWidth(stack[i].ival, integer_width) = stack[i].ival
=============================================================================
