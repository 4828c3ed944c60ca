------------------------------ MODULE CalcExpr ------------------------------
(***************************************************************************)
(* The engine implements ExprCalc: its two stacks compute what the grammar *)
(* of the typed expression says.  The expression itself is a history       *)
(* variable: the stacks forget it as they collapse.  Floating mode, no     *)
(* mode switch: the two modes share all of the stack code.  One memory.    *)
(***************************************************************************)
EXTENDS CalcEngine

CONSTANTS MaxKeys   \* bound: keys pressed since the start

\* The keys M+ and MR are those of the first memory.
ASSUME MemoryAssumption == NUM_MEMORY >= 1

VARIABLES expr, repeat, keys

exprVars == <<vars, expr, repeat, keys>>

Abstract == INSTANCE ExprCalc WITH
  Value <- FVal, ZeroValue <- FZero,
  BinOps <- {cop \in BinaryOps : HasFop(cop)},
  UnOps <- FloatUnaryOps, Apply1 <- FopUnary, Apply2 <- FopBinary, MaxOpen <- MAX_PARENTHESES,
  again <- allow_repeated_equals, shown <- shown.el.fval

ExprInit ==
  /\ Init
  /\ calc_mode = "float" /\ use_unsigned = FALSE
  /\ Abstract!Start
  /\ keys = 0

\* Each call of the engine with the change of the expression its key stands for.
ExprNext ==
  /\ keys < MaxKeys
  /\ keys' = keys + 1
  /\ \/ \E v \in ArgF : GiveArg(IZero, v) /\ Abstract!TypeNumber(v)
     \/ MemoryRecall(0) /\ Abstract!TypeNumber(mem_val[0].fval)
     \/ MemoryPlus(0) /\ Abstract!TypeMemoryPlus
     \/ \E cop \in BinaryOps : BinaryOp(cop) /\ Abstract!TypeBinary(cop)
     \/ \E cop \in FloatUnaryOps : UnaryOp(cop) /\ Abstract!TypeUnary(cop)
     \/ ParenthesesLeft /\ Abstract!TypeOpen
     \/ ParenthesesRight /\ Abstract!TypeClose
     \/ Equals /\ Abstract!TypeEquals
     \/ Clear /\ Abstract!TypeClear
     \/ SetRepeatedEquals /\ UNCHANGED <<expr, repeat>>

ExprSpec == ExprInit /\ [][ExprNext]_exprVars

-----------------------------------------------------------------------------

\* Every display update shows what the grammar gives for the keys so far:
\* precedence, left associativity, brackets, operators typed twice or left
\* without an operand, unary operators on them, and repeated [=].
ImplementsExpression == Abstract!Spec

\* What is kept for the next [=] is the operator evaluated last and its right
\* operand, although both lie in slots that were popped (calc.c:544-573).
RepeatKept ==
  (ready /\ bop_stack_index = 0 /\ bin_op_was_entered) =>
     repeat = [op |-> bop_stack[0].cop, val |-> stack[1].fval]

-----------------------------------------------------------------------------
(* The instance that TLC checks has uninterpreted operators: a value is the   *)
(* reverse Polish form of the expression that computes it, so that two values *)
(* are equal only if the same operators were applied to the same arguments in *)
(* the same order.                                                            *)

MCFVal  == Seq({"0", "x", "y", "add", "mul", "pow", "pm"})
MCFZero == <<"0">>
MCPi    == <<"y">>
MCArgF  == {<<"x">>}

MCMaskWidth(v, width)              == v
MCGetSigned(v, width)              == v
MCChangedWidth(v, negative, width) == width
MCIopUnary(cop, a, width, u)       == a
MCIopBinary(cop, a, b, width, u)   == a
MCFopUnary(cop, a)                 == Append(a, cop)
MCFopBinary(cop, a, b)             == a \o b \o <<cop>>
MCIntToFloat(v, width, u)          == MCFZero
MCIntMin(width)                    == 0

\* Longer sequences of keys without memories and unary operators.
Plain ==
  /\ mem_val[0].fval = MCFZero
  /\ \A i \in 0..stack_index - 1 : \A n \in DOMAIN stack[i].fval : stack[i].fval[n] # "pm"

KeysNext == ExprNext /\ (keys' > 7 => Plain')

KeysSpec == ExprInit /\ [][KeysNext]_exprVars

(* States that later calls and the properties cannot tell apart. *)
LiveView == <<LiveState, shown, expr, repeat, keys>>
=============================================================================
