----------------------------- MODULE GuiProofs -----------------------------
(***************************************************************************)
(* ShownIsTop, LabelsTrue, KeyDoesWhatItSays, TypedIsTaken and             *)
(* PasteIsShown of GuiSession, for any values, operations and settings of  *)
(* the engine, and that the session keeps the engine within what           *)
(* CalcEngineProofs proves of it.                                          *)
(*                                                                         *)
(* All of them are broken while a handler runs.  The invariant says what   *)
(* the calls still to make are going to put right, and in which order.     *)
(***************************************************************************)
EXTENDS GuiSession, CalcEngineProofs, SequenceTheorems

Operations == BinaryOps \cup IntUnaryOps \cup FloatUnaryOps \cup OtherOps

\* The calls a handler may ask for.
CallType ==
  [call : {"op"}, cop : Operations]
  \cup [call : {"mem"}, cop : {"ms", "mr", "mp"}, k : Memory]
  \cup [call : {"mem_label"}, k : Memory]
  \cup [call : {"give"}, el : StackEl, typing : BOOLEAN]
  \cup [call : {"set_width"}, width : Width]
  \cup [call : {"xor"}, mask : BitMasks]
  \cup [call : {"clear", "set_mode", "recreate", "set_unsigned", "set_repeat"}]

\* A call that always ends in gui_result_callback.
Shows(c) ==
  \/ c.call \in {"clear", "xor", "mem", "set_mode"}
  \/ c.call = "op" /\ c.cop \notin {"parl", "parr"}

\* A call after which the display is behind the engine.
Hides(c) ==
  \/ c.call \in {"set_width", "set_unsigned"}
  \/ c.call = "give" /\ ~c.typing

GivesTyped(c) == c.call = "give" /\ c.typing

IsLabelOf(c, k) == c.call = "mem_label" /\ c.k = k

\* Every handler ends by showing what it changed.
Orderly(s) ==
  \A i \in 1..Len(s) :
    /\ Hides(s[i]) => \E j \in i + 1..Len(s) : Shows(s[j])
    /\ s[i].call = "set_mode" => \E j \in i + 1..Len(s) : s[j].call = "recreate"
    /\ s[i].call = "recreate" => \E j \in i + 1..Len(s) : s[j].call = "clear"
    /\ s[i].call = "mem" => \E j \in i + 1..Len(s) : IsLabelOf(s[j], s[i].k)
    /\ GivesTyped(s[i]) => i = 1

\* The calls still to make.
Elements(s) == {s[i] : i \in 1..Len(s)}
Pending == Elements(calls)

\* The display is what the engine holds.
Current == shown.el = StackTop(Machine) /\ shown.cop = TopOp(Machine)

CallsOK ==
  /\ calls \in Seq(CallType)
  /\ Orderly(calls)
  /\ ~Idle /\ GivesTyped(calls[1]) => arg_pending

SessionTypes ==
  /\ arg_pending \in BOOLEAN /\ given \in BOOLEAN
  /\ arg_pending => typed \in IF InInteger THEN IVal ELSE FVal
  /\ DOMAIN labels = {"bop", "parl", "status", "mem", "tooltip", "keys"}
  /\ DOMAIN labels.tooltip = Memory

DisplayFresh == arg_pending \/ Current \/ \E c \in Pending : Shows(c)

EngineLabelsTrue ==
  \/ labels.bop = TopOp(Machine) /\ labels.parl = num_parentheses
  \/ \E c \in Pending : c.call = "clear"

ModeLabelsTrue ==
  \/ /\ labels.status = Status(calc_mode, gui_radix, angle)
     /\ InFloat => labels.keys = KeyTexts(inv_selected, hyp_selected)
  \/ \E c \in Pending : c.call = "recreate"

MemLabelsTrue ==
  \/ /\ labels.mem = NonZero(calc_mode, mem_val) \/ \E c \in Pending : c.call = "mem_label"
     /\ \A k \in Memory :
          \/ labels.tooltip[k] = Tooltip(calc_mode, mem_val, mem_was_unsigned, k)
          \/ \E c \in Pending : IsLabelOf(c, k)
  \/ \E c \in Pending : c.call = "recreate"

Taken ==
  arg_pending /\ ~Idle =>
    \/ given
    \/ key \in Discards \cup {"int_min"}
    \/ GivesTyped(calls[1])
    \/ Len(calls) = 1 /\ calls[1].call = "set_repeat"

SessionInv ==
  /\ Inv
  /\ CallsOK
  /\ SessionTypes
  /\ DisplayFresh
  /\ EngineLabelsTrue
  /\ ModeLabelsTrue
  /\ MemLabelsTrue
  /\ Taken

-----------------------------------------------------------------------------
(* What the engine shows after a call                                       *)

MachineFields == {"stack", "stack_index", "bop_stack", "bop_stack_index",
                  "bin_op_was_entered", "shown", "pushed", "error"}

HasFields(m) == DOMAIN m = MachineFields

LEMMA MachineHasFields == HasFields(Machine)
BY DEF HasFields, MachineFields, Machine

\* The helpers of calc.c assign fields of the machine.
LEMMA FieldsKept ==
  ASSUME NEW m, HasFields(m)
  PROVE  /\ HasFields(Fail(m)) /\ HasFields(StackPop(m)) /\ HasFields(StackPeek(m))
         /\ HasFields(BopPop(m)) /\ \A el : HasFields(StackPush(m, el))
         /\ \A cop, priority : HasFields(BopPush(m, cop, priority))
<1>1. HasFields(Fail(m))
      BY DEF HasFields, Fail
<1>2. HasFields(StackPop(m)) /\ HasFields(StackPeek(m)) /\ HasFields(BopPop(m))
      BY <1>1 DEF HasFields, StackPop, StackPeek, BopPop
<1>3. ASSUME NEW el PROVE HasFields(StackPush(m, el))
      BY <1>1 DEF HasFields, StackPush, HistoryUpdate
<1>4. ASSUME NEW cop, NEW priority PROVE HasFields(BopPush(m, cop, priority))
      BY <1>1 DEF HasFields, BopPush
<1> QED BY <1>1, <1>2, <1>3, <1>4

LEMMA EvaluateKeepsFields ==
  ASSUME NEW m, HasFields(m), NEW cop
  PROVE  HasFields(Evaluate(m, cop))
BY FieldsKept DEF Evaluate

LEMMA StepKeepsFields ==
  ASSUME NEW m, HasFields(m), NEW priority
  PROVE  HasFields(BinOpStep(m, priority))
<1> DEFINE m1 == BopPop(m)
           m2 == StackPush(StackPeek(m1), StackTop(m1))
<1>1. HasFields(m1) /\ HasFields(m2)
      BY FieldsKept
<1>2. /\ \A cop : HasFields(Evaluate(m1, cop)) /\ HasFields(Evaluate(m2, cop))
      /\ HasFields(StackPop(m2))
      BY <1>1, EvaluateKeepsFields, FieldsKept
<1> QED BY <1>2 DEF BinOpStep

LEMMA ProcessKeepsFields ==
  ASSUME NEW m, HasFields(m), m.bop_stack_index \in 0..BOP_STACK_SIZE, NEW priority
  PROVE  HasFields(ProcessBinOps(m, priority))
<1>1. PICK f : /\ IsRun(f, m, priority, BOP_STACK_SIZE)
               /\ ProcessBinOps(m, priority) = f[m.bop_stack_index]
      BY ProcessBinOpsRun
<1> DEFINE S == {n \in Nat : n <= BOP_STACK_SIZE => HasFields(f[n])}
<1>2. BOP_STACK_SIZE \in Nat
      BY Sizes
<1>3. 0 \in S
      BY <1>1, <1>2 DEF IsRun
<1>4. ASSUME NEW n \in Nat, n \in S PROVE n + 1 \in S
  <2> SUFFICES ASSUME n + 1 <= BOP_STACK_SIZE PROVE HasFields(f[n + 1])
      OBVIOUS
  <2>1. f[n + 1] = BinOpStep(f[n], priority)
        BY <1>1, <1>2 DEF IsRun
  <2>2. HasFields(f[n])
        BY <1>2, <1>4
  <2> QED BY <2>1, <2>2, StepKeepsFields
<1> HIDE DEF S
<1>5. \A n \in Nat : n \in S
      BY <1>3, <1>4, Induction
<1>6. m.bop_stack_index \in S /\ m.bop_stack_index <= BOP_STACK_SIZE
      BY <1>2, <1>5
<1> QED BY <1>1, <1>6 DEF S

LEMMA ArgKeepsFields ==
  ASSUME NEW m, HasFields(m), NEW ival, NEW fval, NEW result
  PROVE  HasFields(NewArg(m, ival, fval)) /\ HasFields(ReplaceTop(m, result))
<1>1. HasFields(NewArg(m, ival, fval))
      BY FieldsKept DEF NewArg
<1>2. HasFields(ReplaceTop(m, result))
  <2> DEFINE m1 == StackPop(m)
             m2 == IF m1.stack_index < m1.bop_stack_index THEN StackPush(m1, StackTop(m)) ELSE m1
  <2>1. HasFields(m1)
        BY FieldsKept
  <2>2. HasFields(m2)
        BY <2>1, FieldsKept
  <2> QED BY <2>2, FieldsKept DEF ReplaceTop
<1> QED BY <1>1, <1>2

\* m has just been shown.
Showing(m) == m.shown.el = StackTop(m) /\ m.shown.cop = TopOp(m)

LEMMA UpdateShows ==
  ASSUME NEW m, HasFields(m)
  PROVE  Showing(RequestDisplayUpdate(m))
<1> DEFINE p == StackPeek(m)
           n == RequestDisplayUpdate(m)
<1>1. HasFields(p)
      BY FieldsKept
<1>2. /\ p.stack = m.stack /\ p.stack_index = m.stack_index
      /\ p.bop_stack = m.bop_stack /\ p.bop_stack_index = m.bop_stack_index
      BY DEF StackPeek, Fail, HasFields, MachineFields
<1>3. n = [p EXCEPT !.shown = [el |-> StackTop(m), cop |-> TopOp(m)]]
      BY DEF RequestDisplayUpdate
<1> HIDE DEF n, p
<1>4. /\ n.stack = p.stack /\ n.stack_index = p.stack_index
      /\ n.bop_stack = p.bop_stack /\ n.bop_stack_index = p.bop_stack_index
      /\ n.shown = [el |-> StackTop(m), cop |-> TopOp(m)]
      BY <1>1, <1>3 DEF HasFields, MachineFields
<1>5. StackTop(n) = StackTop(m) /\ TopOp(n) = TopOp(m)
      BY <1>2, <1>4 DEF StackTop, TopOp
<1> QED BY <1>4, <1>5 DEF Showing, n

\* Unless it calls a NULL function, op_equals ends by showing the result.
LEMMA EqualsShows ==
  ASSUME NEW m, HasFields(m), m.bop_stack_index \in 0..BOP_STACK_SIZE, Kept(m)
  PROVE  Showing(OpEquals(m))
<1> DEFINE result == ApplyBop(m.bop_stack[0].cop, m.stack[0], m.stack[1])
           m1 == [m EXCEPT !.stack[0] = result]
           m2 == HistoryUpdate(m1, StackTop(m1))
<1>1. HasFields(ProcessBinOps(m, PRIORITY_ADD_SUB))
      BY ProcessKeepsFields
<1>2. HasFields(m2)
      BY DEF HasFields, HistoryUpdate
<1>3. /\ Showing(RequestDisplayUpdate(ProcessBinOps(m, PRIORITY_ADD_SUB)))
      /\ Showing(RequestDisplayUpdate(m2)) /\ Showing(RequestDisplayUpdate(m))
  <2> HIDE DEF m2
  <2> QED BY <1>1, <1>2, UpdateShows
<1> QED BY <1>3 DEF OpEquals, Kept

LEMMA CommitShows ==
  ASSUME NEW m, Showing(m), Commit(m)
  PROVE  Current'
BY DEF Showing, Commit, Current, Machine, StackTop, TopOp

LEMMA InvIndex ==
  ASSUME Inv
  PROVE  Machine.bop_stack_index \in 0..BOP_STACK_SIZE
BY DEF Inv, TypeOK, Machine

\* What a call of the engine shows is what it holds afterwards.
LEMMA UnaryShows ==
  ASSUME NEW cop, UnaryOp(cop)
  PROVE  Current'
<1> DEFINE m == ReplaceTop(Machine, ApplyUop(cop, StackTop(Machine)))
<1>1. HasFields(m)
      BY MachineHasFields, ArgKeepsFields
<1>2. Commit(RequestDisplayUpdate(m))
      BY DEF UnaryOp
<1> HIDE DEF m
<1> QED BY <1>1, <1>2, UpdateShows, CommitShows

LEMMA XorShows ==
  ASSUME NEW bitmask, BitXor(bitmask)
  PROVE  Current'
<1> DEFINE m == ReplaceTop(Machine, ApplyBop("xor", StackTop(Machine), IntEl(bitmask)))
<1>1. HasFields(m)
      BY MachineHasFields, ArgKeepsFields
<1>2. Commit(RequestDisplayUpdate(m))
      BY DEF BitXor
<1> HIDE DEF m
<1> QED BY <1>1, <1>2, UpdateShows, CommitShows

LEMMA ArgShows ==
  ASSUME NEW ival, NEW fval, Commit(RequestDisplayUpdate(NewArg(Machine, ival, fval)))
  PROVE  Current'
<1>1. HasFields(NewArg(Machine, ival, fval))
      BY MachineHasFields, ArgKeepsFields
<1> QED BY <1>1, UpdateShows, CommitShows

LEMMA PeekShows ==
  ASSUME Commit(RequestDisplayUpdate(Machine))
  PROVE  Current'
BY MachineHasFields, UpdateShows, CommitShows

LEMMA BinaryShows ==
  ASSUME Inv, NEW cop, BinaryOp(cop)
  PROVE  Current'
<1> DEFINE priority == Priority(cop) + num_parentheses * PARENTHESES_PRIORITY_RAISE
           m1 == IF bop_stack_index > 0 /\ bop_stack_index >= stack_index
                 THEN BopPop(Machine) ELSE Machine
           m2 == BopPush(ProcessBinOps(m1, priority), cop, priority)
<1>1. Commit(RequestDisplayUpdate(m2))
      BY DEF BinaryOp
<1>2. HasFields(m1)
      BY MachineHasFields, FieldsKept
<1>3. m1.bop_stack_index \in 0..BOP_STACK_SIZE
  <2>1. bop_stack_index \in 0..BOP_STACK_SIZE /\ BOP_STACK_SIZE \in Nat
        BY Sizes DEF Inv, TypeOK
  <2>2. Machine.bop_stack_index = bop_stack_index
        BY DEF Machine
  <2>3. BopPop(Machine).bop_stack_index = bop_stack_index - 1
        BY <2>2, MachineHasFields DEF BopPop, HasFields, MachineFields
  <2> QED BY <2>1, <2>2, <2>3
<1> HIDE DEF m1, priority
<1>4. HasFields(m2)
      BY <1>2, <1>3, ProcessKeepsFields, FieldsKept
<1> HIDE DEF m2
<1> QED BY <1>1, <1>4, UpdateShows, CommitShows

LEMMA RightShows ==
  ASSUME Inv, ParenthesesRight
  PROVE  Current'
<1> DEFINE m == ProcessBinOps(Machine, num_parentheses * PARENTHESES_PRIORITY_RAISE)
<1>1. HasFields(m)
      BY MachineHasFields, InvIndex, ProcessKeepsFields
<1>2. Commit(RequestDisplayUpdate(m))
      BY DEF ParenthesesRight
<1> HIDE DEF m
<1> QED BY <1>1, <1>2, UpdateShows, CommitShows

LEMMA EqualsKeyShows ==
  ASSUME Inv, Equals
  PROVE  Current'
<1>1. Kept(Machine)
      BY InvMachine
<1> QED BY <1>1, MachineHasFields, InvIndex, EqualsShows, CommitShows DEF Equals

\* M+ and a switch of mode evaluate what is outstanding.
LEMMA OutstandingShows ==
  ASSUME Inv, Commit(StackPeek(EvaluateOutstanding)), ready
  PROVE  Current'
<1> DEFINE m0 == [Machine EXCEPT !.bin_op_was_entered = FALSE]
           m  == OpEquals(m0)
<1>1. HasFields(m0) /\ m0.bop_stack_index \in 0..BOP_STACK_SIZE /\ Kept(m0)
  <2>1. m0.bop_stack_index = Machine.bop_stack_index /\ m0.bin_op_was_entered = FALSE
        BY MachineHasFields DEF HasFields, MachineFields
  <2> QED BY <2>1, MachineHasFields, InvIndex DEF HasFields, Kept
<1>2. ConfigOK /\ Sound(m0) /\ Runnable(m0)
  <2>1. ConfigOK /\ Sound(Machine) /\ Runnable(Machine)
        BY InvMachine
  <2> QED BY <2>1 DEF Sound, Machines, Runnable
<1> HIDE DEF m0
<1>3. Showing(m)
      BY <1>1, EqualsShows
<1>4. Sound(m)
      BY <1>1, <1>2, OpEqualsSound
<1>5. m \in Machines /\ m.stack_index > 0
      BY <1>4, IndexTypes DEF Sound
<1>6. StackPeek(m) = m
      BY <1>5, StackPeekSound
<1>7. Commit(m)
      BY <1>6 DEF EvaluateOutstanding, m0
<1> HIDE DEF m
<1> QED BY <1>3, <1>7, CommitShows

LEMMA ClearShows ==
  ASSUME Clear
  PROVE  Current'
<1> DEFINE first == IF init_from_save_val
                    THEN [save_val EXCEPT !.ival = MaskWidth(@, integer_width)]
                    ELSE Zero
           empty == [Machine EXCEPT !.stack_index = 0, !.bop_stack_index = 0,
                                    !.bin_op_was_entered = FALSE]
           m == StackPush(empty, first)
<1>1. HasFields(empty)
      BY MachineHasFields DEF HasFields
<1>2. HasFields(m)
  <2> HIDE DEF empty
  <2> QED BY <1>1, FieldsKept
<1>3. Commit(RequestDisplayUpdate(m))
      BY DEF Clear
<1> HIDE DEF m
<1> QED BY <1>2, <1>3, UpdateShows, CommitShows

-----------------------------------------------------------------------------
(* The calls of a handler                                                   *)

LEMMA CallFields ==
  ASSUME NEW c \in CallType
  PROVE  /\ c.call = "give" => c.el \in StackEl /\ c.typing \in BOOLEAN
         /\ c.call = "set_width" => c.width \in Width
         /\ c.call = "xor" => c.mask \in BitMasks
         /\ c.call \in {"mem", "mem_label"} => c.k \in Memory
         /\ c.call = "mem" => c.cop \in {"ms", "mr", "mp"}
BY DEF CallType

\* What is due after the first call is among the calls that follow it.
LEMMA AfterHead ==
  ASSUME NEW s \in Seq(CallType), Orderly(s), s # <<>>, NEW c, c = Head(s), NEW t, t = Tail(s)
  PROVE  /\ c = s[1] /\ c \in CallType
         /\ t \in Seq(CallType) /\ Orderly(t) /\ Len(t) = Len(s) - 1
         /\ t # <<>> => ~GivesTyped(t[1])
         /\ Elements(s) = {c} \cup Elements(t)
         /\ Hides(c) => \E d \in Elements(t) : Shows(d)
         /\ c.call = "set_mode" => \E d \in Elements(t) : d.call = "recreate"
         /\ c.call = "recreate" => \E d \in Elements(t) : d.call = "clear"
         /\ c.call = "mem" => \E d \in Elements(t) : IsLabelOf(d, c.k)
<1>1. /\ c = s[1] /\ c \in CallType /\ Len(s) \in Nat /\ Len(s) >= 1
      /\ t \in Seq(CallType) /\ Len(t) = Len(s) - 1
      /\ \A i \in 1..Len(t) : t[i] = s[i + 1]
      OBVIOUS
<1>2. \A j \in 2..Len(s) : j - 1 \in 1..Len(t) /\ s[j] = t[j - 1]
      BY <1>1
<1>3. \A j \in 2..Len(s) : s[j] \in Elements(t)
      BY <1>2 DEF Elements
<1>4. Elements(s) = {c} \cup Elements(t)
  <2>1. \A i \in 1..Len(t) : i + 1 \in 1..Len(s)
        BY <1>1
  <2>2. \A j \in 1..Len(s) : j = 1 \/ j \in 2..Len(s)
        BY <1>1
  <2>3. 1 \in 1..Len(s)
        BY <1>1
  <2> QED BY <1>1, <1>3, <2>1, <2>2, <2>3 DEF Elements
<1>5. /\ Hides(c) => \E d \in Elements(t) : Shows(d)
      /\ c.call = "set_mode" => \E d \in Elements(t) : d.call = "recreate"
      /\ c.call = "recreate" => \E d \in Elements(t) : d.call = "clear"
      /\ c.call = "mem" => \E d \in Elements(t) : IsLabelOf(d, c.k)
  <2>1. 1 \in 1..Len(s) /\ 1 + 1 = 2
        BY <1>1
  <2> QED BY <1>1, <1>3, <2>1 DEF Orderly
<1>6. Orderly(t)
  <2> SUFFICES ASSUME NEW i \in 1..Len(t)
               PROVE  /\ Hides(t[i]) => \E j \in i + 1..Len(t) : Shows(t[j])
                      /\ t[i].call = "set_mode" =>
                           \E j \in i + 1..Len(t) : t[j].call = "recreate"
                      /\ t[i].call = "recreate" =>
                           \E j \in i + 1..Len(t) : t[j].call = "clear"
                      /\ t[i].call = "mem" =>
                           \E j \in i + 1..Len(t) : IsLabelOf(t[j], t[i].k)
                      /\ ~GivesTyped(t[i])
      BY DEF Orderly
  <2> DEFINE n == i + 1
  <2>1. n \in 1..Len(s) /\ n # 1 /\ s[n] = t[i]
        BY <1>1
  <2>2. \A j \in n + 1..Len(s) : j - 1 \in i + 1..Len(t) /\ s[j] = t[j - 1]
        BY <1>1
  <2> HIDE DEF n
  <2>3. /\ Hides(s[n]) => \E j \in n + 1..Len(s) : Shows(s[j])
        /\ s[n].call = "set_mode" => \E j \in n + 1..Len(s) : s[j].call = "recreate"
        /\ s[n].call = "recreate" => \E j \in n + 1..Len(s) : s[j].call = "clear"
        /\ s[n].call = "mem" => \E j \in n + 1..Len(s) : IsLabelOf(s[j], s[n].k)
        /\ ~GivesTyped(s[n])
        BY <2>1 DEF Orderly
  <2> QED BY <2>1, <2>2, <2>3
<1>7. t # <<>> => ~GivesTyped(t[1])
  <2> SUFFICES ASSUME t # <<>> PROVE ~GivesTyped(t[1])
      OBVIOUS
  <2>1. 1 \in 1..Len(t)
        BY <1>1
  <2>2. t[1] = s[2] /\ 2 \in 1..Len(s) /\ 2 # 1
        BY <1>1, <2>1
  <2> QED BY <2>2 DEF Orderly
<1> QED BY <1>1, <1>4, <1>5, <1>6, <1>7

\* The same, of the session.
LEMMA NextCall ==
  ASSUME SessionInv, ~Idle, calls' = Tail(calls)
  PROVE  /\ CallsOK' /\ Head(calls) \in CallType /\ Head(calls) = calls[1]
         /\ Pending = {Head(calls)} \cup Pending'
         /\ Hides(Head(calls)) => \E d \in Pending' : Shows(d)
         /\ Head(calls).call = "set_mode" => \E d \in Pending' : d.call = "recreate"
         /\ Head(calls).call = "recreate" => \E d \in Pending' : d.call = "clear"
         /\ Head(calls).call = "mem" => \E d \in Pending' : IsLabelOf(d, Head(calls).k)
         /\ Len(calls) = 1 => Idle'
<1> DEFINE c == Head(calls)
           t == Tail(calls)
<1>1. calls \in Seq(CallType) /\ Orderly(calls) /\ calls # <<>>
      BY DEF SessionInv, CallsOK, Idle
<1>2. /\ c = calls[1] /\ c \in CallType
      /\ t \in Seq(CallType) /\ Orderly(t) /\ Len(t) = Len(calls) - 1
      /\ t # <<>> => ~GivesTyped(t[1])
      /\ Elements(calls) = {c} \cup Elements(t)
      /\ Hides(c) => \E d \in Elements(t) : Shows(d)
      /\ c.call = "set_mode" => \E d \in Elements(t) : d.call = "recreate"
      /\ c.call = "recreate" => \E d \in Elements(t) : d.call = "clear"
      /\ c.call = "mem" => \E d \in Elements(t) : IsLabelOf(d, c.k)
  <2> HIDE DEF c, t
  <2> QED BY <1>1, AfterHead DEF c, t
<1>3. Pending' = Elements(t)
      BY DEF Pending, Elements
<1>4. Len(calls) = 1 => t = <<>>
      BY <1>1
<1> HIDE DEF c, t
<1>5. CallsOK'
      BY <1>2 DEF CallsOK, Idle, Orderly, Hides, Shows, GivesTyped, IsLabelOf, t
<1> QED BY <1>2, <1>3, <1>4, <1>5 DEF c, t, Pending, Idle

-----------------------------------------------------------------------------
(* Each call keeps the invariant                                            *)

\* A call that ends in gui_result_callback.
LEMMA AfterAnswer ==
  ASSUME SessionInv, Call, Inv', Current', Answered, UNCHANGED buttonVars,
         Head(calls).call \notin {"recreate", "mem_label"},
         calc_mode' = calc_mode \/ \E d \in Pending' : d.call = "recreate",
         \/ UNCHANGED memVars
         \/ \E d \in Pending' : d.call = "mem_label",
         \A k \in Memory :
           \/ mem_val'[k] = mem_val[k] /\ mem_was_unsigned'[k] = mem_was_unsigned[k]
           \/ \E d \in Pending' : IsLabelOf(d, k)
  PROVE  SessionInv'
<1> DEFINE c == Head(calls)
<1>1. /\ ~Idle /\ calls' = Tail(calls) /\ key' = key
      /\ given' = (given \/ GivesTyped(c))
      BY DEF Call, GivesTyped
<1>2. CallsOK' /\ Pending = {c} \cup Pending'
      BY <1>1, NextCall
<1> HIDE DEF c
<1>3. /\ arg_pending' = FALSE
      /\ labels' = [labels EXCEPT !.bop = shown'.cop, !.parl = num_parentheses']
      BY DEF Answered, ResultCallback, EngineLabels
<1>4. SessionTypes
      BY DEF SessionInv
<1>5. /\ DOMAIN labels' = DOMAIN labels
      /\ labels'.bop = shown'.cop /\ labels'.parl = num_parentheses'
      /\ labels'.status = labels.status /\ labels'.mem = labels.mem
      /\ labels'.tooltip = labels.tooltip /\ labels'.keys = labels.keys
      BY <1>3, <1>4 DEF SessionTypes
<1>6. SessionTypes'
      BY <1>1, <1>3, <1>4, <1>5 DEF SessionTypes
<1>7. DisplayFresh'
      BY DEF DisplayFresh
<1>8. EngineLabelsTrue'
      BY <1>5 DEF EngineLabelsTrue, Current
<1>9. (\E d \in Pending : d.call = "recreate") => \E d \in Pending' : d.call = "recreate"
      BY <1>2 DEF c
<1>10. ModeLabelsTrue'
  <2>1. CASE \E d \in Pending' : d.call = "recreate"
        BY <2>1 DEF ModeLabelsTrue
  <2>2. CASE ~\E d \in Pending' : d.call = "recreate"
    <3>1. /\ labels.status = Status(calc_mode, gui_radix, angle)
          /\ InFloat => labels.keys = KeyTexts(inv_selected, hyp_selected)
          BY <1>9, <2>2 DEF SessionInv, ModeLabelsTrue
    <3>2. calc_mode' = calc_mode
          BY <2>2
    <3> QED BY <1>5, <3>1, <3>2 DEF ModeLabelsTrue, buttonVars, InFloat
  <2> QED BY <2>1, <2>2
<1>11. MemLabelsTrue'
  <2>1. CASE \E d \in Pending' : d.call = "recreate"
        BY <2>1 DEF MemLabelsTrue
  <2>2. CASE ~\E d \in Pending' : d.call = "recreate"
    <3>1. /\ labels.mem = NonZero(calc_mode, mem_val) \/ \E d \in Pending : d.call = "mem_label"
          /\ \A k \in Memory :
               \/ labels.tooltip[k] = Tooltip(calc_mode, mem_val, mem_was_unsigned, k)
               \/ \E d \in Pending : IsLabelOf(d, k)
          BY <1>9, <2>2 DEF SessionInv, MemLabelsTrue
    <3>2. calc_mode' = calc_mode
          BY <2>2
    <3>3. /\ \A k : ~IsLabelOf(c, k)
          /\ c.call # "mem_label"
          BY DEF c, IsLabelOf
    <3>4. labels'.mem = NonZero(calc_mode, mem_val)' \/ \E d \in Pending' : d.call = "mem_label"
          BY <1>2, <1>5, <3>1, <3>2, <3>3 DEF memVars, NonZero
    <3>5. ASSUME NEW k \in Memory, ~\E d \in Pending' : IsLabelOf(d, k)
          PROVE  labels'.tooltip[k] = Tooltip(calc_mode', mem_val', mem_was_unsigned', k)
      <4>1. mem_val'[k] = mem_val[k] /\ mem_was_unsigned'[k] = mem_was_unsigned[k]
            BY <3>5
      <4>2. labels.tooltip[k] = Tooltip(calc_mode, mem_val, mem_was_unsigned, k)
            BY <1>2, <3>1, <3>3, <3>5
      <4> QED BY <1>5, <3>2, <4>1, <4>2 DEF Tooltip
    <3> QED BY <3>4, <3>5 DEF MemLabelsTrue
  <2> QED BY <2>1, <2>2
<1>12. Taken'
      BY <1>3 DEF Taken
<1> QED BY <1>2, <1>6, <1>7, <1>8, <1>10, <1>11, <1>12 DEF SessionInv

\* No call makes a number pending, and the first one gives it.
LEMMA TakenCall ==
  ASSUME SessionInv, Call, arg_pending' => arg_pending
  PROVE  Taken'
<1> DEFINE c == Head(calls)
<1>1. /\ ~Idle /\ calls' = Tail(calls) /\ key' = key
      /\ given' = (given \/ GivesTyped(c))
      BY DEF Call, GivesTyped
<1>2. c = calls[1] /\ (Len(calls) = 1 => Idle')
      BY <1>1, NextCall
<1> HIDE DEF c
<1>3. Taken
      BY DEF SessionInv
<1> QED BY <1>1, <1>2, <1>3 DEF Taken

\* A call without gui_result_callback.
LEMMA AfterSilent ==
  ASSUME SessionInv, Call, Inv', Silent, UNCHANGED buttonVars,
         calc_mode' = calc_mode, UNCHANGED memVars, num_parentheses' = num_parentheses,
         TopOp(Machine)' = TopOp(Machine),
         Head(calls).call \notin {"recreate", "mem_label", "clear"},
         ~Shows(Head(calls)),
         Hides(Head(calls)) \/ arg_pending \/ (Current => Current')
  PROVE  SessionInv'
<1> DEFINE c == Head(calls)
<1>1. /\ ~Idle /\ calls' = Tail(calls) /\ key' = key
      /\ given' = (given \/ GivesTyped(c)) /\ (given \in BOOLEAN => given' \in BOOLEAN)
      BY DEF Call, GivesTyped
<1>2. /\ CallsOK' /\ Pending = {c} \cup Pending'
      /\ Hides(c) => \E d \in Pending' : Shows(d)
      BY <1>1, NextCall
<1>3. c.call \notin {"recreate", "mem_label", "clear"} /\ ~Shows(c)
      OBVIOUS
<1>4. Hides(c) \/ arg_pending \/ (Current => Current')
      OBVIOUS
<1> HIDE DEF c
<1>5. UNCHANGED <<arg_pending, typed, labels>>
      BY DEF Silent, typingVars
<1>6. UNCHANGED <<inv_selected, hyp_selected, angle, gui_radix, mem_val, mem_was_unsigned>>
      BY DEF buttonVars, memVars
<1>7. SessionTypes'
      BY <1>1, <1>5 DEF SessionInv, SessionTypes, InInteger
<1>8. DisplayFresh'
      BY <1>2, <1>3, <1>4, <1>5 DEF SessionInv, DisplayFresh
<1>9. EngineLabelsTrue'
      BY <1>2, <1>3, <1>5 DEF SessionInv, EngineLabelsTrue
<1>10. ModeLabelsTrue'
      BY <1>2, <1>3, <1>5, <1>6 DEF SessionInv, ModeLabelsTrue, InFloat
<1>11. MemLabelsTrue'
  <2>1. \A k : ~IsLabelOf(c, k)
        BY <1>3 DEF IsLabelOf
  <2>2. MemLabelsTrue
        BY DEF SessionInv
  <2> QED BY <1>2, <1>3, <1>5, <1>6, <2>1, <2>2 DEF MemLabelsTrue
<1>12. Taken'
      BY <1>5, TakenCall
<1> QED BY <1>2, <1>7, <1>8, <1>9, <1>10, <1>11, <1>12 DEF SessionInv

\* m differs from the engine in its arguments only.
LEMMA SameOp ==
  ASSUME NEW m, SameBops(m, Machine), Commit(m)
  PROVE  TopOp(Machine)' = TopOp(Machine)
BY DEF SameBops, Commit, TopOp, Machine

LEMMA InputTypes ==
  /\ IZero \in IVal /\ FZero \in FVal
  /\ FloatEl(Pi) \in StackEl
  /\ \A r \in RandVals : FloatEl(r) \in StackEl
  /\ \A w \in Width : IntEl(IntMin(w)) \in StackEl
<1>1. /\ IZero \in IVal /\ FZero \in FVal /\ Pi \in FVal /\ \A r \in RandVals : r \in FVal
      BY InputsAssumption
<1>2. \A w \in Width : IntMin(w) \in IVal
      BY OperationsClosed
<1> QED BY <1>1, <1>2 DEF FloatEl, IntEl, StackEl

\* A value the engine enters itself.
LEMMA EnterAnswers ==
  ASSUME Inv, ready, NEW el \in StackEl, Enter(el)
  PROVE  Inv' /\ Current' /\ UNCHANGED <<calc_mode, memVars>>
<1>1. Inv'
      BY EnterInv
<1>2. Current'
      BY ArgShows DEF Enter
<1> QED BY <1>1, <1>2 DEF Enter, modeVars

LEMMA OpAnswers ==
  ASSUME Inv, NEW cop, CallOp(cop), ~Refused(cop)
  PROVE  Inv' /\ Current' /\ Answered /\ UNCHANGED <<calc_mode, memVars>>
<1>0. Answered
      BY DEF CallOp
<1>1. CASE Peek
  <2>1. Current'
        BY <1>1, PeekShows DEF Peek
  <2> QED BY <1>0, <1>1, <2>1, PeekInv DEF Peek, modeVars
<1>2. CASE Equals
      BY <1>0, <1>2, EqualsInv, EqualsKeyShows DEF Equals, modeVars
<1>3. CASE cop \in BinaryOps /\ BinaryOp(cop)
  <2>1. Inv' /\ Current'
        BY <1>3, BinaryOpInv, BinaryShows
  <2> QED BY <1>0, <1>3, <2>1 DEF BinaryOp, modeVars
<1>4. CASE cop \in IntUnaryOps \cup FloatUnaryOps /\ UnaryOp(cop)
  <2>1. Inv' /\ Current'
        BY <1>4, UnaryOpInv, UnaryShows
  <2> QED BY <1>0, <1>4, <2>1 DEF UnaryOp, modeVars
<1>5. CASE ParenthesesLeft
  <2>1. Inv' /\ Current'
        BY <1>5, ParenthesesLeftInv, ArgShows DEF ParenthesesLeft
  <2> QED BY <1>0, <1>5, <2>1 DEF ParenthesesLeft, modeVars
<1>6. CASE ParenthesesRight
  <2>1. Inv' /\ Current'
        BY <1>6, ParenthesesRightInv, RightShows
  <2> QED BY <1>0, <1>6, <2>1 DEF ParenthesesRight, modeVars
<1>7. CASE EnterPi
      BY <1>0, <1>7, InputTypes, EnterAnswers DEF EnterPi, Pressed
<1>8. CASE EnterRand
  <2>1. PICK r \in RandVals : Enter(FloatEl(r))
        BY <1>8 DEF EnterRand
  <2> QED BY <1>0, <1>8, <2>1, InputTypes, EnterAnswers DEF EnterRand, Pressed
<1>9. CASE EnterIntMin
  <2>1. IntEl(IntMin(integer_width)) \in StackEl
        BY InputTypes DEF Inv, TypeOK
  <2> QED BY <1>0, <1>9, <2>1, EnterAnswers DEF EnterIntMin, Pressed
<1> QED BY <1>1, <1>2, <1>3, <1>4, <1>5, <1>6, <1>7, <1>8, <1>9 DEF CallOp

\* A memory is written or read, the others stay.
LEMMA MemAnswers ==
  ASSUME Inv, NEW k \in Memory, NEW cop \in {"ms", "mr", "mp"}, CallMem(cop, k)
  PROVE  /\ Inv' /\ Current' /\ Answered /\ calc_mode' = calc_mode
         /\ \A j \in Memory :
              j # k => mem_val'[j] = mem_val[j] /\ mem_was_unsigned'[j] = mem_was_unsigned[j]
<1>0. Answered /\ mem_val \in [Memory -> StackEl] /\ mem_was_unsigned \in [Memory -> BOOLEAN]
      BY DEF CallMem, Inv, TypeOK
<1>1. CASE cop = "ms"
  <2>1. MemoryStore(k)
        BY <1>1 DEF CallMem
  <2>2. Inv' /\ Current' /\ calc_mode' = calc_mode
        BY <2>1, MemoryStoreInv, PeekShows DEF MemoryStore, modeVars
  <2>3. /\ \/ \E v : mem_val' = [mem_val EXCEPT ![k].ival = v]
           \/ \E v : mem_val' = [mem_val EXCEPT ![k].fval = v]
        /\ \/ mem_was_unsigned' = [mem_was_unsigned EXCEPT ![k] = use_unsigned]
           \/ mem_was_unsigned' = mem_was_unsigned
        BY <2>1 DEF MemoryStore
  <2> QED BY <1>0, <2>2, <2>3
<1>2. CASE cop = "mr"
  <2>1. MemoryRecall(k)
        BY <1>2 DEF CallMem
  <2>2. Inv' /\ Current'
        BY <2>1, MemoryRecallInv, ArgShows DEF MemoryRecall
  <2> QED BY <1>0, <2>1, <2>2 DEF MemoryRecall, modeVars, memVars
<1>3. CASE cop = "mp"
  <2>1. MemoryPlus(k)
        BY <1>3 DEF CallMem
  <2>2. Inv' /\ Current' /\ calc_mode' = calc_mode
        BY <2>1, MemoryPlusInv, OutstandingShows DEF MemoryPlus, Pressed, modeVars
  <2>3. /\ \/ \E v : mem_val' = [mem_val EXCEPT ![k].ival = v]
           \/ \E t : mem_val' = [mem_val EXCEPT ![k].fval = FopBinary("add", @, t)]
        /\ \/ mem_was_unsigned' = [mem_was_unsigned EXCEPT ![k] = use_unsigned]
           \/ mem_was_unsigned' = mem_was_unsigned
        BY <2>1 DEF MemoryPlus
  <2> QED BY <1>0, <2>2, <2>3
<1> QED BY <1>1, <1>2, <1>3

LEMMA GiveKeeps ==
  ASSUME Inv, NEW el \in StackEl, CallGive(el)
  PROVE  /\ Inv' /\ TopOp(Machine)' = TopOp(Machine) /\ Silent
         /\ UNCHANGED <<calc_mode, memVars, num_parentheses>>
<1> DEFINE m == NewArg(Machine, el.ival, el.fval)
<1>1. el.ival \in IVal /\ el.fval \in FVal /\ GiveArg(el.ival, el.fval)
      BY StackElType DEF CallGive
<1>2. SameBops(m, Machine)
      BY <1>1, InvMachine, NewArgSound DEF GiveArg
<1>3. Commit(m)
      BY <1>1 DEF GiveArg
<1> HIDE DEF m
<1>4. TopOp(Machine)' = TopOp(Machine)
      BY <1>2, <1>3, SameOp
<1> QED BY <1>1, <1>4, GiveArgInv DEF GiveArg, CallGive, Silent, modeVars

LEMMA UnsignedKeeps ==
  ASSUME Inv, SetUseUnsigned
  PROVE  /\ Inv' /\ TopOp(Machine)' = TopOp(Machine)
         /\ UNCHANGED <<calc_mode, memVars, num_parentheses>>
<1> DEFINE m == MaskStackAll(Machine, integer_width)
<1>1. ConfigOK /\ Sound(Machine)
      BY InvMachine DEF SetUseUnsigned
<1>2. SameBops(m, Machine)
      BY <1>1, MaskStackAllSound DEF ConfigOK
<1>3. Commit(m)
      BY DEF SetUseUnsigned
<1> HIDE DEF m
<1> QED BY <1>2, <1>3, SameOp, SetUseUnsignedInv DEF SetUseUnsigned, modeVars, parenVars

LEMMA WidthKeeps ==
  ASSUME Inv, NEW width \in Width, SetIntegerWidth(width)
  PROVE  /\ Inv' /\ TopOp(Machine)' = TopOp(Machine)
         /\ UNCHANGED <<calc_mode, memVars, num_parentheses>>
<1> DEFINE f  == [v \in IVal |-> GetSigned(v, integer_width)]
           m1 == IF use_unsigned THEN Machine ELSE MapStack(Machine, f)
           m  == MaskStackAll(m1, width)
<1>1. ConfigOK /\ Sound(Machine)
      BY InvMachine DEF SetIntegerWidth
<1>2. f \in [IVal -> IVal]
      BY <1>1, OperationsClosed DEF ConfigOK
<1>3. Sound(m1) /\ SameBops(m1, Machine)
  <2> HIDE DEF f
  <2>1. Sound(MapStack(Machine, f)) /\ SameBops(MapStack(Machine, f), Machine)
        BY <1>1, <1>2, MapStackSound
  <2>2. SameBops(Machine, Machine)
        BY DEF SameBops
  <2> QED BY <1>1, <2>1, <2>2
<1>4. Commit(m)
      BY DEF SetIntegerWidth
<1> HIDE DEF m1
<1>5. SameBops(m, Machine)
      BY <1>3, MaskStackAllSound DEF SameBops
<1> HIDE DEF m
<1> QED BY <1>4, <1>5, SameOp, SetIntegerWidthInv DEF SetIntegerWidth, modeVars, parenVars

\* The engine stays as it is.
LEMMA EngineStays ==
  ASSUME Inv, UNCHANGED vars
  PROVE  /\ Inv' /\ TopOp(Machine)' = TopOp(Machine) /\ (Current => Current')
         /\ UNCHANGED <<calc_mode, memVars, num_parentheses, integer_width>>
<1>1. Inv'
      BY StepInv
<1>2. UNCHANGED <<machineVars, modeVars, configVars, parenVars, memVars>>
      BY DEF vars
<1> QED BY <1>1, <1>2 DEF machineVars, modeVars, configVars, parenVars, Machine, Current

LEMMA RecreateKeeps ==
  ASSUME SessionInv, Call, Head(calls).call = "recreate", gui_recreate
  PROVE  SessionInv'
<1> DEFINE c == Head(calls)
<1>1. /\ ~Idle /\ calls' = Tail(calls) /\ key' = key
      /\ given' = (given \/ GivesTyped(c)) /\ (given \in BOOLEAN => given' \in BOOLEAN)
      BY DEF Call, GivesTyped
<1>2. /\ CallsOK' /\ Pending = {c} \cup Pending'
      /\ c.call = "recreate" => \E d \in Pending' : d.call = "clear"
      BY <1>1, NextCall
<1>3. c.call = "recreate"
      OBVIOUS
<1> HIDE DEF c
<1>4. /\ UNCHANGED <<arg_pending, typed, hyp_selected, angle, gui_radix>> /\ UNCHANGED vars
      /\ inv_selected' = FALSE /\ labels' = RecreatedLabels
      BY DEF gui_recreate, typingVars
<1>5. /\ Inv' /\ (Current => Current')
      /\ UNCHANGED <<calc_mode, memVars, num_parentheses>>
      BY <1>4, EngineStays DEF SessionInv
<1>6. /\ labels'.status = Status(calc_mode, gui_radix, angle)
      /\ labels'.mem = NonZero(calc_mode, mem_val)
      /\ labels'.tooltip = [k \in Memory |-> Tooltip(calc_mode, mem_val, mem_was_unsigned, k)]
      /\ InFloat => labels'.keys = KeyTexts(FALSE, hyp_selected)
      /\ DOMAIN labels' = {"bop", "parl", "status", "mem", "tooltip", "keys"}
      BY <1>4 DEF RecreatedLabels
<1>7. SessionTypes'
      BY <1>1, <1>4, <1>5, <1>6 DEF SessionInv, SessionTypes, InInteger
<1>8. DisplayFresh'
      BY <1>2, <1>3, <1>4, <1>5 DEF SessionInv, DisplayFresh, Shows
<1>9. EngineLabelsTrue'
      BY <1>2, <1>3 DEF EngineLabelsTrue
<1>10. ModeLabelsTrue'
      BY <1>4, <1>5, <1>6 DEF ModeLabelsTrue, InFloat
<1>11. MemLabelsTrue'
      BY <1>5, <1>6 DEF MemLabelsTrue, memVars
<1>12. Taken'
      BY <1>4, TakenCall
<1> QED BY <1>2, <1>5, <1>7, <1>8, <1>9, <1>10, <1>11, <1>12 DEF SessionInv

LEMMA MemLabelKeeps ==
  ASSUME SessionInv, Call, Head(calls).call = "mem_label", NEW k, k = Head(calls).k,
         labels' = MemLabels(k), UNCHANGED <<vars, typingVars, formatVars, buttonVars>>
  PROVE  SessionInv'
<1> DEFINE c == Head(calls)
<1>1. /\ ~Idle /\ calls' = Tail(calls) /\ key' = key
      /\ given' = (given \/ GivesTyped(c)) /\ (given \in BOOLEAN => given' \in BOOLEAN)
      BY DEF Call, GivesTyped
<1>2. CallsOK' /\ Pending = {c} \cup Pending' /\ c \in CallType
      BY <1>1, NextCall
<1>3. c.call = "mem_label" /\ k = c.k
      OBVIOUS
<1> HIDE DEF c
<1>4. k \in Memory
      BY <1>2, <1>3, CallFields
<1>5. UNCHANGED <<arg_pending, typed, inv_selected, hyp_selected, angle, gui_radix, vars>>
      BY DEF typingVars, buttonVars
<1>6. /\ Inv' /\ (Current => Current') /\ TopOp(Machine)' = TopOp(Machine)
      /\ UNCHANGED <<calc_mode, mem_val, mem_was_unsigned, num_parentheses>>
      BY <1>5, EngineStays DEF SessionInv, memVars
<1>7. /\ DOMAIN labels = {"bop", "parl", "status", "mem", "tooltip", "keys"}
      /\ DOMAIN labels.tooltip = Memory
      BY DEF SessionInv, SessionTypes
<1>8. /\ DOMAIN labels' = {"bop", "parl", "status", "mem", "tooltip", "keys"}
      /\ DOMAIN labels'.tooltip = Memory
      /\ labels'.bop = labels.bop /\ labels'.parl = labels.parl
      /\ labels'.status = labels.status /\ labels'.keys = labels.keys
      /\ labels'.mem = NonZero(calc_mode, mem_val)
      /\ labels'.tooltip[k] = Tooltip(calc_mode, mem_val, mem_was_unsigned, k)
      /\ \A j \in Memory : j # k => labels'.tooltip[j] = labels.tooltip[j]
      BY <1>4, <1>7 DEF MemLabels
<1>9. SessionTypes'
      BY <1>1, <1>5, <1>6, <1>8 DEF SessionInv, SessionTypes, InInteger
<1>10. DisplayFresh'
      BY <1>2, <1>3, <1>5, <1>6 DEF SessionInv, DisplayFresh, Shows
<1>11. EngineLabelsTrue'
      BY <1>2, <1>3, <1>6, <1>8 DEF SessionInv, EngineLabelsTrue
<1>12. ModeLabelsTrue'
      BY <1>2, <1>3, <1>5, <1>6, <1>8 DEF SessionInv, ModeLabelsTrue, InFloat
<1>13. MemLabelsTrue'
  <2>1. CASE \E d \in Pending' : d.call = "recreate"
        BY <2>1 DEF MemLabelsTrue
  <2>2. CASE ~\E d \in Pending' : d.call = "recreate"
    <3>1. \A j \in Memory :
            \/ labels.tooltip[j] = Tooltip(calc_mode, mem_val, mem_was_unsigned, j)
            \/ \E d \in Pending : IsLabelOf(d, j)
          BY <1>2, <1>3, <2>2 DEF SessionInv, MemLabelsTrue
    <3>2. ASSUME NEW j \in Memory, ~\E d \in Pending' : IsLabelOf(d, j)
          PROVE  labels'.tooltip[j] = Tooltip(calc_mode', mem_val', mem_was_unsigned', j)
      <4>1. CASE j = k
            BY <1>6, <1>8, <4>1
      <4>2. CASE j # k
        <5>1. ~IsLabelOf(c, j)
              BY <1>3, <4>2 DEF IsLabelOf
        <5> QED BY <1>2, <1>6, <1>8, <3>1, <3>2, <4>2, <5>1
      <4> QED BY <4>1, <4>2
    <3>3. labels'.mem = NonZero(calc_mode', mem_val')
          BY <1>6, <1>8
    <3> QED BY <3>2, <3>3 DEF MemLabelsTrue
  <2> QED BY <2>1, <2>2
<1>14. Taken'
      BY <1>5, TakenCall
<1> QED BY <1>2, <1>6, <1>9, <1>10, <1>11, <1>12, <1>13, <1>14 DEF SessionInv

LEMMA CallInv ==
  ASSUME SessionInv, Call
  PROVE  SessionInv'
<1> DEFINE c == Head(calls)
<1>0. Inv /\ CallsOK /\ ~Idle /\ calls' = Tail(calls) /\ Do(c)
      BY DEF SessionInv, Call
<1>1. /\ c \in CallType /\ c = calls[1]
      /\ c.call = "set_mode" => \E d \in Pending' : d.call = "recreate"
      /\ c.call = "mem" => \E d \in Pending' : IsLabelOf(d, c.k)
      BY <1>0, NextCall
<1>2. CASE c.call = "recreate" /\ gui_recreate
      BY <1>2, RecreateKeeps
<1>3. CASE /\ c.call = "mem_label" /\ labels' = MemLabels(c.k)
           /\ UNCHANGED <<vars, typingVars, formatVars, buttonVars>>
      BY <1>3, MemLabelKeeps
<1>4. CASE UNCHANGED buttonVars /\ c.call = "op" /\ CallOp(c.cop)
  <2>1. CASE Refused(c.cop)
    <3>1. UNCHANGED vars /\ Silent /\ ~Shows(c)
          BY <1>4, <2>1 DEF CallOp, Silent, Refused, Shows
    <3> QED BY <1>0, <1>4, <3>1, EngineStays, AfterSilent
  <2>2. CASE ~Refused(c.cop)
    <3>1. Inv' /\ Current' /\ Answered /\ UNCHANGED <<calc_mode, memVars>>
          BY <1>0, <1>4, <2>2, OpAnswers
    <3> QED BY <1>4, <3>1, AfterAnswer DEF memVars
  <2> QED BY <2>1, <2>2
<1>5. CASE UNCHANGED buttonVars /\ c.call = "mem" /\ CallMem(c.cop, c.k)
  <2>1. c.k \in Memory /\ c.cop \in {"ms", "mr", "mp"}
        BY <1>1, <1>5, CallFields
  <2>2. /\ Inv' /\ Current' /\ Answered /\ calc_mode' = calc_mode
        /\ \A j \in Memory :
             j # c.k => mem_val'[j] = mem_val[j] /\ mem_was_unsigned'[j] = mem_was_unsigned[j]
        BY <1>0, <1>5, <2>1, MemAnswers
  <2>3. \E d \in Pending' : IsLabelOf(d, c.k) /\ d.call = "mem_label"
        BY <1>1, <1>5 DEF IsLabelOf
  <2> QED BY <1>5, <2>2, <2>3, AfterAnswer
<1>6. CASE UNCHANGED buttonVars /\ c.call = "give" /\ CallGive(c.el)
  <2>1. c.el \in StackEl /\ c.typing \in BOOLEAN
        BY <1>1, <1>6, CallFields
  <2>2. Hides(c) \/ arg_pending
        BY <1>0, <1>1, <1>6, <2>1 DEF CallsOK, Hides, GivesTyped
  <2>3. ~Shows(c)
        BY <1>6 DEF Shows
  <2> QED BY <1>0, <1>6, <2>1, <2>2, <2>3, GiveKeeps, AfterSilent
<1>7. CASE UNCHANGED buttonVars /\ c.call = "clear" /\ Clear /\ Answered
  <2>1. Inv' /\ Current' /\ UNCHANGED <<calc_mode, memVars>>
        BY <1>0, <1>7, ClearInv, ClearShows DEF Clear
  <2> QED BY <1>7, <2>1, AfterAnswer DEF memVars
<1>8. CASE UNCHANGED buttonVars /\ c.call = "xor" /\ BitXor(c.mask) /\ Answered
  <2>1. c.mask \in BitMasks
        BY <1>1, <1>8, CallFields
  <2>2. Inv' /\ Current' /\ UNCHANGED <<calc_mode, memVars>>
        BY <1>0, <1>8, <2>1, BitXorInv, XorShows DEF BitXor, modeVars
  <2> QED BY <1>8, <2>2, AfterAnswer DEF memVars
<1>9. CASE UNCHANGED buttonVars /\ c.call = "set_mode" /\ (\E best \in BestIntegers : SetMode(best)) /\ Answered
  <2>1. PICK best \in BestIntegers : SetMode(best)
        BY <1>9
  <2>2. Inv' /\ Current' /\ UNCHANGED memVars
        BY <1>0, <2>1, SetModeInv, OutstandingShows DEF SetMode
  <2> QED BY <1>1, <1>9, <2>2, AfterAnswer DEF memVars
<1>10. CASE UNCHANGED buttonVars /\ c.call = "set_width" /\ SetIntegerWidth(c.width) /\ Silent
  <2>1. c.width \in Width /\ Hides(c) /\ ~Shows(c)
        BY <1>1, <1>10, CallFields DEF Hides, Shows
  <2> QED BY <1>0, <1>10, <2>1, WidthKeeps, AfterSilent
<1>11. CASE UNCHANGED buttonVars /\ c.call = "set_unsigned" /\ SetUseUnsigned /\ Silent
  <2>1. Hides(c) /\ ~Shows(c)
        BY <1>11 DEF Hides, Shows
  <2> QED BY <1>0, <1>11, <2>1, UnsignedKeeps, AfterSilent
<1>12. CASE UNCHANGED buttonVars /\ c.call = "set_repeat" /\ SetRepeatedEquals /\ Silent
  <2>1. /\ UNCHANGED <<calc_mode, memVars, num_parentheses>>
        /\ TopOp(Machine)' = TopOp(Machine) /\ (Current => Current')
        BY <1>12 DEF SetRepeatedEquals, modeVars, parenVars, machineVars, Machine, Current
  <2>2. Inv' /\ ~Shows(c)
        BY <1>0, <1>12, SetRepeatedEqualsInv DEF Shows
  <2> QED BY <1>12, <2>1, <2>2, AfterSilent
<1> QED BY <1>0, <1>2, <1>3, <1>4, <1>5, <1>6, <1>7, <1>8, <1>9, <1>10, <1>11, <1>12 DEF Do

-----------------------------------------------------------------------------
(* What the handlers ask for                                                *)

\* What has to come after a call.
Due(c, s) ==
  /\ Hides(c) => \E d \in Elements(s) : Shows(d)
  /\ c.call = "set_mode" => \E d \in Elements(s) : d.call = "recreate"
  /\ c.call = "recreate" => \E d \in Elements(s) : d.call = "clear"
  /\ c.call = "mem" => \E d \in Elements(s) : IsLabelOf(d, c.k)

\* Calls that do not begin with the number being typed.
Plain(s) ==
  /\ s \in Seq(CallType)
  /\ Orderly(s)
  /\ s # <<>> => ~GivesTyped(s[1])

LEMMA CallBefore ==
  ASSUME NEW t, Plain(t), NEW c \in CallType, Due(c, t), NEW s, s = <<c>> \o t
  PROVE  /\ s \in Seq(CallType) /\ Orderly(s) /\ s # <<>> /\ s[1] = c
         /\ Elements(s) = {c} \cup Elements(t)
         /\ ~GivesTyped(c) => Plain(s)
         /\ t # <<>> => s[Len(s)] = t[Len(t)]
<1>1. /\ t \in Seq(CallType) /\ Len(t) \in Nat
      /\ s \in Seq(CallType) /\ s # <<>> /\ s[1] = c /\ Len(s) = Len(t) + 1
      /\ \A i \in 1..Len(t) : s[i + 1] = t[i]
      BY DEF Plain
<1>2. \A i \in 2..Len(s) : i - 1 \in 1..Len(t) /\ s[i] = t[i - 1]
      BY <1>1
<1>3. Elements(s) = {c} \cup Elements(t)
  <2>1. \A i \in 1..Len(t) : i + 1 \in 1..Len(s)
        BY <1>1
  <2>2. \A i \in 1..Len(s) : i = 1 \/ i \in 2..Len(s)
        BY <1>1
  <2>3. 1 \in 1..Len(s)
        BY <1>1
  <2> QED BY <1>1, <1>2, <2>1, <2>2, <2>3 DEF Elements
<1>4. \A d \in Elements(t) : \E j \in 2..Len(s) : s[j] = d
  <2>1. \A i \in 1..Len(t) : i + 1 \in 2..Len(s)
        BY <1>1
  <2> QED BY <1>1, <2>1 DEF Elements
<1>5. Orderly(s)
  <2> SUFFICES ASSUME NEW i \in 1..Len(s)
               PROVE  /\ Hides(s[i]) => \E j \in i + 1..Len(s) : Shows(s[j])
                      /\ s[i].call = "set_mode" =>
                           \E j \in i + 1..Len(s) : s[j].call = "recreate"
                      /\ s[i].call = "recreate" =>
                           \E j \in i + 1..Len(s) : s[j].call = "clear"
                      /\ s[i].call = "mem" =>
                           \E j \in i + 1..Len(s) : IsLabelOf(s[j], s[i].k)
                      /\ GivesTyped(s[i]) => i = 1
      BY DEF Orderly
  <2>1. CASE i = 1
    <3>1. s[i] = c /\ i + 1 = 2
          BY <1>1, <2>1
    <3>2. Hides(c) => \E j \in 2..Len(s) : Shows(s[j])
          BY <1>4 DEF Due
    <3>3. c.call = "set_mode" => \E j \in 2..Len(s) : s[j].call = "recreate"
          BY <1>4 DEF Due
    <3>4. c.call = "recreate" => \E j \in 2..Len(s) : s[j].call = "clear"
          BY <1>4 DEF Due
    <3>5. c.call = "mem" => \E j \in 2..Len(s) : IsLabelOf(s[j], c.k)
          BY <1>4 DEF Due
    <3> QED BY <2>1, <3>1, <3>2, <3>3, <3>4, <3>5
  <2>2. CASE i # 1
    <3> DEFINE n == i - 1
    <3>1. n \in 1..Len(t) /\ s[i] = t[n]
          BY <1>1, <2>2
    <3>2. \A j \in n + 1..Len(t) : j + 1 \in i + 1..Len(s) /\ s[j + 1] = t[j]
          BY <1>1, <2>2
    <3>3. n = 1 => t # <<>>
          BY <1>1, <3>1
    <3> HIDE DEF n
    <3>4. /\ Hides(t[n]) => \E j \in n + 1..Len(t) : Shows(t[j])
          /\ t[n].call = "set_mode" => \E j \in n + 1..Len(t) : t[j].call = "recreate"
          /\ t[n].call = "recreate" => \E j \in n + 1..Len(t) : t[j].call = "clear"
          /\ t[n].call = "mem" => \E j \in n + 1..Len(t) : IsLabelOf(t[j], t[n].k)
          /\ ~GivesTyped(t[n])
          BY <3>1, <3>3 DEF Plain, Orderly
    <3> QED BY <3>1, <3>2, <3>4, ZenonT(60)
  <2> QED BY <2>1, <2>2
<1>6. t # <<>> => s[Len(s)] = t[Len(t)]
  <2> SUFFICES ASSUME t # <<>> PROVE s[Len(s)] = t[Len(t)]
      OBVIOUS
  <2>1. Len(s) \in 2..Len(s) /\ Len(s) - 1 = Len(t)
        BY <1>1
  <2> QED BY <1>2, <2>1
<1> QED BY <1>1, <1>3, <1>5, <1>6 DEF Plain

LEMMA NoCalls == Plain(<<>>) /\ Elements(<<>>) = {}
BY DEF Plain, Orderly, Elements

\* One call that needs nothing after it.
LEMMA OneCall ==
  ASSUME NEW c \in CallType, ~Hides(c), ~GivesTyped(c),
         c.call \notin {"set_mode", "recreate", "mem"}
  PROVE  Plain(<<c>>) /\ Elements(<<c>>) = {c}
<1> DEFINE t == <<>>
           s == <<c>>
<1>1. Plain(t) /\ Elements(t) = {} /\ s = <<c>> \o t
      BY NoCalls
<1> HIDE DEF t, s
<1>2. Due(c, t)
      BY DEF Due
<1>3. Plain(s) /\ Elements(s) = {c} \cup Elements(t)
      BY ONLY <1>1, <1>2, CallBefore, c \in CallType, ~GivesTyped(c)
<1>4. Elements(s) = {c}
      BY <1>1, <1>3
<1> QED BY <1>3, <1>4 DEF s

\* A call, and one that shows what it did.
LEMMA TwoCalls ==
  ASSUME NEW c \in CallType, NEW d, Plain(<<d>>), Elements(<<d>>) = {d}, ~GivesTyped(c),
         c.call \notin {"set_mode", "recreate"},
         Hides(c) => Shows(d),
         c.call = "mem" => IsLabelOf(d, c.k)
  PROVE  Plain(<<c, d>>) /\ Elements(<<c, d>>) = {c, d}
<1> DEFINE t == <<d>>
           s == <<c, d>>
<1>1. Plain(t) /\ Elements(t) = {d}
      OBVIOUS
<1>0. s = <<c>> \o t
  <2> DEFINE S == {c, d}
             a == <<c>>
  <2>1. s \in Seq(S) /\ t \in Seq(S) /\ a \in Seq(S)
        OBVIOUS
  <2>2. Len(s) = 2 /\ s[1] = c /\ s[2] = d /\ Len(a) = 1 /\ a[1] = c /\ Len(t) = 1 /\ t[1] = d
        OBVIOUS
  <2> HIDE DEF S, a, s, t
  <2>6. /\ a \o t \in Seq(S) /\ Len(a \o t) = Len(a) + Len(t)
        /\ \A i \in 1..Len(a) + Len(t) :
             (a \o t)[i] = IF i <= Len(a) THEN a[i] ELSE t[i - Len(a)]
        BY <2>1, ConcatProperties, Zenon
  <2>3. /\ a \o t \in Seq(S) /\ Len(a \o t) = 2
        /\ (a \o t)[1] = c /\ (a \o t)[2] = d
        BY <2>2, <2>6
  <2>4. \A i \in 1..Len(s) : s[i] = (a \o t)[i]
        BY <2>2, <2>3
  <2>5. s = a \o t
        BY <2>1, <2>2, <2>3, <2>4, SeqEqual
  <2> QED BY <2>5 DEF a
<1> HIDE DEF t, s
<1>2. Due(c, t)
      BY <1>1 DEF Due
<1>3. Plain(s) /\ Elements(s) = {c} \cup Elements(t)
      BY ONLY <1>0, <1>1, <1>2, CallBefore, c \in CallType, ~GivesTyped(c)
<1>4. Elements(s) = {c, d}
      BY <1>1, <1>3
<1> QED BY <1>3, <1>4 DEF s

LEMMA Peeks == PeekOp \in CallType /\ Shows(PeekOp) /\ Plain(<<PeekOp>>) /\ Elements(<<PeekOp>>) = {PeekOp}
<1>1. PeekOp \in CallType
  <2>1. EngineOp("peek") \in [call : {"op"}, cop : Operations]
        BY DEF EngineOp, Operations, OtherOps
  <2> QED BY <2>1 DEF PeekOp, CallType
<1>2. PeekOp.call = "op" /\ PeekOp.cop = "peek"
      BY DEF PeekOp, EngineOp
<1> QED BY <1>1, <1>2, OneCall DEF Shows, Hides, GivesTyped

LEMMA Simples ==
  ASSUME NEW name \in {"clear", "set_mode", "recreate", "set_unsigned", "set_repeat"}
  PROVE  Simple(name) \in CallType /\ Simple(name).call = name /\ ~GivesTyped(Simple(name))
BY DEF Simple, CallType, GivesTyped

\* give_arg_if_pending first, and then what the key is for.
LEMMA GiveFirst ==
  ASSUME SessionInv, NEW t, Plain(t), NEW s, s = GiveIfPending \o t
  PROVE  /\ s \in Seq(CallType) /\ Orderly(s)
         /\ s # <<>> /\ GivesTyped(s[1]) => arg_pending
         /\ arg_pending => GivesTyped(s[1])
         /\ t # <<>> => s[Len(s)] = t[Len(t)]
<1>1. CASE arg_pending
  <2>1. TypedEl \in StackEl
    <3>1. typed \in IF InInteger THEN IVal ELSE FVal
          BY <1>1 DEF SessionInv, SessionTypes
    <3>2. IZero \in IVal /\ FZero \in FVal
          BY InputsAssumption
    <3> QED BY <3>1, <3>2 DEF TypedEl, IntEl, FloatEl, StackEl
  <2>2. Give(TypedEl, TRUE) \in CallType
        BY <2>1 DEF Give, CallType
  <2>3. PICK c \in CallType : c = Give(TypedEl, TRUE)
        BY <2>2
  <2>4. c.call = "give" /\ c.typing
        BY <2>3 DEF Give
  <2>5. s = <<c>> \o t
        BY <1>1, <2>3 DEF GiveIfPending
  <2>6. Due(c, t) /\ GivesTyped(c)
        BY <2>4 DEF Due, Hides, GivesTyped
  <2>7. s \in Seq(CallType) /\ Orderly(s)
        BY ONLY Plain(t), <2>5, <2>6, CallBefore
  <2>8. s[1] = c
        BY ONLY Plain(t), <2>5, <2>6, CallBefore
  <2>9. t # <<>> => s[Len(s)] = t[Len(t)]
        BY ONLY Plain(t), <2>5, <2>6, CallBefore
  <2> QED BY <1>1, <2>6, <2>7, <2>8, <2>9
<1>2. CASE ~arg_pending
  <2>1. s = t
        BY <1>2 DEF GiveIfPending, Plain
  <2> QED BY <1>2, <2>1 DEF Plain
<1> QED BY <1>1, <1>2

-----------------------------------------------------------------------------
(* Each handler keeps the invariant                                         *)

\* The calls a handler leaves are in order.
CallsStart ==
  /\ calls' \in Seq(CallType) /\ Orderly(calls')
  /\ calls' # <<>> /\ GivesTyped(calls'[1]) => arg_pending'

\* A handler writes labels of the mode and the keys only, and writes them right.
LabelsFollow ==
  /\ DOMAIN labels' = DOMAIN labels
  /\ labels'.bop = labels.bop /\ labels'.parl = labels.parl
  /\ labels'.mem = labels.mem /\ labels'.tooltip = labels.tooltip
  /\ labels'.status = Status(calc_mode, gui_radix', angle')
  /\ InFloat => labels'.keys = KeyTexts(inv_selected', hyp_selected')

\* Between two handlers nothing is left to put right.
LEMMA AllTrue ==
  ASSUME SessionInv, Idle
  PROVE  /\ arg_pending \/ Current
         /\ labels.bop = TopOp(Machine) /\ labels.parl = num_parentheses
         /\ labels.status = Status(calc_mode, gui_radix, angle)
         /\ InFloat => labels.keys = KeyTexts(inv_selected, hyp_selected)
         /\ labels.mem = NonZero(calc_mode, mem_val)
         /\ \A k \in Memory :
              labels.tooltip[k] = Tooltip(calc_mode, mem_val, mem_was_unsigned, k)
<1>1. Pending = {}
      BY DEF Pending, Elements, Idle
<1> QED BY <1>1 DEF SessionInv, DisplayFresh, EngineLabelsTrue, ModeLabelsTrue, MemLabelsTrue

LEMMA HandlerKeeps ==
  ASSUME SessionInv, Idle, UNCHANGED vars, CallsStart, LabelsFollow, Taken',
         arg_pending' \in BOOLEAN, given' \in BOOLEAN, arg_pending => arg_pending',
         arg_pending' => typed' \in IF InInteger THEN IVal ELSE FVal
  PROVE  SessionInv'
<1>1. /\ Inv' /\ TopOp(Machine)' = TopOp(Machine) /\ (Current => Current')
      /\ UNCHANGED <<calc_mode, mem_val, mem_was_unsigned, num_parentheses>>
      BY EngineStays DEF SessionInv, memVars
<1>2. CallsOK'
      BY DEF CallsStart, CallsOK, Idle
<1>3. SessionTypes'
      BY <1>1 DEF SessionInv, SessionTypes, LabelsFollow, InInteger
<1>4. DisplayFresh'
      BY <1>1, AllTrue DEF DisplayFresh
<1>5. EngineLabelsTrue'
      BY <1>1, AllTrue DEF EngineLabelsTrue, LabelsFollow
<1>6. ModeLabelsTrue'
      BY <1>1 DEF ModeLabelsTrue, LabelsFollow, InFloat
<1>7. MemLabelsTrue'
      BY <1>1, AllTrue DEF MemLabelsTrue, LabelsFollow
<1> QED BY <1>1, <1>2, <1>3, <1>4, <1>5, <1>6, <1>7 DEF SessionInv

\* A handler that leaves the number being typed alone.
LEMMA QuietKeeps ==
  ASSUME SessionInv, Idle, UNCHANGED <<vars, typingVars, given>>,
         CallsStart, LabelsFollow, Taken'
  PROVE  SessionInv'
<1>1. UNCHANGED <<arg_pending, typed, given, vars>>
      BY DEF typingVars
<1>2. SessionTypes
      BY DEF SessionInv
<1> QED BY <1>1, <1>2, HandlerKeeps DEF SessionTypes

LEMMA LabelsStay ==
  ASSUME SessionInv, Idle, UNCHANGED <<buttonVars, labels>>
  PROVE  LabelsFollow
BY AllTrue DEF LabelsFollow, buttonVars

LEMMA InvOffFollows ==
  ASSUME SessionInv, Idle, InvOff
  PROVE  LabelsFollow
<1>1. /\ inv_selected' = FALSE /\ UNCHANGED <<hyp_selected, angle, gui_radix>>
      /\ labels' = IF InFloat /\ inv_selected
                   THEN [labels EXCEPT !.keys = KeyTexts(FALSE, hyp_selected)] ELSE labels
      BY DEF InvOff
<1>2. DOMAIN labels = {"bop", "parl", "status", "mem", "tooltip", "keys"}
      BY DEF SessionInv, SessionTypes
<1>3. CASE InFloat /\ inv_selected
      BY <1>1, <1>2, <1>3, AllTrue DEF LabelsFollow
<1>4. CASE ~(InFloat /\ inv_selected)
  <2>1. ~inv_selected => KeyTexts(inv_selected, hyp_selected) = KeyTexts(FALSE, hyp_selected)
        BY DEF KeyTexts
  <2> QED BY <1>1, <1>4, <2>1, AllTrue DEF LabelsFollow
<1> QED BY <1>3, <1>4

LEMMA StartNothing ==
  ASSUME calls' = <<>>
  PROVE  CallsStart /\ Taken'
<1>1. Idle'
      BY DEF Idle
<1> QED BY <1>1, NoCalls DEF CallsStart, Taken, Plain

LEMMA StartPlain ==
  ASSUME NEW t, Plain(t), calls' = t
  PROVE  CallsStart
BY DEF CallsStart, Plain

LEMMA StartGive ==
  ASSUME SessionInv, NEW t, Plain(t), calls' = GiveIfPending \o t, arg_pending' = arg_pending
  PROVE  /\ CallsStart /\ Taken'
         /\ t # <<>> => calls'[Len(calls')] = t[Len(t)]
<1>1. PICK s : s = GiveIfPending \o t
      OBVIOUS
<1>2. /\ s \in Seq(CallType) /\ Orderly(s)
      /\ s # <<>> /\ GivesTyped(s[1]) => arg_pending
      /\ arg_pending => GivesTyped(s[1])
      /\ t # <<>> => s[Len(s)] = t[Len(t)]
      BY <1>1, GiveFirst
<1> QED BY <1>1, <1>2 DEF CallsStart, Taken, Idle

LEMMA OpPlain ==
  ASSUME NEW cop \in Operations
  PROVE  Plain(<<EngineOp(cop)>>)
<1>1. EngineOp(cop) \in CallType /\ EngineOp(cop).call = "op"
      BY DEF EngineOp, CallType
<1> QED BY <1>1, OneCall DEF Hides, GivesTyped

LEMMA ButtonKeeps ==
  ASSUME SessionInv, NEW k, NEW t, Plain(t), Button(k, GiveIfPending \o t)
  PROVE  SessionInv'
<1>1. /\ Idle /\ calls' = GiveIfPending \o t /\ InvOff
      /\ UNCHANGED <<vars, typingVars, given>> /\ UNCHANGED arg_pending
      BY DEF Button, Handler, typingVars
<1> QED BY <1>1, StartGive, InvOffFollows, QuietKeeps

LEMMA ToggleKeeps ==
  ASSUME SessionInv, NEW k, NEW t, Plain(t), Toggle(k, GiveIfPending \o t), LabelsFollow
  PROVE  SessionInv'
<1>1. /\ Idle /\ calls' = GiveIfPending \o t
      /\ UNCHANGED <<vars, typingVars, given>> /\ UNCHANGED arg_pending
      BY DEF Toggle, Handler, typingVars
<1> QED BY <1>1, StartGive, QuietKeeps

LEMMA OpKeyKeeps ==
  ASSUME SessionInv, NEW cop, OpKey(cop)
  PROVE  SessionInv'
<1>1. cop \in Operations
      BY DEF OpKey, HasKey, HasUop, Operations, OtherOps
<1> QED BY <1>1, OpPlain, ButtonKeeps DEF OpKey

LEMMA PlainKeyKeeps ==
  ASSUME SessionInv, NEW cop, PlainKey(cop)
  PROVE  SessionInv'
<1>1. /\ Idle /\ calls' = <<EngineOp(cop)>> /\ key' = cop /\ InvOff
      /\ UNCHANGED <<vars, typingVars, given>> /\ UNCHANGED arg_pending
      /\ (cop = "pm" /\ ~arg_pending) \/ cop \in {"pi", "rand"}
      BY DEF PlainKey, Button, Handler, typingVars
<1>2. cop \in Operations
      BY <1>1 DEF Operations, IntUnaryOps, OtherOps
<1>3. CallsStart
      BY <1>1, <1>2, OpPlain, StartPlain
<1>4. Taken'
      BY <1>1 DEF Taken, Discards
<1> QED BY <1>1, <1>3, <1>4, InvOffFollows, QuietKeeps

\* The function INV and HYP make of a key.
LEMMA FunctionOf ==
  ASSUME NEW cop \in InvKeys
  PROVE  /\ cop_or_inv(cop_or_hyp(cop)) \in Operations
         /\ KeyTexts(inv_selected, hyp_selected)[cop] = cop_or_inv(cop_or_hyp(cop))
<1> USE DEF InvKeys, Trig
<1>1. /\ cop_or_hyp(cop) = IF hyp_selected /\ cop \in Trig THEN HypOf[cop] ELSE cop
      /\ cop_or_hyp(cop) \in InvKeys \cup {"sinh", "cosh", "tanh"}
      BY DEF cop_or_hyp, HypOf
<1>2. \A base \in InvKeys \cup {"sinh", "cosh", "tanh"} :
        /\ base \in DOMAIN InvOf
        /\ InvOf[base] \in FloatUnaryOps /\ base \in FloatUnaryOps
      BY DEF InvOf, FloatUnaryOps
<1>3. cop_or_inv(cop_or_hyp(cop)) =
        IF inv_selected THEN InvOf[cop_or_hyp(cop)] ELSE cop_or_hyp(cop)
      BY <1>1, <1>2 DEF cop_or_inv
<1> QED BY <1>1, <1>2, <1>3 DEF KeyTexts, Operations

LEMMA FunctionKeyKeeps ==
  ASSUME SessionInv, NEW cop, FunctionKey(cop)
  PROVE  SessionInv'
<1>1. cop \in InvKeys
      BY DEF FunctionKey
<1>2. PICK op \in Operations : op = cop_or_inv(cop_or_hyp(cop))
      BY <1>1, FunctionOf
<1>3. Button(cop, GiveIfPending \o <<EngineOp(op)>>)
      BY <1>2 DEF FunctionKey
<1> QED BY <1>3, OpPlain, ButtonKeeps

LEMMA MemoryKeyKeeps ==
  ASSUME SessionInv, NEW cop \in {"ms", "mr", "mp"}, NEW k \in Memory, MemoryKey(cop, k)
  PROVE  SessionInv'
<1> DEFINE c == MemOp(cop, k)
           d == [call |-> "mem_label", k |-> k]
<1>1. /\ c \in CallType /\ c.call = "mem" /\ c.k = k
      /\ d \in CallType /\ d.call = "mem_label" /\ d.k = k
      BY DEF MemOp, CallType
<1>2. Button(cop, GiveIfPending \o <<c, d>>)
      BY DEF MemoryKey
<1> HIDE DEF c, d
<1>3. Plain(<<d>>) /\ Elements(<<d>>) = {d}
      BY <1>1, OneCall DEF Hides, GivesTyped
<1>4. Plain(<<c, d>>)
      BY <1>1, <1>3, TwoCalls DEF Hides, GivesTyped, IsLabelOf
<1> QED BY <1>2, <1>4, ButtonKeeps

LEMMA FeKeyKeeps ==
  ASSUME SessionInv, FeKey
  PROVE  SessionInv'
<1>1. /\ Idle /\ calls' = GiveIfPending \o <<PeekOp>> /\ InvOff
      /\ UNCHANGED <<vars, typingVars, given>> /\ UNCHANGED arg_pending
      BY DEF FeKey, Handler, typingVars
<1> QED BY <1>1, Peeks, StartGive, InvOffFollows, QuietKeeps

LEMMA ClearKeyKeeps ==
  ASSUME SessionInv, ClearKey
  PROVE  SessionInv'
<1>1. /\ Idle /\ calls' = <<Simple("clear")>> /\ key' = "clr" /\ InvOff
      /\ UNCHANGED <<vars, typingVars, given>>
      BY DEF ClearKey, Button, Handler
<1>2. Plain(<<Simple("clear")>>)
      BY Simples, OneCall DEF Hides
<1>3. CallsStart
      BY <1>1, <1>2, StartPlain
<1>4. Taken'
      BY <1>1 DEF Taken, Discards
<1> QED BY <1>1, <1>3, <1>4, InvOffFollows, QuietKeeps

LEMMA HistKeyKeeps ==
  ASSUME SessionInv, HistKey
  PROVE  SessionInv'
BY StartNothing, LabelsStay, QuietKeeps DEF HistKey, Handler

LEMMA TypableType ==
  ASSUME NEW v \in Typable
  PROVE  v \in IF InInteger THEN IVal ELSE FVal
BY InputsAssumption DEF Typable

LEMMA TypeKeyKeeps ==
  ASSUME SessionInv, NEW k, TypeKey(k)
  PROVE  SessionInv'
<1>1. PICK todo \in {<<>>, <<EngineOp("int_min")>>} :
        Handler(IF todo = <<>> THEN k ELSE "int_min", todo)
      BY DEF TypeKey
<1>2. /\ Idle /\ UNCHANGED vars /\ calls' = todo
      /\ todo # <<>> => key' = "int_min"
      BY <1>1 DEF Handler
<1>3. /\ typed' \in Typable /\ arg_pending' = TRUE /\ given' = FALSE /\ InvOff
      BY DEF TypeKey
<1>4. Plain(todo)
  <2>1. "int_min" \in Operations
        BY DEF Operations, OtherOps
  <2> QED BY <1>1, <2>1, NoCalls, OpPlain
<1>5. CallsStart
      BY <1>2, <1>4, StartPlain
<1>6. Taken'
      BY <1>2 DEF Taken, Idle
<1> QED BY <1>2, <1>3, <1>5, <1>6, TypableType, InvOffFollows, HandlerKeeps

LEMMA BackspaceKeeps ==
  ASSUME SessionInv, backspace_click
  PROVE  SessionInv'
<1>1. /\ Idle /\ UNCHANGED <<vars, buttonVars, labels>> /\ UNCHANGED vars
      /\ UNCHANGED arg_pending /\ calls' = <<>> /\ typed' \in Typable /\ given' = FALSE
      BY DEF backspace_click, Handler
<1>2. arg_pending \in BOOLEAN
      BY DEF SessionInv, SessionTypes
<1> QED BY <1>1, <1>2, StartNothing, LabelsStay, TypableType, HandlerKeeps

LEMMA ModeToggleKeeps ==
  ASSUME SessionInv, mode_toggle
  PROVE  SessionInv'
<1> DEFINE a == Simple("set_mode")
           b == Simple("recreate")
           c == Simple("clear")
           t == <<a, b, c>>
<1>1. /\ Idle /\ calls' = GiveIfPending \o t
      /\ UNCHANGED <<vars, typingVars, given>> /\ UNCHANGED arg_pending
      /\ UNCHANGED <<buttonVars, labels>>
      BY DEF mode_toggle, Handler, typingVars
<1>2. /\ a \in CallType /\ a.call = "set_mode" /\ b \in CallType /\ b.call = "recreate"
      /\ c \in CallType /\ c.call = "clear"
      BY Simples
<1>3. t \in Seq(CallType) /\ Len(t) = 3 /\ t[1] = a /\ t[2] = b /\ t[3] = c
      BY <1>2
<1> HIDE DEF a, b, c, t
<1>4. /\ ~GivesTyped(a) /\ ~GivesTyped(b) /\ ~GivesTyped(c)
      /\ ~Hides(a) /\ ~Hides(b) /\ ~Hides(c)
      BY <1>2 DEF GivesTyped, Hides
<1>5. Orderly(t)
  <2> SUFFICES ASSUME NEW i \in 1..Len(t)
               PROVE  /\ Hides(t[i]) => \E j \in i + 1..Len(t) : Shows(t[j])
                      /\ t[i].call = "set_mode" =>
                           \E j \in i + 1..Len(t) : t[j].call = "recreate"
                      /\ t[i].call = "recreate" =>
                           \E j \in i + 1..Len(t) : t[j].call = "clear"
                      /\ t[i].call = "mem" =>
                           \E j \in i + 1..Len(t) : IsLabelOf(t[j], t[i].k)
                      /\ GivesTyped(t[i]) => i = 1
      BY DEF Orderly
  <2>1. i = 1 \/ i = 2 \/ i = 3
        BY <1>3
  <2>2. 2 \in 1 + 1..Len(t) /\ 3 \in 2 + 1..Len(t)
        BY <1>3
  <2> QED BY <1>2, <1>3, <1>4, <2>1, <2>2
<1>6. Plain(t)
      BY <1>3, <1>4, <1>5 DEF Plain
<1> QED BY <1>1, <1>6, StartGive, LabelsStay, QuietKeeps

\* INV, HYP, and the radio buttons of the angle and the radix, write their labels.
LEMMA InvToggleKeeps ==
  ASSUME SessionInv, inv_button_toggle
  PROVE  SessionInv'
<1>1. /\ Idle /\ calls' = <<>> /\ UNCHANGED <<vars, typingVars, given>>
      /\ inv_selected' = ~inv_selected /\ UNCHANGED <<hyp_selected, angle, gui_radix>>
      /\ labels' = [labels EXCEPT !.keys = KeyTexts(~inv_selected, hyp_selected)]
      BY DEF inv_button_toggle, Toggle, Handler
<1>2. DOMAIN labels = {"bop", "parl", "status", "mem", "tooltip", "keys"}
      BY DEF SessionInv, SessionTypes
<1>3. LabelsFollow
      BY <1>1, <1>2, AllTrue DEF LabelsFollow
<1> QED BY <1>1, <1>3, StartNothing, QuietKeeps

LEMMA HypToggleKeeps ==
  ASSUME SessionInv, hyp_button_toggle
  PROVE  SessionInv'
<1>1. /\ Idle /\ calls' = <<>> /\ UNCHANGED <<vars, typingVars, given>>
      /\ hyp_selected' = ~hyp_selected /\ UNCHANGED <<inv_selected, angle, gui_radix>>
      /\ labels' = [labels EXCEPT !.keys = KeyTexts(inv_selected, ~hyp_selected)]
      BY DEF hyp_button_toggle, Toggle, Handler
<1>2. DOMAIN labels = {"bop", "parl", "status", "mem", "tooltip", "keys"}
      BY DEF SessionInv, SessionTypes
<1>3. LabelsFollow
      BY <1>1, <1>2, AllTrue DEF LabelsFollow
<1> QED BY <1>1, <1>3, StartNothing, QuietKeeps

LEMMA AngleKeeps ==
  ASSUME SessionInv, NEW unit, deg_rad_grad_rb_toggle(unit)
  PROVE  SessionInv'
<1>1. /\ Idle /\ calls' = <<>> /\ UNCHANGED <<vars, typingVars, given>>
      /\ angle' = unit /\ UNCHANGED <<inv_selected, hyp_selected, gui_radix>>
      /\ labels' = [labels EXCEPT !.status = Status(calc_mode, gui_radix, unit)]
      BY DEF deg_rad_grad_rb_toggle, Toggle, Handler
<1>2. DOMAIN labels = {"bop", "parl", "status", "mem", "tooltip", "keys"}
      BY DEF SessionInv, SessionTypes
<1>3. LabelsFollow
      BY <1>1, <1>2, AllTrue DEF LabelsFollow
<1> QED BY <1>1, <1>3, StartNothing, QuietKeeps

LEMMA RadixKeeps ==
  ASSUME SessionInv, NEW radix, dec_hex_rb_toggle(radix)
  PROVE  SessionInv'
<1>1. /\ Toggle("radix", GiveIfPending \o <<PeekOp>>) /\ Idle
      /\ gui_radix' = radix /\ UNCHANGED <<inv_selected, hyp_selected, angle>>
      /\ labels' = [labels EXCEPT !.status = Status(calc_mode, radix, angle)]
      BY DEF dec_hex_rb_toggle, Toggle, Handler
<1>2. DOMAIN labels = {"bop", "parl", "status", "mem", "tooltip", "keys"}
      BY DEF SessionInv, SessionTypes
<1>3. LabelsFollow
      BY <1>1, <1>2, AllTrue DEF LabelsFollow
<1> QED BY <1>1, <1>3, Peeks, ToggleKeeps

\* The calls of a click on a width.
WidthCalls(width) == <<[call |-> "set_width", width |-> width], PeekOp>>

LEMMA WidthPlain ==
  ASSUME NEW width \in Width
  PROVE  Plain(WidthCalls(width))
<1> DEFINE c == [call |-> "set_width", width |-> width]
<1>1. c \in CallType /\ c.call = "set_width"
      BY DEF CallType
<1>2. WidthCalls(width) = <<c, PeekOp>>
      BY DEF WidthCalls
<1> HIDE DEF c
<1> QED BY <1>1, <1>2, Peeks, TwoCalls DEF GivesTyped

LEMMA WidthToggleKeeps ==
  ASSUME SessionInv, NEW width \in Width, int_width_rb_toggle(width)
  PROVE  SessionInv'
<1>1. /\ Toggle("width", GiveIfPending \o WidthCalls(width)) /\ Idle
      /\ UNCHANGED <<buttonVars, labels>>
      BY DEF int_width_rb_toggle, WidthClick, WidthCalls, Toggle, Handler
<1> QED BY <1>1, WidthPlain, LabelsStay, ToggleKeeps

LEMMA SignToggleKeeps ==
  ASSUME SessionInv, int_signed_rb_toggle
  PROVE  SessionInv'
<1> DEFINE c == Simple("set_unsigned")
<1>1. /\ Toggle("sign", GiveIfPending \o <<c, PeekOp>>) /\ Idle
      /\ UNCHANGED <<buttonVars, labels>>
      BY DEF int_signed_rb_toggle, Toggle, Handler
<1>2. c \in CallType /\ c.call = "set_unsigned" /\ ~GivesTyped(c)
      BY Simples
<1> HIDE DEF c
<1>3. Plain(<<c, PeekOp>>)
      BY <1>2, Peeks, TwoCalls
<1> QED BY <1>1, <1>3, LabelsStay, ToggleKeeps

LEMMA DigitsToggleKeeps ==
  ASSUME SessionInv, float_digits_rb_toggle
  PROVE  SessionInv'
<1>1. Toggle("digits", GiveIfPending \o <<PeekOp>>) /\ Idle /\ UNCHANGED <<buttonVars, labels>>
      BY DEF float_digits_rb_toggle, Toggle, Handler
<1> QED BY <1>1, Peeks, LabelsStay, ToggleKeeps

LEMMA RepeatToggleKeeps ==
  ASSUME SessionInv, chk_toggle
  PROVE  SessionInv'
<1>1. /\ Idle /\ calls' = <<Simple("set_repeat")>>
      /\ UNCHANGED <<vars, typingVars, given>> /\ UNCHANGED <<buttonVars, labels>>
      BY DEF chk_toggle, Toggle, Handler
<1>2. Simple("set_repeat").call = "set_repeat" /\ Plain(<<Simple("set_repeat")>>)
      BY Simples, OneCall DEF Hides
<1>3. CallsStart
      BY <1>1, <1>2, StartPlain
<1>4. Taken'
      BY <1>1, <1>2 DEF Taken
<1> QED BY <1>1, <1>3, <1>4, LabelsStay, QuietKeeps

\* A value from elsewhere is given, and shown.
GiveCalls(el) == <<Give(el, FALSE), PeekOp>>

LEMMA GivePlain ==
  ASSUME NEW el \in StackEl
  PROVE  Plain(GiveCalls(el))
<1> DEFINE c == Give(el, FALSE)
<1>1. c \in CallType /\ c.call = "give" /\ ~c.typing
      BY DEF Give, CallType
<1>2. GiveCalls(el) = <<c, PeekOp>>
      BY DEF GiveCalls
<1> HIDE DEF c
<1> QED BY <1>1, <1>2, Peeks, TwoCalls DEF GivesTyped

LEMMA ElTypes ==
  /\ \A v \in IVal : IntEl(v) \in StackEl
  /\ \A v \in FVal : FloatEl(v) \in StackEl
BY InputsAssumption DEF IntEl, FloatEl, StackEl

LEMMA TakeValueKeeps ==
  ASSUME SessionInv, TakeValue
  PROVE  SessionInv'
<1>1. PICK el \in IF InInteger THEN {IntEl(v) : v \in ArgI} ELSE {FloatEl(v) : v \in ArgF} :
        Toggle("take", GiveCalls(el))
      BY DEF TakeValue, GiveCalls
<1>2. el \in StackEl
      BY ElTypes, InputsAssumption
<1>3. /\ Idle /\ calls' = GiveCalls(el) /\ key' = "take"
      /\ UNCHANGED <<vars, typingVars, given>> /\ UNCHANGED <<buttonVars, labels>>
      BY <1>1 DEF Toggle, Handler, TakeValue
<1>4. CallsStart
      BY <1>2, <1>3, GivePlain, StartPlain
<1>5. Taken'
      BY <1>3 DEF Taken, Discards
<1> QED BY <1>3, <1>4, <1>5, LabelsStay, QuietKeeps

LEMMA ConvertKeeps ==
  ASSUME SessionInv, gui_give_arg_if_pending
  PROVE  SessionInv'
<1>1. /\ Idle /\ calls' = GiveIfPending
      /\ UNCHANGED <<vars, typingVars, given>> /\ UNCHANGED arg_pending
      /\ UNCHANGED <<buttonVars, labels>>
      BY DEF gui_give_arg_if_pending, Toggle, Handler, typingVars
<1>2. GiveIfPending = GiveIfPending \o <<>>
      BY DEF GiveIfPending
<1>3. calls' = GiveIfPending \o <<>>
      BY <1>1, <1>2
<1> QED BY <1>1, <1>3, NoCalls, StartGive, LabelsStay, QuietKeeps

LEMMA BitClickKeeps ==
  ASSUME SessionInv, NEW mask \in BitMasks, BitClick(mask)
  PROVE  SessionInv'
<1> DEFINE c == [call |-> "xor", mask |-> mask]
<1>1. Toggle("bit", GiveIfPending \o <<c>>) /\ Idle /\ UNCHANGED <<buttonVars, labels>>
      BY DEF BitClick, Toggle, Handler
<1>2. c \in CallType /\ c.call = "xor"
      BY DEF CallType
<1> HIDE DEF c
<1>3. Plain(<<c>>)
      BY <1>2, OneCall DEF Hides, GivesTyped
<1> QED BY <1>1, <1>3, LabelsStay, ToggleKeeps

LEMMA RequestKeeps ==
  ASSUME SessionInv, clipboard_paste
  PROVE  SessionInv'
<1>1. /\ Idle /\ calls' = <<>>
      /\ UNCHANGED <<vars, typingVars, given>> /\ UNCHANGED <<buttonVars, labels>>
      BY DEF clipboard_paste, Idle
<1> QED BY <1>1, StartNothing, LabelsStay, QuietKeeps

LEMMA PasteNothingKeeps ==
  ASSUME SessionInv, PasteNothing
  PROVE  SessionInv'
<1>1. /\ Idle /\ calls' = <<>>
      /\ UNCHANGED <<vars, typingVars, given>> /\ UNCHANGED <<buttonVars, labels>>
      BY DEF PasteNothing, Handler
<1> QED BY <1>1, StartNothing, LabelsStay, QuietKeeps

LEMMA PasteStarts ==
  ASSUME SessionInv, InInteger, NEW n \in PasteIntegers,
         calls' = PasteInteger(n), arg_pending' = arg_pending
  PROVE  CallsStart
<1> DEFINE v == IF InRange(n) THEN WordOf(n) ELSE IZero
           w == IF InRange(n) THEN ChangedWidth(v, n < 0, integer_width) ELSE integer_width
<1>1. v \in IVal
      BY PasteAssumption, InputsAssumption DEF InRange
<1>2. n \in Int /\ (n < 0) \in BOOLEAN
      BY PasteAssumption
<1>3. integer_width \in Width
      BY DEF SessionInv, Inv, TypeOK
<1>4. w \in Width
  <2> HIDE DEF v
  <2> QED BY <1>1, <1>2, <1>3, OperationsClosed
<1>5. calls' = WidthClick(w) \o GiveCalls(IntEl(v))
      BY DEF PasteInteger, GiveCalls
<1> HIDE DEF v, w
<1>6. PICK width \in Width, val \in IVal : width = w /\ val = v
      BY <1>1, <1>4
<1> DEFINE g == GiveCalls(IntEl(val))
<1>7. Plain(g) /\ g \in Seq(CallType)
      BY GivePlain, ElTypes DEF Plain
<1>8. CASE width = integer_width
  <2>1. calls' = g
        BY <1>5, <1>6, <1>7, <1>8 DEF WidthClick
  <2> QED BY <1>7, <2>1, StartPlain
<1>9. CASE width # integer_width
  <2> DEFINE c == [call |-> "set_width", width |-> width]
             t == <<PeekOp>> \o g
             s == <<c>> \o t
  <2>1. c \in CallType /\ c.call = "set_width"
        BY DEF CallType
  <2>2. PeekOp \in CallType /\ Shows(PeekOp) /\ PeekOp.call = "op"
        BY Peeks DEF PeekOp, EngineOp
  <2> HIDE DEF g, c
  <2>3. Due(PeekOp, g) /\ ~GivesTyped(PeekOp)
        BY <2>2 DEF Due, Hides, GivesTyped
  <2>4. Plain(t) /\ Elements(t) = {PeekOp} \cup Elements(g)
        BY ONLY <1>7, <2>2, <2>3, CallBefore
  <2> HIDE DEF t
  <2>5. Due(c, t) /\ ~GivesTyped(c)
        BY <2>1, <2>2, <2>4 DEF Due, GivesTyped
  <2>6. Plain(s)
        BY ONLY <2>1, <2>4, <2>5, CallBefore
  <2>7. calls' = GiveIfPending \o s
    <3>1. calls' = (GiveIfPending \o <<c, PeekOp>>) \o g
          BY <1>5, <1>6, <1>9 DEF WidthClick, g, c
    <3>2. s = <<c, PeekOp>> \o g /\ <<c, PeekOp>> \in Seq(CallType)
          BY <1>7, <2>1, <2>2 DEF t
    <3>3. PICK a : a = Give(TypedEl, TRUE)
          OBVIOUS
    <3> DEFINE S == CallType \cup {a}
    <3>4. <<a>> \in Seq(S) /\ <<>> \in Seq(S)
          OBVIOUS
    <3>5. PICK p \in Seq(S) : p = GiveIfPending
          BY <3>3, <3>4 DEF GiveIfPending
    <3>6. g \in Seq(S) /\ <<c, PeekOp>> \in Seq(S)
          BY <1>7, <3>2
    <3> HIDE DEF S, s
    <3>7. PICK x \in Seq(S) : x = <<c, PeekOp>>
          BY <3>6
    <3>8. calls' = (p \o x) \o g /\ s = x \o g
          BY <3>1, <3>2, <3>5, <3>7
    <3>9. (p \o x) \o g = p \o (x \o g)
          BY <3>6, ConcatAssociative
    <3> QED BY <3>5, <3>8, <3>9
  <2> HIDE DEF s
  <2> QED BY <2>6, <2>7, StartGive
<1> QED BY <1>8, <1>9

LEMMA PasteKeeps ==
  ASSUME SessionInv, clipboard_paste_callback
  PROVE  SessionInv'
<1>1. /\ Idle /\ key' = "paste" /\ UNCHANGED arg_pending
      /\ calls' = IF InInteger THEN PasteInteger(pasted') ELSE GiveCalls(FloatEl(pasted'))
      /\ UNCHANGED <<vars, typingVars, given>> /\ UNCHANGED <<buttonVars, labels>>
      /\ pasted' \in IF InInteger THEN PasteIntegers ELSE ArgF
      BY DEF clipboard_paste_callback, Handler, typingVars, GiveCalls
<1>2. PICK n \in IF InInteger THEN PasteIntegers ELSE ArgF : n = pasted'
      BY <1>1
<1>3. CallsStart
  <2>1. CASE InInteger
        BY <1>1, <1>2, <2>1, PasteStarts
  <2>2. CASE ~InInteger
    <3>1. FloatEl(n) \in StackEl /\ calls' = GiveCalls(FloatEl(n))
          BY <1>1, <1>2, <2>2, ElTypes, InputsAssumption
    <3> QED BY <3>1, GivePlain, StartPlain
  <2> QED BY <2>1, <2>2
<1>4. Taken'
      BY <1>1 DEF Taken, Discards
<1> QED BY <1>1, <1>3, <1>4, LabelsStay, QuietKeeps

-----------------------------------------------------------------------------
(* The invariant, and what it gives                                         *)

LEMMA SessionInitInv ==
  ASSUME SessionInit
  PROVE  SessionInv
<1> DEFINE r == Simple("recreate")
           c == Simple("clear")
<1>1. Inv
      BY InitInv DEF SessionInit
<1>2. /\ r \in CallType /\ c \in CallType /\ r.call = "recreate" /\ c.call = "clear"
      BY Simples
<1>3. calls = <<r, c>> /\ arg_pending = FALSE /\ given = FALSE /\ labels = RecreatedLabels
      BY DEF SessionInit
<1> HIDE DEF r, c
<1>4. /\ calls \in Seq(CallType) /\ Len(calls) = 2 /\ calls[1] = r /\ calls[2] = c
      BY <1>2, <1>3
<1>5. ~GivesTyped(r) /\ ~GivesTyped(c) /\ ~Hides(r) /\ ~Hides(c) /\ Shows(c)
      BY <1>2 DEF GivesTyped, Hides, Shows
<1>6. Orderly(calls)
  <2> SUFFICES ASSUME NEW i \in 1..Len(calls)
               PROVE  /\ Hides(calls[i]) => \E j \in i + 1..Len(calls) : Shows(calls[j])
                      /\ calls[i].call = "set_mode" =>
                           \E j \in i + 1..Len(calls) : calls[j].call = "recreate"
                      /\ calls[i].call = "recreate" =>
                           \E j \in i + 1..Len(calls) : calls[j].call = "clear"
                      /\ calls[i].call = "mem" =>
                           \E j \in i + 1..Len(calls) : IsLabelOf(calls[j], calls[i].k)
                      /\ GivesTyped(calls[i]) => i = 1
      BY DEF Orderly
  <2>1. i = 1 \/ i = 2
        BY <1>4
  <2>2. 2 \in 1 + 1..Len(calls)
        BY <1>4
  <2> QED BY <1>2, <1>4, <1>5, <2>1, <2>2
<1>7. CallsOK
      BY <1>4, <1>5, <1>6 DEF CallsOK
<1>8. r \in Pending /\ c \in Pending
  <2>1. 1 \in 1..Len(calls) /\ 2 \in 1..Len(calls)
        BY <1>4
  <2> QED BY <1>4, <2>1 DEF Pending, Elements
<1>9. SessionTypes
      BY <1>3 DEF SessionTypes, RecreatedLabels
<1>10. DisplayFresh /\ EngineLabelsTrue /\ ModeLabelsTrue /\ MemLabelsTrue /\ Taken
      BY <1>2, <1>3, <1>5, <1>8
         DEF DisplayFresh, EngineLabelsTrue, ModeLabelsTrue, MemLabelsTrue, Taken
<1> QED BY <1>1, <1>7, <1>9, <1>10 DEF SessionInv

LEMMA ButtonClickKeeps ==
  ASSUME SessionInv, ButtonClick
  PROVE  SessionInv'
<1>1. CASE \E k \in {"digit", "point", "exp", "pm"} : TypeKey(k)
      BY <1>1, TypeKeyKeeps
<1>2. CASE \E cop \in Keys \cap Controls : OpKey(cop) \/ PlainKey(cop) \/ FunctionKey(cop)
      BY <1>2, OpKeyKeeps, PlainKeyKeeps, FunctionKeyKeeps
<1>3. CASE \E cop \in {"ms", "mr", "mp"}, k \in Memory : MemoryKey(cop, k)
      BY <1>3, MemoryKeyKeeps
<1>4. CASE FeKey \/ ClearKey \/ HistKey
      BY <1>4, FeKeyKeeps, ClearKeyKeeps, HistKeyKeeps
<1> QED BY <1>1, <1>2, <1>3, <1>4 DEF ButtonClick

LEMMA OutsideKeeps ==
  ASSUME SessionInv, Outside
  PROVE  SessionInv'
BY TakeValueKeeps, ConvertKeeps, BitClickKeeps, RequestKeeps, PasteNothingKeeps, PasteKeeps
   DEF Outside

LEMMA SessionStepInv ==
  ASSUME SessionInv, [SessionNext]_sessionVars
  PROVE  SessionInv'
<1>1. CASE Call
      BY <1>1, CallInv
<1>2. CASE ButtonClick \/ Outside
      BY <1>2, ButtonClickKeeps, OutsideKeeps
<1>3. CASE mode_toggle \/ inv_button_toggle \/ hyp_button_toggle
      BY <1>3, ModeToggleKeeps, InvToggleKeeps, HypToggleKeeps
<1>4. CASE \E unit \in Angle : deg_rad_grad_rb_toggle(unit)
      BY <1>4, AngleKeeps
<1>5. CASE \E radix \in Radix : dec_hex_rb_toggle(radix)
      BY <1>5, RadixKeeps
<1>6. CASE \E width \in Width : int_width_rb_toggle(width)
      BY <1>6, WidthToggleKeeps
<1>7. CASE int_signed_rb_toggle \/ float_digits_rb_toggle \/ chk_toggle
      BY <1>7, SignToggleKeeps, DigitsToggleKeeps, RepeatToggleKeeps
<1>8. CASE UNCHANGED sessionVars
  <2>1. /\ UNCHANGED vars /\ UNCHANGED <<calls, key, given, labels, arg_pending, typed>>
        /\ UNCHANGED <<inv_selected, hyp_selected, angle, gui_radix>>
        BY <1>8 DEF sessionVars, guiVars, typingVars, buttonVars
  <2>2. /\ Inv' /\ TopOp(Machine)' = TopOp(Machine) /\ (Current => Current')
        /\ UNCHANGED <<calc_mode, mem_val, mem_was_unsigned, num_parentheses>>
        BY <2>1, EngineStays DEF SessionInv, memVars
  <2>3. Pending' = Pending
        BY <2>1 DEF Pending
  <2>4. CallsOK' /\ SessionTypes' /\ Taken'
        BY <2>1, <2>2 DEF SessionInv, CallsOK, SessionTypes, Taken, Idle, InInteger
  <2>5. DisplayFresh' /\ EngineLabelsTrue'
        BY <2>1, <2>2, <2>3 DEF SessionInv, DisplayFresh, EngineLabelsTrue
  <2>6. ModeLabelsTrue' /\ MemLabelsTrue'
        BY <2>1, <2>2, <2>3 DEF SessionInv, ModeLabelsTrue, MemLabelsTrue, InFloat
  <2> QED BY <2>2, <2>4, <2>5, <2>6 DEF SessionInv
<1> QED BY <1>1, <1>2, <1>3, <1>4, <1>5, <1>6, <1>7, <1>8 DEF SessionNext

\* Whatever is typed, pressed, toggled, pasted or taken, in any order, and between any
\* two calls of a handler: what is not yet right is what the calls still to make put
\* right.  The engine is within EngineInvariant throughout.
THEOREM SessionInvariant == SessionSpec => []SessionInv
<1>1. SessionInit => SessionInv
      BY SessionInitInv
<1>2. SessionInv /\ [SessionNext]_sessionVars => SessionInv'
      BY SessionStepInv
<1> QED BY <1>1, <1>2, PTL DEF SessionSpec

\* gui.c never drives the engine into calc_error, a NULL function or an operator
\* without its argument, nor calls a function that its mode does not have.
THEOREM EngineSafeInSession == SessionSpec => []Inv
<1>1. SessionInv => Inv
      BY DEF SessionInv
<1> QED BY <1>1, SessionInvariant, PTL

\* Between two handlers the display is the top of the stack and the pending operator,
\* unless a number is being typed (gui.c:1197, 1228, 1318; gui.c:1822-1834).
THEOREM DisplayIsTop == SessionSpec => []ShownIsTop
<1>1. SessionInv => ShownIsTop
      BY AllTrue DEF ShownIsTop, Current
<1> QED BY <1>1, SessionInvariant, PTL

\* Between two handlers every label and tooltip says what the engine holds, and every
\* key what it is going to do.
THEOREM LabelsAreTrue == SessionSpec => []LabelsTrue
<1>1. SessionInv => LabelsTrue
      BY AllTrue DEF LabelsTrue
<1> QED BY <1>1, SessionInvariant, PTL

\* A key of a function asks the engine for the function its text names, however INV
\* and HYP were pressed and the mode was changed before.
THEOREM KeysAreHonest == SessionSpec => KeyDoesWhatItSays
<1> DEFINE Honest == \A cop \in InvKeys :
             FunctionKey(cop) => calls'[Len(calls')] = EngineOp(labels.keys[cop])
<1>1. SessionInv => Honest
  <2> SUFFICES ASSUME SessionInv, NEW cop \in InvKeys, FunctionKey(cop)
               PROVE  calls'[Len(calls')] = EngineOp(labels.keys[cop])
      OBVIOUS
  <2>1. PICK op \in Operations : op = cop_or_inv(cop_or_hyp(cop))
        BY FunctionOf
  <2>2. /\ Idle /\ InFloat /\ calls' = GiveIfPending \o <<EngineOp(op)>>
        /\ arg_pending' = arg_pending
        BY <2>1 DEF FunctionKey, Button, Handler, typingVars
  <2>3. calls'[Len(calls')] = EngineOp(op)
    <3> DEFINE t == <<EngineOp(op)>>
    <3>1. Plain(t) /\ t # <<>> /\ t[Len(t)] = EngineOp(op)
          BY OpPlain
    <3>2. calls' = GiveIfPending \o t
          BY <2>2
    <3> HIDE DEF t
    <3> QED BY <2>2, <3>1, <3>2, StartGive
  <2>4. labels.keys[cop] = op
        BY <2>1, <2>2, AllTrue, FunctionOf
  <2> QED BY <2>3, <2>4
<1>2. []SessionInv => [][Honest]_sessionVars
      BY <1>1, PTL
<1> QED BY <1>2, SessionInvariant DEF KeyDoesWhatItSays

\* Only a call takes a number being typed off the display.
LEMMA HandlersKeepTyping ==
  ASSUME [SessionNext]_sessionVars, arg_pending, ~arg_pending'
  PROVE  Call
<1> USE DEF Handler, Button, Toggle, typingVars
<1>1. ~ButtonClick
  <2>1. \A k : ~TypeKey(k)
        BY DEF TypeKey
  <2>2. \A cop : ~OpKey(cop) /\ ~PlainKey(cop) /\ ~FunctionKey(cop) /\ \A k : ~MemoryKey(cop, k)
        BY DEF OpKey, PlainKey, FunctionKey, MemoryKey
  <2>3. ~FeKey /\ ~ClearKey /\ ~HistKey
        BY DEF FeKey, ClearKey, HistKey
  <2> QED BY <2>1, <2>2, <2>3 DEF ButtonClick
<1>2. ~Outside
  <2>1. ~TakeValue /\ ~gui_give_arg_if_pending /\ \A mask : ~BitClick(mask)
        BY DEF TakeValue, gui_give_arg_if_pending, BitClick
  <2>2. ~clipboard_paste /\ ~PasteNothing /\ ~clipboard_paste_callback
        BY DEF clipboard_paste, PasteNothing, clipboard_paste_callback
  <2> QED BY <2>1, <2>2 DEF Outside
<1>3. ~mode_toggle /\ ~inv_button_toggle /\ ~hyp_button_toggle
      BY DEF mode_toggle, inv_button_toggle, hyp_button_toggle
<1>4. /\ \A x : ~deg_rad_grad_rb_toggle(x) /\ ~dec_hex_rb_toggle(x) /\ ~int_width_rb_toggle(x)
      /\ ~int_signed_rb_toggle /\ ~float_digits_rb_toggle /\ ~chk_toggle
      BY DEF deg_rad_grad_rb_toggle, dec_hex_rb_toggle, int_width_rb_toggle,
             int_signed_rb_toggle, float_digits_rb_toggle, chk_toggle
<1>5. sessionVars' # sessionVars
      BY DEF sessionVars, guiVars
<1> QED BY <1>1, <1>2, <1>3, <1>4, <1>5 DEF SessionNext

\* A number being typed leaves the display only once the engine was given it as it was
\* last edited, or by a key meant to replace it (gui.c:339-351).
THEOREM TypedNeverLost == SessionSpec => TypedIsTaken
<1> DEFINE Taking == (arg_pending /\ ~arg_pending') =>
                      given \/ key \in Discards \cup {"int_min"}
<1>1. SessionInv /\ [SessionNext]_sessionVars => Taking
  <2> SUFFICES ASSUME SessionInv, [SessionNext]_sessionVars, arg_pending, ~arg_pending'
               PROVE  given \/ key \in Discards \cup {"int_min"}
      OBVIOUS
  <2>1. Call
        BY HandlersKeepTyping
  <2>2. ~Idle /\ Do(Head(calls)) /\ Head(calls) = calls[1]
        BY <2>1, NextCall DEF Call
  <2>3. ~GivesTyped(calls[1])
        BY <2>2 DEF Do, GivesTyped, CallGive, typingVars
  <2>4. calls[1].call # "set_repeat"
        BY <2>2 DEF Do, Silent, typingVars
  <2> QED BY <2>2, <2>3, <2>4 DEF SessionInv, Taken
<1>2. []SessionInv /\ [][SessionNext]_sessionVars => [][Taking]_sessionVars
      BY <1>1, PTL
<1> QED BY <1>2, SessionInvariant, PTL DEF SessionSpec, TypedIsTaken

-----------------------------------------------------------------------------
(* A number from the clipboard                                              *)

\* What the callback of the clipboard gives to the engine.
PastedWord(n) == IF InRange(n) THEN WordOf(n) ELSE IZero
PastedEl == IF InInteger THEN IntEl(PastedWord(pasted)) ELSE FloatEl(pasted)

\* Words of this width hold the number, if it is in range at all.
WidthHolds(n, w) ==
  InRange(n) =>
    LET low == MaskWidth(WordOf(n), w)
    IN  IF n < 0 THEN GetSigned(low, w) = WordOf(n) ELSE low = WordOf(n)

Fits == InInteger => WidthHolds(pasted, integer_width)

\* The engine holds the number, cut to the width.
TopIsPasted ==
  IF InInteger THEN StackTop(Machine).ival = MaskWidth(PastedWord(pasted), integer_width)
  ELSE StackTop(Machine).fval = pasted

SetWidth(width) == [call |-> "set_width", width |-> width]

\* The calls of a paste that are left, and what those before them have brought about.
Wider(s) ==
  \E width \in Width :
    /\ InInteger /\ WidthHolds(pasted, width)
    /\ \/ s = <<SetWidth(width), PeekOp, Give(PastedEl, FALSE), PeekOp>>
       \/ \E c : /\ c.call = "give"
                 /\ s = <<c, SetWidth(width), PeekOp, Give(PastedEl, FALSE), PeekOp>>

Left(s) ==
  \/ Wider(s)
  \/ s = <<PeekOp, Give(PastedEl, FALSE), PeekOp>> /\ Fits
  \/ s = <<Give(PastedEl, FALSE), PeekOp>> /\ Fits
  \/ s = <<PeekOp>> /\ Fits /\ TopIsPasted

PasteDue ==
  key = "paste" /\ ~Idle =>
    /\ pasted \in IF InInteger THEN PasteIntegers ELSE ArgF
    /\ Left(calls)

\* With it SessionInv is inductive for the paste as well.
PasteInv == SessionInv /\ PasteDue

\* What the callback gives is what was pasted.
LEMMA PastedElType ==
  ASSUME pasted \in IF InInteger THEN PasteIntegers ELSE ArgF
  PROVE  /\ PastedEl \in StackEl
         /\ InInteger => PastedEl.ival = PastedWord(pasted)
         /\ ~InInteger => PastedEl.fval = pasted
<1>1. CASE InInteger
  <2>1. PastedWord(pasted) \in IVal
        BY <1>1, PasteAssumption, InputsAssumption DEF PastedWord, InRange
  <2>2. PastedEl = IntEl(PastedWord(pasted))
        BY <1>1 DEF PastedEl
  <2> QED BY <1>1, <2>1, <2>2, ElTypes DEF IntEl
<1>2. CASE ~InInteger
  <2>1. pasted \in FVal /\ PastedEl = FloatEl(pasted)
        BY <1>2, InputsAssumption DEF PastedEl
  <2> QED BY <1>2, <2>1, ElTypes DEF FloatEl
<1> QED BY <1>1, <1>2

\* What is pushed is on top.
LEMMA PushTop ==
  ASSUME NEW m \in Machines, NEW el \in StackEl, m.stack_index < STACK_SIZE
  PROVE  StackTop(StackPush(m, el)) = el
<1> DEFINE h == [m EXCEPT !.stack[m.stack_index] = el, !.stack_index = @ + 1]
           n == StackPush(m, el)
           k == m.stack_index
<1>1. k \in 0..STACK_SIZE - 1 /\ k \in Nat /\ m.stack \in [0..STACK_SIZE - 1 -> StackEl]
      BY IndexTypes, Sizes, SMTT(60) DEF Machines
<1>2. h.stack = [m.stack EXCEPT ![k] = el] /\ h.stack_index = k + 1
      BY DEF Machines
<1>3. n = [h EXCEPT !.pushed = Append(@, el)]
      BY DEF StackPush, HistoryUpdate
<1>4. n.stack = h.stack /\ n.stack_index = h.stack_index
  <2>1. h \in [DOMAIN h -> {h[x] : x \in DOMAIN h}] /\ DOMAIN h = DOMAIN m
        OBVIOUS
  <2>2. "stack" \in DOMAIN m /\ "stack_index" \in DOMAIN m
        BY DEF Machines
  <2> HIDE DEF h
  <2> QED BY <1>3, <2>1, <2>2
<1> HIDE DEF h, n
<1>5. n.stack[k] = el /\ n.stack_index = k + 1
      BY <1>1, <1>2, <1>4
<1>6. StackTop(n) = n.stack[k]
      BY <1>1, <1>5 DEF StackTop
<1> QED BY <1>5, <1>6 DEF n

\* An argument given to the engine is on top of its stack, cut to the width.
LEMMA NewArgTop ==
  ASSUME ConfigOK, NEW m, Sound(m), NEW ival \in IVal, NEW fval \in FVal
  PROVE  StackTop(NewArg(m, ival, fval)) =
           [ival |-> MaskWidth(ival, integer_width), fval |-> fval]
<1> DEFINE el == [ival |-> MaskWidth(ival, integer_width), fval |-> fval]
           m1 == IF m.stack_index > m.bop_stack_index THEN StackPop(m) ELSE m
<1>1. el \in StackEl
      BY OperationsClosed DEF ConfigOK, StackEl
<1>2. m1 \in Machines /\ m1.stack_index = m.bop_stack_index /\ SameBops(m1, m)
      BY StackPopSound, IndexTypes DEF Sound, SameBops
<1>3. m1.stack_index < STACK_SIZE /\ m1.stack_index \in Nat
      BY <1>2, IndexTypes, Sizes DEF SameBops
<1>4. NewArg(m, ival, fval) = StackPush(m1, el)
      BY DEF NewArg
<1> HIDE DEF m1, el
<1>6. StackTop(StackPush(m1, el)) = el
      BY <1>1, <1>2, <1>3, PushTop
<1> QED BY <1>4, <1>6 DEF el

\* Only a call is made while a handler has calls left.
LEMMA CallsFirst ==
  ASSUME [SessionNext]_sessionVars, ~Idle
  PROVE  Call \/ UNCHANGED sessionVars
<1> USE DEF Handler, Button, Toggle
<1>1. ~ButtonClick
  <2>1. \A k : ~TypeKey(k)
        BY DEF TypeKey
  <2>2. \A cop : ~OpKey(cop) /\ ~PlainKey(cop) /\ ~FunctionKey(cop) /\ \A k : ~MemoryKey(cop, k)
        BY DEF OpKey, PlainKey, FunctionKey, MemoryKey
  <2>3. ~FeKey /\ ~ClearKey /\ ~HistKey
        BY DEF FeKey, ClearKey, HistKey
  <2> QED BY <2>1, <2>2, <2>3 DEF ButtonClick
<1>2. ~Outside
  <2>1. ~TakeValue /\ ~gui_give_arg_if_pending /\ \A mask : ~BitClick(mask)
        BY DEF TakeValue, gui_give_arg_if_pending, BitClick
  <2>2. ~clipboard_paste /\ ~PasteNothing /\ ~clipboard_paste_callback
        BY DEF clipboard_paste, PasteNothing, clipboard_paste_callback
  <2> QED BY <2>1, <2>2 DEF Outside
<1>3. ~mode_toggle /\ ~inv_button_toggle /\ ~hyp_button_toggle
      BY DEF mode_toggle, inv_button_toggle, hyp_button_toggle
<1>4. /\ \A x : ~deg_rad_grad_rb_toggle(x) /\ ~dec_hex_rb_toggle(x) /\ ~int_width_rb_toggle(x)
      /\ ~int_signed_rb_toggle /\ ~float_digits_rb_toggle /\ ~chk_toggle
      BY DEF deg_rad_grad_rb_toggle, dec_hex_rb_toggle, int_width_rb_toggle,
             int_signed_rb_toggle, float_digits_rb_toggle, chk_toggle
<1> QED BY <1>1, <1>2, <1>3, <1>4 DEF SessionNext

\* [Peek] shows what is on top of the stack, and leaves it there.
LEMMA PeekCall ==
  ASSUME Inv, Do(PeekOp)
  PROVE  /\ UNCHANGED <<calc_mode, integer_width>>
         /\ StackTop(Machine)' = StackTop(Machine)
         /\ Current' /\ arg_pending' = FALSE
<1>1. CallOp("peek")
      BY DEF Do, PeekOp, EngineOp
<1>2. ~Refused("peek")
      BY DEF Refused
<1>3. Peek
      BY <1>1, <1>2 DEF CallOp, BinaryOps, IntUnaryOps, FloatUnaryOps
<1>4. Current' /\ Answered
      BY <1>1, <1>2, OpAnswers
<1>5. UNCHANGED <<calc_mode, integer_width>>
      BY <1>3 DEF Peek, modeVars, configVars
<1>6. StackTop(Machine)' = StackTop(Machine)
  <2> DEFINE p == StackPeek(Machine)
             n == RequestDisplayUpdate(Machine)
  <2>1. HasFields(p)
        BY MachineHasFields, FieldsKept
  <2>2. p.stack = stack /\ p.stack_index = stack_index
        BY DEF StackPeek, Fail, Machine
  <2>3. n = [p EXCEPT !.shown = [el |-> StackTop(Machine), cop |-> TopOp(Machine)]]
        BY DEF RequestDisplayUpdate
  <2>4. stack' = n.stack /\ stack_index' = n.stack_index
        BY <1>3 DEF Peek, Commit
  <2> HIDE DEF n, p
  <2>5. stack' = stack /\ stack_index' = stack_index
        BY <2>1, <2>2, <2>3, <2>4 DEF HasFields, MachineFields
  <2> QED BY <2>5 DEF StackTop, Machine
<1> QED BY <1>4, <1>5, <1>6 DEF Answered, ResultCallback

\* What is given is on top of the stack, cut to the width; mode and width stay.
LEMMA GiveCall ==
  ASSUME Inv, NEW c, c.call = "give", Do(c)
  PROVE  /\ UNCHANGED <<calc_mode, integer_width>>
         /\ c.el \in StackEl =>
              StackTop(Machine)' = [ival |-> MaskWidth(c.el.ival, integer_width),
                                    fval |-> c.el.fval]
<1>1. GiveArg(c.el.ival, c.el.fval)
      BY DEF Do, CallGive
<1>2. UNCHANGED <<calc_mode, integer_width>>
      BY <1>1 DEF GiveArg, modeVars, configVars
<1>3. ASSUME c.el \in StackEl
      PROVE  StackTop(Machine)' = [ival |-> MaskWidth(c.el.ival, integer_width),
                                   fval |-> c.el.fval]
  <2>1. c.el.ival \in IVal /\ c.el.fval \in FVal
        BY <1>3, StackElType
  <2> DEFINE n == NewArg(Machine, c.el.ival, c.el.fval)
  <2>2. StackTop(n) = [ival |-> MaskWidth(c.el.ival, integer_width), fval |-> c.el.fval]
    <3>1. ConfigOK /\ Sound(Machine)
          BY <1>1, InvMachine DEF GiveArg
    <3> QED BY <2>1, <3>1, NewArgTop
  <2>3. stack' = n.stack /\ stack_index' = n.stack_index
        BY <1>1 DEF GiveArg, Commit
  <2> HIDE DEF n
  <2>4. StackTop(Machine)' = StackTop(n)
        BY <2>3 DEF StackTop, Machine
  <2> QED BY <2>2, <2>4
<1> QED BY <1>2, <1>3

\* The new width, in the same mode.
LEMMA WidthCall ==
  ASSUME NEW width, Do(SetWidth(width))
  PROVE  integer_width' = width /\ UNCHANGED calc_mode
BY DEF Do, SetWidth, SetIntegerWidth, modeVars

\* A call the callback has asked for brings the next one about.
LEMMA PasteCallDue ==
  ASSUME SessionInv, PasteDue, Call
  PROVE  PasteDue'
<1> SUFFICES ASSUME key' = "paste", ~Idle'
             PROVE  /\ pasted' \in IF InInteger' THEN PasteIntegers ELSE ArgF
                    /\ Left(calls)'
    BY DEF PasteDue
<1> DEFINE g == Give(PastedEl, FALSE)
<1>1. /\ ~Idle /\ Do(Head(calls)) /\ calls' = Tail(calls)
      /\ key = "paste" /\ pasted' = pasted /\ Inv
      BY DEF Call, SessionInv
<1>2. pasted \in (IF InInteger THEN PasteIntegers ELSE ArgF) /\ Left(calls)
      BY <1>1 DEF PasteDue
<1>3. g.call = "give" /\ g.el = PastedEl /\ PastedEl \in StackEl
      BY <1>2, PastedElType DEF Give
<1>4. ASSUME calc_mode' = calc_mode
      PROVE  InInteger' = InInteger /\ PastedEl' = PastedEl
      BY <1>1, <1>4 DEF InInteger, PastedEl
<1> HIDE DEF g
<1>6. CASE Wider(calls)
  <2>1. PICK width \in Width :
          /\ InInteger /\ WidthHolds(pasted, width)
          /\ \/ calls = <<SetWidth(width), PeekOp, g, PeekOp>>
             \/ \E c : c.call = "give" /\ calls = <<c, SetWidth(width), PeekOp, g, PeekOp>>
        BY <1>6 DEF Wider, g
  <2>2. CASE calls = <<SetWidth(width), PeekOp, g, PeekOp>>
    <3>1. Head(calls) = SetWidth(width) /\ calls' = <<PeekOp, g, PeekOp>>
          BY <1>1, <2>2
    <3>2. integer_width' = width /\ calc_mode' = calc_mode
          BY <1>1, <3>1, WidthCall
    <3>3. Fits' /\ InInteger' = InInteger /\ PastedEl' = PastedEl
          BY <1>1, <1>4, <2>1, <3>2 DEF Fits, WidthHolds
    <3> QED BY <1>1, <1>2, <3>1, <3>3 DEF Left, g
  <2>3. CASE \E c : c.call = "give" /\ calls = <<c, SetWidth(width), PeekOp, g, PeekOp>>
    <3>1. PICK c : c.call = "give" /\ calls = <<c, SetWidth(width), PeekOp, g, PeekOp>>
          BY <2>3
    <3>2. Head(calls) = c /\ calls' = <<SetWidth(width), PeekOp, g, PeekOp>>
          BY <1>1, <3>1
    <3>3. calc_mode' = calc_mode
          BY <1>1, <3>1, <3>2, GiveCall
    <3>4. InInteger' = InInteger /\ PastedEl' = PastedEl
          BY <1>4, <3>3
    <3>5. Wider(calls)'
          BY <1>1, <2>1, <3>2, <3>4 DEF Wider, WidthHolds, g
    <3> QED BY <1>1, <1>2, <3>4, <3>5 DEF Left
  <2> QED BY <2>1, <2>2, <2>3
<1>7. CASE calls = <<PeekOp, g, PeekOp>> /\ Fits
  <2>1. Head(calls) = PeekOp /\ calls' = <<g, PeekOp>>
        BY <1>1, <1>7
  <2>2. UNCHANGED <<calc_mode, integer_width>>
        BY <1>1, <2>1, PeekCall
  <2>3. Fits' /\ InInteger' = InInteger /\ PastedEl' = PastedEl
        BY <1>1, <1>4, <1>7, <2>2 DEF Fits, WidthHolds
  <2> QED BY <1>1, <1>2, <2>1, <2>3 DEF Left, g
<1>8. CASE calls = <<g, PeekOp>> /\ Fits
  <2>1. Head(calls) = g /\ calls' = <<PeekOp>>
        BY <1>1, <1>8
  <2>2. /\ UNCHANGED <<calc_mode, integer_width>>
        /\ StackTop(Machine)' = [ival |-> MaskWidth(PastedEl.ival, integer_width),
                                 fval |-> PastedEl.fval]
        BY <1>1, <1>3, <2>1, GiveCall
  <2>3. Fits' /\ InInteger' = InInteger
        BY <1>1, <1>4, <1>8, <2>2 DEF Fits, WidthHolds
  <2>4. TopIsPasted'
    <3>1. /\ InInteger => StackTop(Machine)'.ival = MaskWidth(PastedWord(pasted), integer_width)
          /\ ~InInteger => StackTop(Machine)'.fval = pasted
          BY <1>2, <2>2, PastedElType
    <3>2. PastedWord(pasted)' = PastedWord(pasted) /\ integer_width' = integer_width
          BY <1>1, <2>2 DEF PastedWord
    <3> QED BY <1>1, <2>3, <3>1, <3>2 DEF TopIsPasted
  <2> QED BY <1>1, <1>2, <2>1, <2>3, <2>4 DEF Left
<1>9. calls # <<PeekOp>>
  <2>1. Len(calls) # 1
        BY <1>1, NextCall
  <2> QED BY <2>1
<1> QED BY <1>2, <1>6, <1>7, <1>8, <1>9 DEF Left, g

\* The width the callback asks for holds the number, be it the width there is.
LEMMA PastedWidth ==
  ASSUME SessionInv, InInteger, NEW n \in PasteIntegers
  PROVE  LET w == IF InRange(n) THEN ChangedWidth(PastedWord(n), n < 0, integer_width)
                  ELSE integer_width
         IN  w \in Width /\ WidthHolds(n, w)
<1>1. integer_width \in Width
      BY DEF SessionInv, Inv, TypeOK
<1>2. n \in Int /\ (n < 0) \in BOOLEAN
      BY PasteAssumption
<1>3. CASE InRange(n)
  <2>1. WordOf(n) \in IVal /\ PastedWord(n) = WordOf(n)
        BY <1>3, PasteAssumption DEF InRange, PastedWord
  <2>2. ChangedWidth(WordOf(n), n < 0, integer_width) \in Width
        BY <1>1, <1>2, <2>1, OperationsClosed
  <2>3. WidthHolds(n, ChangedWidth(WordOf(n), n < 0, integer_width))
        BY <1>1, <1>3, PasteWidthAssumption DEF WidthHolds, InRange
  <2> QED BY <1>3, <2>1, <2>2, <2>3
<1>4. CASE ~InRange(n)
      BY <1>1, <1>4 DEF WidthHolds
<1> QED BY <1>3, <1>4

\* r is what s1 and s2 are together.
LEMMA Joined ==
  ASSUME NEW S, NEW s1 \in Seq(S), NEW s2 \in Seq(S), NEW r \in Seq(S),
         Len(r) = Len(s1) + Len(s2),
         \A i \in 1..Len(r) : r[i] = IF i <= Len(s1) THEN s1[i] ELSE s2[i - Len(s1)]
  PROVE  s1 \o s2 = r
<1>1. /\ s1 \o s2 \in Seq(S) /\ Len(s1 \o s2) = Len(s1) + Len(s2)
      /\ \A i \in 1..Len(s1) + Len(s2) :
           (s1 \o s2)[i] = IF i <= Len(s1) THEN s1[i] ELSE s2[i - Len(s1)]
      BY ConcatProperties
<1>2. PICK t \in Seq(S) : t = s1 \o s2
      BY <1>1
<1>3. Len(t) = Len(r) /\ \A i \in 1..Len(t) : t[i] = r[i]
      BY <1>1, <1>2
<1> QED BY <1>2, <1>3, SeqEqual

\* The concatenations of which the calls of a paste are made.
LEMMA TwoTwos ==
  ASSUME NEW a, NEW b, NEW c, NEW d
  PROVE  /\ <<>> \o <<a, b>> = <<a, b>>
         /\ <<a, b>> \o <<c, d>> = <<a, b, c, d>>
<1> DEFINE S == {a, b, c, d}
<1>1. <<>> \o <<a, b>> = <<a, b>>
  <2> DEFINE x == <<a, b>>
  <2>1. x \in Seq(S)
        OBVIOUS
  <2> HIDE DEF x, S
  <2>2. <<>> \o x = x
        BY <2>1, ConcatEmptySeq
  <2> QED BY <2>2 DEF x
<1>2. <<a, b>> \o <<c, d>> = <<a, b, c, d>>
  <2> DEFINE p == <<a, b>>
             q == <<c, d>>
             r == <<a, b, c, d>>
  <2>1. /\ p \in Seq(S) /\ Len(p) = 2 /\ p[1] = a /\ p[2] = b
        /\ q \in Seq(S) /\ Len(q) = 2 /\ q[1] = c /\ q[2] = d
        /\ r \in Seq(S) /\ Len(r) = 4
        /\ r[1] = a /\ r[2] = b /\ r[3] = c /\ r[4] = d
        OBVIOUS
  <2> HIDE DEF p, q, r, S
  <2>2. ASSUME NEW i \in 1..Len(r)
        PROVE  r[i] = IF i <= Len(p) THEN p[i] ELSE q[i - Len(p)]
    <3>1. i = 1 \/ i = 2 \/ i = 3 \/ i = 4
          BY <2>1
    <3> QED BY <2>1, <3>1
  <2>3. Len(r) = Len(p) + Len(q)
        BY <2>1
  <2>4. p \o q = r
        BY <2>1, <2>2, <2>3, Joined
  <2> QED BY <2>4 DEF p, q, r
<1> QED BY <1>1, <1>2

LEMMA OneAndTwos ==
  ASSUME NEW a, NEW b, NEW c, NEW d, NEW e
  PROVE  (<<e>> \o <<a, b>>) \o <<c, d>> = <<e, a, b, c, d>>
<1> DEFINE S == {a, b, c, d, e}
<1>1. <<e>> \o <<a, b>> = <<e, a, b>>
  <2> DEFINE p == <<e>>
             q == <<a, b>>
             r == <<e, a, b>>
  <2>1. /\ p \in Seq(S) /\ Len(p) = 1 /\ p[1] = e
        /\ q \in Seq(S) /\ Len(q) = 2 /\ q[1] = a /\ q[2] = b
        /\ r \in Seq(S) /\ Len(r) = 3
        /\ r[1] = e /\ r[2] = a /\ r[3] = b
        OBVIOUS
  <2> HIDE DEF p, q, r, S
  <2>2. ASSUME NEW i \in 1..Len(r)
        PROVE  r[i] = IF i <= Len(p) THEN p[i] ELSE q[i - Len(p)]
    <3>1. i = 1 \/ i = 2 \/ i = 3
          BY <2>1
    <3> QED BY <2>1, <3>1
  <2>3. Len(r) = Len(p) + Len(q)
        BY <2>1
  <2>4. p \o q = r
        BY <2>1, <2>2, <2>3, Joined
  <2> QED BY <2>4 DEF p, q, r
<1>2. <<e, a, b>> \o <<c, d>> = <<e, a, b, c, d>>
  <2> DEFINE p == <<e, a, b>>
             q == <<c, d>>
             r == <<e, a, b, c, d>>
  <2>1. /\ p \in Seq(S) /\ Len(p) = 3 /\ p[1] = e /\ p[2] = a /\ p[3] = b
        /\ q \in Seq(S) /\ Len(q) = 2 /\ q[1] = c /\ q[2] = d
        /\ r \in Seq(S) /\ Len(r) = 5
        /\ r[1] = e /\ r[2] = a /\ r[3] = b /\ r[4] = c /\ r[5] = d
        OBVIOUS
  <2> HIDE DEF p, q, r, S
  <2>2. ASSUME NEW i \in 1..Len(r)
        PROVE  r[i] = IF i <= Len(p) THEN p[i] ELSE q[i - Len(p)]
    <3>1. i = 1 \/ i = 2 \/ i = 3 \/ i = 4 \/ i = 5
          BY <2>1
    <3> QED BY <2>1, <3>1
  <2>3. Len(r) = Len(p) + Len(q)
        BY <2>1
  <2>4. p \o q = r
        BY <2>1, <2>2, <2>3, Joined
  <2> QED BY <2>4 DEF p, q, r
<1> QED BY <1>1, <1>2, Zenon

\* The answer of the clipboard starts with all calls still to make.
LEMMA PasteStartsDue ==
  ASSUME SessionInv, clipboard_paste_callback
  PROVE  PasteDue'
<1>1. /\ UNCHANGED vars
      /\ calls' = IF InInteger THEN PasteInteger(pasted')
                  ELSE <<Give(FloatEl(pasted'), FALSE), PeekOp>>
      /\ pasted' \in IF InInteger THEN PasteIntegers ELSE ArgF
      BY DEF clipboard_paste_callback, Handler
<1>2. UNCHANGED <<calc_mode, integer_width>> /\ InInteger' = InInteger
      BY <1>1 DEF vars, modeVars, configVars, InInteger
<1>3. CASE ~InInteger
  <2>1. PastedEl' = FloatEl(pasted') /\ Fits'
        BY <1>2, <1>3 DEF PastedEl, Fits
  <2>2. calls' = <<Give(PastedEl', FALSE), PeekOp>>
        BY <1>1, <1>3, <2>1
  <2>3. Left(calls)'
        BY <2>1, <2>2 DEF Left, Give, PeekOp, EngineOp
  <2> QED BY <1>1, <1>2, <2>3 DEF PasteDue
<1>4. CASE InInteger
  <2>1. PICK n \in PasteIntegers : n = pasted'
        BY <1>1, <1>4
  <2> DEFINE wide == IF InRange(n) THEN ChangedWidth(PastedWord(n), n < 0, integer_width)
                     ELSE integer_width
             g == Give(IntEl(PastedWord(n)), FALSE)
  <2>2. PICK w \in Width : w = wide /\ WidthHolds(n, w)
        BY <1>4, PastedWidth
  <2>3. calls' = WidthClick(w) \o <<g, PeekOp>>
        BY <1>1, <1>4, <2>1, <2>2 DEF PasteInteger, PastedWord
  <2>4. g = Give(PastedEl, FALSE)'
        BY <1>2, <1>4, <2>1 DEF PastedEl, PastedWord, Give
  <2>5. PeekOp' = PeekOp /\ \A x : SetWidth(x)' = SetWidth(x)
        BY DEF PeekOp, EngineOp, SetWidth
  <2> HIDE DEF wide, g
  <2>6. CASE w = integer_width
    <3>1. calls' = <<g, PeekOp>>
          BY <2>3, <2>6, TwoTwos DEF WidthClick
    <3>2. Fits'
          BY <1>2, <2>1, <2>2, <2>6 DEF Fits, WidthHolds
    <3>3. Left(calls)'
          BY <2>4, <2>5, <3>1, <3>2 DEF Left
    <3> QED BY <1>1, <1>2, <3>3 DEF PasteDue
  <2>7. CASE w # integer_width
    <3>1. calls' = (GiveIfPending \o <<SetWidth(w), PeekOp>>) \o <<g, PeekOp>>
          BY <2>3, <2>7 DEF WidthClick, SetWidth
    <3>2. \/ calls' = <<SetWidth(w), PeekOp, g, PeekOp>>
          \/ \E c : c.call = "give" /\ calls' = <<c, SetWidth(w), PeekOp, g, PeekOp>>
      <4>1. CASE arg_pending
        <5>1. PICK c : c = Give(TypedEl, TRUE)
              OBVIOUS
        <5>2. c.call = "give"
              BY <5>1 DEF Give
        <5>3. calls' = (<<c>> \o <<SetWidth(w), PeekOp>>) \o <<g, PeekOp>>
              BY <3>1, <4>1, <5>1 DEF GiveIfPending
        <5>4. calls' = <<c, SetWidth(w), PeekOp, g, PeekOp>>
              BY <5>3, OneAndTwos
        <5> QED BY <5>2, <5>4
      <4>2. CASE ~arg_pending
        <5>1. calls' = (<<>> \o <<SetWidth(w), PeekOp>>) \o <<g, PeekOp>>
              BY <3>1, <4>2 DEF GiveIfPending
        <5>2. <<>> \o <<SetWidth(w), PeekOp>> = <<SetWidth(w), PeekOp>>
              BY TwoTwos
        <5>3. calls' = <<SetWidth(w), PeekOp>> \o <<g, PeekOp>>
              BY <5>1, <5>2, Zenon
        <5>4. calls' = <<SetWidth(w), PeekOp, g, PeekOp>>
              BY <5>3, TwoTwos
        <5> QED BY <5>4
      <4> QED BY <4>1, <4>2
    <3>3. InInteger' /\ WidthHolds(pasted, w)'
          BY <1>2, <1>4, <2>1, <2>2 DEF WidthHolds
    <3>4. Wider(calls)'
          BY <2>2, <2>4, <2>5, <3>2, <3>3 DEF Wider
    <3> QED BY <1>1, <1>2, <3>4 DEF PasteDue, Left
  <2> QED BY <2>6, <2>7
<1> QED BY <1>3, <1>4

\* No other handler leaves calls of a paste behind.
LEMMA OthersAreNotPastes ==
  ASSUME Idle, [SessionNext]_sessionVars
  PROVE  key' # "paste" \/ Idle' \/ clipboard_paste_callback
<1> USE DEF Handler, Button, Toggle
<1>1. ASSUME ButtonClick PROVE key' # "paste"
  <2>1. \A k \in {"digit", "point", "exp", "pm"} : TypeKey(k) => key' # "paste"
        BY DEF TypeKey
  <2>2. \A cop : OpKey(cop) \/ PlainKey(cop) \/ FunctionKey(cop) => key' # "paste"
        BY DEF OpKey, PlainKey, FunctionKey, HasKey, HasUop, BinaryOps, IntUnaryOps, FloatUnaryOps,
               InvKeys, Trig
  <2>3. \A cop \in {"ms", "mr", "mp"}, k \in Memory : MemoryKey(cop, k) => key' # "paste"
        BY DEF MemoryKey
  <2>4. FeKey \/ ClearKey \/ HistKey => key' # "paste"
        BY DEF FeKey, ClearKey, HistKey
  <2> QED BY <1>1, <2>1, <2>2, <2>3, <2>4 DEF ButtonClick
<1>2. ASSUME Outside PROVE key' # "paste" \/ Idle' \/ clipboard_paste_callback
  <2>1. TakeValue \/ gui_give_arg_if_pending \/ (\E mask \in BitMasks : BitClick(mask))
          => key' # "paste"
        BY DEF TakeValue, gui_give_arg_if_pending, BitClick
  <2>2. clipboard_paste \/ PasteNothing => Idle'
        BY DEF clipboard_paste, PasteNothing, Idle
  <2> QED BY <1>2, <2>1, <2>2 DEF Outside
<1>3. mode_toggle \/ inv_button_toggle \/ hyp_button_toggle => key' # "paste"
      BY DEF mode_toggle, inv_button_toggle, hyp_button_toggle
<1>4. /\ \A x : deg_rad_grad_rb_toggle(x) \/ dec_hex_rb_toggle(x) \/ int_width_rb_toggle(x)
                => key' # "paste"
      /\ int_signed_rb_toggle \/ float_digits_rb_toggle \/ chk_toggle => key' # "paste"
      BY DEF deg_rad_grad_rb_toggle, dec_hex_rb_toggle, int_width_rb_toggle,
             int_signed_rb_toggle, float_digits_rb_toggle, chk_toggle
<1>5. ~Call
      BY DEF Call
<1>6. UNCHANGED sessionVars => Idle'
      BY DEF sessionVars, guiVars, Idle
<1> QED BY <1>1, <1>2, <1>3, <1>4, <1>5, <1>6 DEF SessionNext

LEMMA PasteStep ==
  ASSUME PasteInv, [SessionNext]_sessionVars
  PROVE  PasteInv'
<1>1. SessionInv /\ PasteDue /\ SessionInv'
      BY SessionStepInv DEF PasteInv
<1>2. CASE Idle
      BY <1>1, <1>2, PasteStartsDue, OthersAreNotPastes DEF PasteInv, PasteDue
<1>3. CASE Call
      BY <1>1, <1>3, PasteCallDue DEF PasteInv
<1>4. CASE ~Idle /\ UNCHANGED sessionVars
  <2>1. /\ UNCHANGED <<key, calls, pasted>>
        /\ UNCHANGED <<calc_mode, integer_width, stack, stack_index>>
        BY <1>4 DEF sessionVars, guiVars, vars, machineVars, modeVars, configVars
  <2>2. StackTop(Machine)' = StackTop(Machine)
        BY <2>1 DEF StackTop, Machine
  <2>3. InInteger' = InInteger /\ PastedEl' = PastedEl /\ Idle' = Idle
        BY <2>1 DEF InInteger, PastedEl, Idle
  <2>4. /\ Fits' = Fits /\ TopIsPasted' = TopIsPasted
        /\ \A width : WidthHolds(pasted, width)' = WidthHolds(pasted, width)
        BY <2>1, <2>2, <2>3 DEF Fits, TopIsPasted, WidthHolds, PastedWord
  <2>5. Left(calls) => Left(calls)'
        BY <2>1, <2>3, <2>4 DEF Left, Wider
  <2> QED BY <1>1, <2>1, <2>3, <2>5 DEF PasteInv, PasteDue
<1> QED BY <1>2, <1>3, <1>4, CallsFirst

\* Whatever happened between the request and the answer, a pasted number ends up on the
\* display as it is, the width grown to hold it, or 0 for one out of range
\* (gui.c:1976-2013).
THEOREM PasteEndsShown == SessionSpec => PasteIsShown
<1> DEFINE Shown ==
      (key = "paste" /\ ~Idle /\ calls' = <<>>) =>
         /\ ~arg_pending'
         /\ IF InFloat THEN shown'.el.fval = pasted
            ELSE IF ~InRange(pasted) THEN shown'.el.ival = IZero
            ELSE IF pasted < 0
                 THEN GetSigned(shown'.el.ival, integer_width) = WordOf(pasted)
                 ELSE shown'.el.ival = WordOf(pasted)
<1>1. SessionInit => PasteInv
      BY SessionInitInv DEF PasteInv, PasteDue, SessionInit
<1>2. PasteInv /\ [SessionNext]_sessionVars => PasteInv'
      BY PasteStep
<1>3. PasteInv /\ [SessionNext]_sessionVars => Shown
  <2> SUFFICES ASSUME PasteInv, [SessionNext]_sessionVars,
                      key = "paste", ~Idle, calls' = <<>>
               PROVE  /\ ~arg_pending'
                      /\ IF InFloat THEN shown'.el.fval = pasted
                         ELSE IF ~InRange(pasted) THEN shown'.el.ival = IZero
                         ELSE IF pasted < 0
                              THEN GetSigned(shown'.el.ival, integer_width) = WordOf(pasted)
                              ELSE shown'.el.ival = WordOf(pasted)
      OBVIOUS
  <2>1. Call
    <3>1. calls' # calls
          BY DEF Idle
    <3> QED BY <3>1, CallsFirst DEF sessionVars, guiVars
  <2>2. Inv /\ Do(Head(calls)) /\ calls' = Tail(calls) /\ Left(calls)
        BY <2>1 DEF PasteInv, PasteDue, SessionInv, Call
  <2>3. calls = <<PeekOp>> /\ Fits /\ TopIsPasted
    <3>2. Len(calls) = 1
      <4>1. calls \in Seq(CallType)
            BY DEF PasteInv, SessionInv, CallsOK
      <4>2. Len(calls') = Len(calls) - 1
            BY <2>2, <4>1, HeadTailProperties DEF Idle
      <4>3. Len(calls') = 0
            OBVIOUS
      <4> QED BY <4>1, <4>2, <4>3
    <3>4. ~Wider(calls)
      <4>1. ASSUME NEW width \in Width
            PROVE  calls # <<SetWidth(width), PeekOp, Give(PastedEl, FALSE), PeekOp>>
        <5>1. Len(<<SetWidth(width), PeekOp, Give(PastedEl, FALSE), PeekOp>>) = 4
              OBVIOUS
        <5> QED BY <3>2, <5>1, 4 # 1, Zenon
      <4>2. ASSUME NEW width \in Width, NEW c
            PROVE  calls # <<c, SetWidth(width), PeekOp, Give(PastedEl, FALSE), PeekOp>>
        <5>1. Len(<<c, SetWidth(width), PeekOp, Give(PastedEl, FALSE), PeekOp>>) = 5
              OBVIOUS
        <5> QED BY <3>2, <5>1, 5 # 1, Zenon
      <4> QED BY <4>1, <4>2 DEF Wider
    <3>5. /\ calls # <<PeekOp, Give(PastedEl, FALSE), PeekOp>>
          /\ calls # <<Give(PastedEl, FALSE), PeekOp>>
      <4>1. /\ Len(<<PeekOp, Give(PastedEl, FALSE), PeekOp>>) = 3
            /\ Len(<<Give(PastedEl, FALSE), PeekOp>>) = 2
            OBVIOUS
      <4> QED BY <3>2, <4>1, 3 # 1, 2 # 1, Zenon
    <3> QED BY <2>2, <3>4, <3>5 DEF Left
  <2>4. Do(PeekOp)
        BY <2>2, <2>3
  <2>5. /\ StackTop(Machine)' = StackTop(Machine)
        /\ Current' /\ arg_pending' = FALSE
        BY <2>2, <2>4, PeekCall
  <2>6. shown'.el = StackTop(Machine)
        BY <2>5 DEF Current
  <2>7. CASE InInteger
    <3>1. shown'.el.ival = MaskWidth(PastedWord(pasted), integer_width) /\ ~InFloat
          BY <2>3, <2>6, <2>7 DEF TopIsPasted, InInteger, InFloat
    <3>2. CASE ~InRange(pasted)
      <4>1. integer_width \in Width
            BY <2>2 DEF Inv, TypeOK
      <4> QED BY <2>5, <3>1, <3>2, <4>1, OperationsMasked DEF PastedWord
    <3>3. CASE InRange(pasted)
          BY <2>3, <2>5, <2>7, <3>1, <3>3 DEF PastedWord, Fits, WidthHolds
    <3> QED BY <3>2, <3>3
  <2>8. CASE ~InInteger
    <3>1. InFloat
          BY <2>2, <2>8 DEF Inv, TypeOK, Mode, InInteger, InFloat
    <3> QED BY <2>3, <2>5, <2>6, <2>8, <3>1 DEF TopIsPasted
  <2> QED BY <2>7, <2>8
<1>4. PasteInv /\ [][SessionNext]_sessionVars => [][Shown]_sessionVars
  <2>1. PasteInv /\ [][SessionNext]_sessionVars => []PasteInv
        BY <1>2, PTL
  <2> QED BY <1>3, <2>1, PTL
<1> QED BY <1>1, <1>4, PTL DEF SessionSpec, PasteIsShown
=============================================================================
