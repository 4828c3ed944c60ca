---------------------------- MODULE CalcNumbers ----------------------------
(***************************************************************************)
(* The engine with the integer operations of CalcInteger: what the words   *)
(* it keeps stand for as width, sign and mode change.  A history variable  *)
(* remembers the number each memory was given.                             *)
(***************************************************************************)
EXTENDS CalcEngineClosed

CONSTANT WordBits

VARIABLE noted   \* the number last stored in, or added up in, each memory

numVars == <<vars, noted>>

CI == INSTANCE CalcInteger WITH Widths <- Width

\* The number a word stands for at a width, under the current sign setting, and
\* the numbers that width can hold.
NumberAt(x, w) == IF use_unsigned THEN x ELSE CI!SignedNum(x, w)
FitsAt(n, w) ==
  IF use_unsigned THEN 0 <= n /\ n <= CI!UINT_MAX(w) ELSE CI!InSignedRange(n, w)

Number(x) == NumberAt(x, integer_width)
Fits(n)   == FitsAt(n, integer_width)

\* The number n becomes when cut to the current width.
Cut(n) == Number(CI!mask_width(n, integer_width))

NumInit == Init /\ noted = [k \in Memory |-> 0]

NumStore(k) ==
  /\ MemoryStore(k)
  /\ noted' = IF calc_mode = "integer"
              THEN [noted EXCEPT ![k] = Number(StackTop(Machine).ival)] ELSE noted

NumPlus(k) ==
  /\ MemoryPlus(k)
  /\ noted' = IF calc_mode = "integer"
              THEN [noted EXCEPT ![k] = Cut(@ + Number(shown'.el.ival))] ELSE noted

NumNext ==
  \/ \E k \in Memory : NumStore(k) \/ NumPlus(k)
  \/ OtherCall /\ UNCHANGED noted

NumSpec == NumInit /\ [][NumNext]_numVars

-----------------------------------------------------------------------------

\* A memory gives back the number it was given, under any later width and sign
\* that can hold it (comments at calc.c:696-699, 734-739), and M+ adds numbers.
RecallGivesNumber ==
  [][\A k \in Memory :
       (MemoryRecall(k) /\ calc_mode = "integer" /\ Fits(noted[k]))
         => Number(shown'.el.ival) = noted[k]]_numVars

\* A change of width keeps every number on the stack that fits the new width,
\* pending operands included (calc.c:1299-1335).
WidthKeepsNumbers ==
  [][\A width \in Width \ {integer_width} :
       (integer_width' = width /\ SetIntegerWidth(width)) =>
         \A i \in 0..stack_index - 1 :
           FitsAt(Number(stack[i].ival), width) =>
             NumberAt(stack'[i].ival, width) = Number(stack[i].ival)]_numVars

\* A switch to integer mode never narrows the width, and picks one at which the
\* displayed number survives masking: all of its bits, or its sign.  A number
\* beyond the widest leaves the width alone and becomes 0 (calc.c:1105-1135).
SwitchKeepsInteger ==
  [][\A best \in BestIntegers :
       (calc_mode = "float" /\ calc_mode' = "integer" /\ SetMode(best)) =>
         LET word == CI!mask_width(save_val'.ival, integer_width')
         IN  IF best.ok
             THEN /\ integer_width' >= integer_width
                  /\ IF best.negative
                     THEN CI!SignedNum(word, integer_width') = CI!SignedNum(best.uval, WordBits)
                     ELSE word = best.uval
             ELSE word = IZero /\ integer_width' = integer_width]_numVars

\* What a mode switch shows once cleared is what it showed before, outstanding
\* operations evaluated first (README.md:157-162): to float, the same number.
SwitchShowsSameNumber ==
  [][(init_from_save_val /\ calc_mode = "float" /\ Clear) =>
       shown'.el.fval = IntToFloat(shown.el.ival, integer_width, use_unsigned)]_numVars

\* The three together: numbers survive changes of width and of mode.
NumbersKept == WidthKeepsNumbers /\ SwitchKeepsInteger /\ SwitchShowsSameNumber

\* The operand that the next [=] will repeat is masked to the width, as "the value
\* in the uint64 is always masked off to the width" (calc_integer.c:31-34) says of
\* every value.  It lies in a popped slot, which mask_stack_all does not reach.
RepeatOperandMasked ==
  (ready /\ calc_mode = "integer" /\ bop_stack_index = 0
         /\ bin_op_was_entered /\ allow_repeated_equals)
     => MaskWidth(stack[1].ival, integer_width) = stack[1].ival

-----------------------------------------------------------------------------
(* The instance that TLC checks: 4-bit words with widths 2 and 4.  Floats are *)
(* the numbers an integer can be printed as; their arithmetic is left out.    *)

MCIVal  == 0..15
MCFVal  == -8..15

MCMaskWidth(v, width)              == CI!mask_width(v, width)
MCGetSigned(v, width)              == CI!get_signed(v, width)
MCChangedWidth(v, negative, width) == CI!get_changed_width(v, negative, width)
MCIopUnary(cop, a, width, u)       == CI!Iop1(cop, a, width, u).val
MCIopBinary(cop, a, b, width, u)   == CI!Iop2(cop, a, b, width, u).val
MCFopUnary(cop, a)                 == a
MCFopBinary(cop, a, b)             == b
MCIntToFloat(v, width, u)          == IF u THEN v ELSE CI!SignedNum(v, width)
MCIntMin(width)                    == CI!IntMinWord(width)

(* What the display may answer: a number that fits the word, or none. *)
MCBestIntegers ==
  {[ok |-> TRUE, uval |-> n, negative |-> FALSE] : n \in {0, 1, 3, 6, 15}} \cup
  {[ok |-> TRUE, uval |-> n, negative |-> TRUE] : n \in {8, 13, 14, 15}} \cup
  {[ok |-> FALSE, uval |-> 0, negative |-> b] : b \in BOOLEAN}

VARIABLE part   \* whether a behaviour is about operators or about memories

NumbersInit == NumInit /\ part \in {"operators", "memories"}

NumbersNext ==
  /\ NumNext
  /\ part = "operators" => UNCHANGED mem_val
  /\ part = "memories" => UNCHANGED bop_stack_index /\ (calc_mode = "float" => UNCHANGED calc_mode)
  /\ UNCHANGED part

NumbersSpec == NumbersInit /\ [][NumbersNext]_<<numVars, part>>

(* States that later calls and the properties cannot tell apart. *)
LiveView == <<part, LiveState, noted, IF init_from_save_val THEN shown.el ELSE Zero>>
=============================================================================
