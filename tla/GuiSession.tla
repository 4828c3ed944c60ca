----------------------------- MODULE GuiSession -----------------------------
(***************************************************************************)
(* The session of the main window (src/src/gui.c) on top of the engine:    *)
(* the number being typed, the labels, INV, HYP and F-E, the clipboard.    *)
(*                                                                         *)
(* A handler of GTK is an action that leaves in "calls" what it asks of    *)
(* the engine, in order; Call makes the next of these calls, with what the *)
(* callbacks of gui.c do.  One thread: no handler starts before the last   *)
(* one has made all its calls.  The text being typed is module Display.    *)
(***************************************************************************)
EXTENDS CalcEngineClosed, FiniteSets

CONSTANTS
  Controls,        \* the keys, buttons and menus the user may use
  PasteIntegers,   \* numbers the clipboard may hold in integer mode
  MinNum, MaxNum,  \* INT64_MIN and UINT64_MAX
  WordOf(_),       \* the word of a number in this range
  MaxPastes        \* bound: clipboard requests not yet answered

ASSUME PasteAssumption ==
  /\ PasteIntegers \subseteq Int
  /\ \A n \in PasteIntegers : MinNum <= n /\ n <= MaxNum => WordOf(n) \in IVal

\* The width calc_util_get_changed_width picks holds the number it picks it for.
ASSUME PasteWidthAssumption ==
  \A n \in PasteIntegers, w \in Width :
    MinNum <= n /\ n <= MaxNum =>
      LET wide == ChangedWidth(WordOf(n), n < 0, w)
          low  == MaskWidth(WordOf(n), wide)
      IN  IF n < 0 THEN GetSigned(low, wide) = WordOf(n) ELSE low = WordOf(n)

VARIABLES
  arg_pending, typed,        \* a number is being typed, and its value
  back_sensitive,            \* but_backspace
  inv_selected, hyp_selected, angle, gui_radix,
  format, last_float_format, \* the format to print in, and the one before
  shown_format,              \* the format the value was printed in
  labels,                    \* texts of the labels and buttons
  pastes,                    \* requests the clipboard has not answered
  calls, key,                \* calls still to make, and the key they are for
  given,                     \* the typed number was given to the engine as it is
  pasted                     \* what the clipboard last answered

typingVars == <<arg_pending, typed, back_sensitive>>
buttonVars == <<inv_selected, hyp_selected, angle, gui_radix>>
formatVars == <<format, last_float_format, shown_format>>
guiVars == <<typingVars, buttonVars, formatVars, labels, pastes, calls, key, given, pasted>>
sessionVars == <<vars, guiVars>>

Idle      == calls = <<>>
InInteger == calc_mode = "integer"
InFloat   == calc_mode = "float"

Trig     == {"sin", "cos", "tan"}
InvKeys  == Trig \cup {"log", "ln"}
Discards == {"clr", "pi", "rand", "paste", "take"}   \* keys that drop a number being typed

\* cop_or_hyp and cop_or_inv.
HypOf == [sin |-> "sinh", cos |-> "cosh", tan |-> "tanh"]
InvOf == [log |-> "inv_log", ln |-> "inv_ln", sin |-> "inv_sin", cos |-> "inv_cos",
          tan |-> "inv_tan", sinh |-> "inv_sinh", cosh |-> "inv_cosh", tanh |-> "inv_tanh"]
cop_or_hyp(cop) == IF hyp_selected /\ cop \in Trig THEN HypOf[cop] ELSE cop
cop_or_inv(cop) == IF inv_selected /\ cop \in DOMAIN InvOf THEN InvOf[cop] ELSE cop

\* What set_inv_button and set_trig_but_labels write on the keys, as the operation
\* the text names ("asin" is inv_sin, "10^x" is inv_log).
KeyTexts(inv, hyp) ==
  [cop \in InvKeys |->
     LET base == IF hyp /\ cop \in Trig THEN HypOf[cop] ELSE cop
     IN  IF inv THEN InvOf[base] ELSE base]

PlainTexts == [cop \in InvKeys |-> cop]

\* update_status_label, with A to F enabled by set_hex_buttons.
Status(mode, radix, unit) ==
  IF mode = "integer" THEN <<"INTEGER", radix>> ELSE <<"FLOATING", unit>>

\* update_mem_label and update_mem_tooltip.
NonZero(mode, mem) ==
  {k \in Memory : IF mode = "integer" THEN mem[k].ival # IZero ELSE mem[k].fval # FZero}
Tooltip(mode, mem, unsigned, k) ==
  IF mode = "integer" THEN <<mem[k].ival, unsigned[k]>> ELSE <<mem[k].fval>>

-----------------------------------------------------------------------------
(* The calls of a handler *)

EngineOp(cop)  == [call |-> "op", cop |-> cop]
MemOp(cop, k)  == [call |-> "mem", cop |-> cop, k |-> k]
Give(el, typing) == [call |-> "give", el |-> el, typing |-> typing]
Simple(name)   == [call |-> name]
PeekOp         == EngineOp("peek")

TypedEl == IF InInteger THEN IntEl(typed) ELSE FloatEl(typed)

\* Mutant of GiveIfPending: the number is not given.
GiveNothing == <<>>

\* give_arg_if_pending; arg_pending is left for gui_result_callback to clear.
GiveIfPending == IF arg_pending THEN <<Give(TypedEl, TRUE)>> ELSE <<>>

-----------------------------------------------------------------------------
(* What the calls do: the engine's action, and the callbacks of gui.c *)

\* gui_result_callback.
ResultCallback ==
  /\ last_float_format' = format
  /\ shown_format' = format
  /\ format' = "gmode"
  /\ arg_pending' = FALSE
  /\ back_sensitive' = FALSE
  /\ UNCHANGED typed

\* show_pending_bin_op and gui_set_num_used_parentheses.
EngineLabels == [labels EXCEPT !.bop = shown'.cop, !.parl = num_parentheses']

Answered == /\ ResultCallback
            /\ labels' = EngineLabels

Refused(cop) ==
  \/ cop = "parl" /\ ~(num_parentheses < MAX_PARENTHESES /\ paren_allowed)
  \/ cop = "parr" /\ num_parentheses = 0

CallOp(cop) ==
  IF Refused(cop)
  THEN UNCHANGED <<vars, typingVars, formatVars, labels>>
  ELSE /\ \/ cop = "peek" /\ Peek
          \/ cop = "eq" /\ Equals
          \/ cop \in BinaryOps /\ BinaryOp(cop)
          \/ cop \in IntUnaryOps \cup FloatUnaryOps /\ UnaryOp(cop)
          \/ cop = "parl" /\ ParenthesesLeft
          \/ cop = "parr" /\ ParenthesesRight
          \/ cop = "pi" /\ EnterPi
          \/ cop = "rand" /\ EnterRand
          \/ cop = "int_min" /\ EnterIntMin
       /\ Answered

CallMem(cop, k) ==
  /\ CASE cop = "ms" -> MemoryStore(k)
       [] cop = "mr" -> MemoryRecall(k)
       [] cop = "mp" -> MemoryPlus(k)
  /\ Answered

CallGive(el) ==
  /\ GiveArg(el.ival, el.fval)
  /\ UNCHANGED <<typingVars, formatVars, labels>>

\* Mutant of MemLabels: the label is forgotten.
MemTooltipOnly(k) ==
  [labels EXCEPT !.tooltip[k] = Tooltip(calc_mode, mem_val, mem_was_unsigned, k)]

\* update_mem_label and, after a store, update_mem_tooltip.
MemLabels(k) ==
  [labels EXCEPT !.mem = NonZero(calc_mode, mem_val),
                 !.tooltip[k] = Tooltip(calc_mode, mem_val, mem_was_unsigned, k)]

\* gui_recreate up to its click on CLR: new widgets, in the state of the new mode.
RecreatedLabels ==
  [bop |-> "nop", parl |-> 0,
   status |-> Status(calc_mode, gui_radix, angle),
   mem |-> NonZero(calc_mode, mem_val),
   tooltip |-> [k \in Memory |-> Tooltip(calc_mode, mem_val, mem_was_unsigned, k)],
   keys |-> IF InFloat THEN KeyTexts(FALSE, hyp_selected) ELSE PlainTexts]

gui_recreate ==
  /\ labels' = RecreatedLabels
  /\ inv_selected' = FALSE
  /\ format' = IF InFloat THEN "gmode" ELSE format
  /\ UNCHANGED <<vars, typingVars, hyp_selected, angle, gui_radix,
                 last_float_format, shown_format>>

\* Calls that change the engine without a callback of a result.
Silent == UNCHANGED <<typingVars, formatVars, labels>>

Do(c) ==
  \/ /\ c.call = "recreate"
     /\ gui_recreate
  \/ /\ c.call = "mem_label"
     /\ labels' = MemLabels(c.k)
     /\ UNCHANGED <<vars, typingVars, formatVars, buttonVars>>
  \/ /\ UNCHANGED buttonVars
     /\ \/ c.call = "op" /\ CallOp(c.cop)
        \/ c.call = "mem" /\ CallMem(c.cop, c.k)
        \/ c.call = "give" /\ CallGive(c.el)
        \/ c.call = "clear" /\ Clear /\ Answered
        \/ c.call = "xor" /\ BitXor(c.mask) /\ Answered
        \/ c.call = "set_mode" /\ (\E best \in BestIntegers : SetMode(best)) /\ Answered
        \/ c.call = "set_width" /\ SetIntegerWidth(c.width) /\ Silent
        \/ c.call = "set_unsigned" /\ SetUseUnsigned /\ Silent
        \/ c.call = "set_repeat" /\ SetRepeatedEquals /\ Silent

Call ==
  /\ ~Idle
  /\ Do(Head(calls))
  /\ calls' = Tail(calls)
  /\ given' = (given \/ (Head(calls).call = "give" /\ Head(calls).typing))
  /\ UNCHANGED <<pastes, key, pasted>>

-----------------------------------------------------------------------------
(* Handlers *)

\* A handler starts when the last one is done, and names its calls.
Handler(k, todo) ==
  /\ Idle
  /\ k \in Controls
  /\ calls' = todo
  /\ key' = k
  /\ UNCHANGED vars

\* The end of button_click: INV comes off.  There is no INV in integer mode.
InvOff ==
  /\ inv_selected' = FALSE
  /\ labels' = IF InFloat /\ inv_selected
               THEN [labels EXCEPT !.keys = KeyTexts(FALSE, hyp_selected)] ELSE labels
  /\ UNCHANGED <<hyp_selected, angle, gui_radix>>

Clipboard == <<pastes, pasted>>

\* What can be typed: numbers of the width.
Typable ==
  IF InInteger THEN {v \in ArgI : MaskWidth(v, integer_width) = v} ELSE ArgF

\* A key of button_click that only asks for calls.
Button(k, todo) ==
  /\ Handler(k, todo)
  /\ InvOff
  /\ UNCHANGED <<typingVars, formatVars, given, Clipboard>>

\* Keys that edit the number: digit_entered, enter_point, bid_exp, and bid_pm while
\* typing.  EXP starts a number without resetting last_float_format.  The digit that
\* makes the least integer's magnitude enters the least integer instead.
TypeKey(k) ==
  /\ k \in {"point", "exp", "pm"} => InFloat
  /\ k = "pm" => arg_pending
  /\ \E todo \in {<<>>} \cup (IF InInteger /\ arg_pending THEN {<<EngineOp("int_min")>>} ELSE {}) :
       Handler(IF todo = <<>> THEN k ELSE "int_min", todo)
  /\ typed' \in Typable
  /\ arg_pending' = TRUE
  /\ back_sensitive' = TRUE
  /\ last_float_format' = IF arg_pending \/ k = "exp" THEN last_float_format ELSE "gmode"
  /\ given' = FALSE
  /\ InvOff
  /\ UNCHANGED <<format, shown_format, Clipboard>>

backspace_click ==
  /\ back_sensitive
  /\ Handler("backspace", <<>>)
  /\ typed' \in Typable
  /\ given' = FALSE
  /\ UNCHANGED <<arg_pending, back_sensitive, formatVars, buttonVars, labels, Clipboard>>

HasKey(cop) ==
  \/ cop \in {"eq", "parl", "parr"}
  \/ cop \in BinaryOps /\ HasBop(cop, calc_mode)
  \/ HasUop(cop, calc_mode)

\* Operators, brackets and =; the sign key in integer mode.
OpKey(cop) ==
  /\ HasKey(cop)
  /\ cop \notin InvKeys
  /\ ~(cop = "pm" /\ InFloat)
  /\ Button(cop, GiveIfPending \o <<EngineOp(cop)>>)

\* The sign key on a result, PI and RAND: what is being typed is not given.
PlainKey(cop) ==
  /\ InFloat
  /\ \/ cop = "pm" /\ ~arg_pending
     \/ cop \in {"pi", "rand"}
  /\ Button(cop, <<EngineOp(cop)>>)

\* Mutant of FunctionKey: HYP is looked at after INV, and finds nothing.
FunctionKeyInvFirst(cop) ==
  /\ InFloat
  /\ cop \in InvKeys
  /\ Button(cop, GiveIfPending \o <<EngineOp(cop_or_hyp(cop_or_inv(cop)))>>)

FunctionKey(cop) ==
  /\ InFloat
  /\ cop \in InvKeys
  /\ Button(cop, GiveIfPending \o <<EngineOp(cop_or_inv(cop_or_hyp(cop)))>>)

MemoryKey(cop, k) ==
  Button(cop, GiveIfPending \o <<MemOp(cop, k), [call |-> "mem_label", k |-> k]>>)

\* [F-E]: the number shown next is in exponent form, unless the last one was.
FeKey ==
  /\ InFloat
  /\ Handler("fe", GiveIfPending \o <<PeekOp>>)
  /\ format' = IF last_float_format = "gmode" THEN "emode" ELSE format
  /\ InvOff
  /\ UNCHANGED <<last_float_format, shown_format, typingVars, given, Clipboard>>

ClearKey == Button("clr", <<Simple("clear")>>)

\* The two keys that leave button_click before INV comes off.
HistKey ==
  /\ Handler("hist", <<>>)
  /\ UNCHANGED <<typingVars, formatVars, buttonVars, labels, given, Clipboard>>

mode_toggle ==
  /\ Handler("flip", GiveIfPending \o <<Simple("set_mode"), Simple("recreate"), Simple("clear")>>)
  /\ UNCHANGED <<typingVars, formatVars, buttonVars, labels, given, Clipboard>>

ButtonClick ==
  \/ \E k \in {"digit", "point", "exp", "pm"} : TypeKey(k)
  \/ \E cop \in Keys \cap Controls : OpKey(cop) \/ PlainKey(cop) \/ FunctionKey(cop)
  \/ \E cop \in {"ms", "mr", "mp"}, k \in Memory : MemoryKey(cop, k)
  \/ FeKey
  \/ ClearKey
  \/ HistKey

-----------------------------------------------------------------------------
(* Toggled buttons: not button_click, so INV stays *)

Toggle(k, todo) ==
  /\ Handler(k, todo)
  /\ UNCHANGED <<typingVars, formatVars, given, Clipboard>>

inv_button_toggle ==
  /\ InFloat
  /\ Toggle("inv", <<>>)
  /\ inv_selected' = ~inv_selected
  /\ labels' = [labels EXCEPT !.keys = KeyTexts(~inv_selected, hyp_selected)]
  /\ UNCHANGED <<hyp_selected, angle, gui_radix>>

hyp_button_toggle ==
  /\ InFloat
  /\ Toggle("hyp", <<>>)
  /\ hyp_selected' = ~hyp_selected
  /\ labels' = [labels EXCEPT !.keys = KeyTexts(inv_selected, ~hyp_selected)]
  /\ UNCHANGED <<inv_selected, angle, gui_radix>>

deg_rad_grad_rb_toggle(unit) ==
  /\ InFloat /\ unit # angle
  /\ Toggle("angle", <<>>)
  /\ angle' = unit
  /\ labels' = [labels EXCEPT !.status = Status(calc_mode, gui_radix, unit)]
  /\ UNCHANGED <<inv_selected, hyp_selected, gui_radix>>

dec_hex_rb_toggle(radix) ==
  /\ InInteger /\ radix # gui_radix
  /\ Toggle("radix", GiveIfPending \o <<PeekOp>>)
  /\ gui_radix' = radix
  /\ labels' = [labels EXCEPT !.status = Status(calc_mode, radix, angle)]
  /\ UNCHANGED <<inv_selected, hyp_selected, angle>>

\* Mutant of WidthClick: the display is not refreshed.
WidthClickSilent(width) ==
  IF width = integer_width THEN <<>>
  ELSE GiveIfPending \o <<[call |-> "set_width", width |-> width]>>

\* A radio button calls its handler only when it is turned on.
WidthClick(width) ==
  IF width = integer_width THEN <<>>
  ELSE GiveIfPending \o <<[call |-> "set_width", width |-> width], PeekOp>>

int_width_rb_toggle(width) ==
  /\ InInteger /\ width # integer_width
  /\ Toggle("width", WidthClick(width))
  /\ UNCHANGED <<buttonVars, labels>>

int_signed_rb_toggle ==
  /\ InInteger
  /\ Toggle("sign", GiveIfPending \o <<Simple("set_unsigned"), PeekOp>>)
  /\ UNCHANGED <<buttonVars, labels>>

float_digits_rb_toggle ==
  /\ InFloat
  /\ Toggle("digits", GiveIfPending \o <<PeekOp>>)
  /\ UNCHANGED <<buttonVars, labels>>

chk_toggle ==
  /\ Toggle("repeat", <<Simple("set_repeat")>>)
  /\ UNCHANGED <<buttonVars, labels>>

-----------------------------------------------------------------------------
(* Values that come from elsewhere *)

\* A value chosen in the history, a constant or a converted value.
TakeValue ==
  /\ \E el \in IF InInteger THEN {IntEl(v) : v \in ArgI} ELSE {FloatEl(v) : v \in ArgF} :
       Toggle("take", <<Give(el, FALSE), PeekOp>>)
  /\ UNCHANGED <<buttonVars, labels>>

\* A conversion is opened: the number is given, and stays on the display to be edited.
gui_give_arg_if_pending ==
  /\ InFloat
  /\ Toggle("convert", GiveIfPending)
  /\ UNCHANGED <<buttonVars, labels>>

\* A bit of the display is clicked.
BitClick(mask) ==
  /\ InInteger
  /\ Toggle("bit", GiveIfPending \o <<[call |-> "xor", mask |-> mask]>>)
  /\ UNCHANGED <<buttonVars, labels>>

clipboard_paste ==
  /\ Idle
  /\ "paste" \in Controls
  /\ pastes < MaxPastes
  /\ pastes' = pastes + 1
  /\ UNCHANGED <<vars, typingVars, formatVars, buttonVars, labels, given, calls, key, pasted>>

\* clipboard_paste_callback: nothing; or a number, read as the mode is by now.
PasteNothing ==
  /\ pastes > 0
  /\ Handler("nothing", <<>>)
  /\ pastes' = pastes - 1
  /\ UNCHANGED <<typingVars, formatVars, buttonVars, labels, given, pasted>>

InRange(n) == MinNum <= n /\ n <= MaxNum

\* Mutant of PasteInteger: the width stays.
PasteIntegerNarrow(n) ==
  <<Give(IntEl(IF InRange(n) THEN WordOf(n) ELSE IZero), FALSE), PeekOp>>

PasteInteger(n) ==
  LET uval  == IF InRange(n) THEN WordOf(n) ELSE IZero
      width == IF InRange(n) THEN ChangedWidth(uval, n < 0, integer_width) ELSE integer_width
  IN  WidthClick(width) \o <<Give(IntEl(uval), FALSE), PeekOp>>

clipboard_paste_callback ==
  /\ pastes > 0
  /\ pasted' \in IF InInteger THEN PasteIntegers ELSE ArgF
  /\ Handler("paste", IF InInteger THEN PasteInteger(pasted')
                      ELSE <<Give(FloatEl(pasted'), FALSE), PeekOp>>)
  /\ pastes' = pastes - 1
  /\ UNCHANGED <<typingVars, formatVars, buttonVars, labels, given>>

Outside ==
  \/ TakeValue
  \/ gui_give_arg_if_pending
  \/ \E mask \in BitMasks : BitClick(mask)
  \/ clipboard_paste
  \/ PasteNothing
  \/ clipboard_paste_callback

-----------------------------------------------------------------------------
(* The program starts with gui_create: calc_init, and gui_recreate. *)

Radix == {"dec", "hex"}
Angle == {"deg", "rad", "grad"}

SessionInit ==
  /\ Init
  /\ arg_pending = FALSE /\ typed = 0 /\ back_sensitive = TRUE
  /\ inv_selected = FALSE /\ hyp_selected = FALSE
  /\ angle = "deg" /\ gui_radix = "dec"
  /\ format = "gmode" /\ last_float_format = "gmode" /\ shown_format = "gmode"
  /\ labels = RecreatedLabels
  /\ pastes = 0 /\ pasted = 0
  /\ calls = <<Simple("recreate"), Simple("clear")>> /\ key = "flip"
  /\ given = FALSE

SessionNext ==
  \/ Call
  \/ ButtonClick
  \/ mode_toggle
  \/ inv_button_toggle \/ hyp_button_toggle
  \/ \E unit \in Angle : deg_rad_grad_rb_toggle(unit)
  \/ \E radix \in Radix : dec_hex_rb_toggle(radix)
  \/ \E width \in Width : int_width_rb_toggle(width)
  \/ int_signed_rb_toggle \/ float_digits_rb_toggle \/ chk_toggle
  \/ Outside

SessionSpec == SessionInit /\ [][SessionNext]_sessionVars

-----------------------------------------------------------------------------
(* Properties *)

\* Between two handlers the display shows what the next operation will work on, and
\* the operator that waits for it, unless a number is being typed: each handler that
\* changes the engine ends by showing it (gui.c:1197, 1228, 1318; gui.c:1822-1834).
ShownIsTop ==
  (Idle /\ ~arg_pending) =>
     /\ Half(shown.el) = Half(StackTop(Machine))
     /\ shown.cop = TopOp(Machine)

\* The labels say what the engine and the keys are going to do: the operator and the
\* brackets that are open, the memories in use and what they hold, the mode, radix and
\* angle, and on each key the function that INV and HYP make of it.
LabelsTrue ==
  Idle => /\ labels.bop = TopOp(Machine)
          /\ labels.parl = num_parentheses
          /\ labels.status = Status(calc_mode, gui_radix, angle)
          /\ labels.mem = NonZero(calc_mode, mem_val)
          /\ \A k \in Memory :
               labels.tooltip[k] = Tooltip(calc_mode, mem_val, mem_was_unsigned, k)
          /\ InFloat => labels.keys = KeyTexts(inv_selected, hyp_selected)

\* A number being typed leaves the display only once the engine was given it as it was
\* last edited, or by a key meant to replace it (gui.c:339-351): refused brackets and
\* opened conversions, after which it is given again, included.
TypedIsTaken ==
  [][(arg_pending /\ ~arg_pending') => given \/ key \in Discards \cup {"int_min"}]_sessionVars

\* A key does what its text says, however INV and HYP were pressed and the mode was
\* changed in between.
KeyDoesWhatItSays ==
  [][\A cop \in InvKeys :
       FunctionKey(cop) => calls'[Len(calls')] = EngineOp(labels.keys[cop])]_sessionVars

\* Whatever happened between the request and the answer, a pasted number ends up on the
\* display as it is, the width grown to hold it, or 0 for one out of range
\* (gui.c:1976-2013).
PasteIsShown ==
  [][(key = "paste" /\ ~Idle /\ calls' = <<>>) =>
       /\ ~arg_pending'
       /\ IF InFloat THEN shown'.el.fval = pasted
          ELSE IF ~InRange(pasted) THEN shown'.el.ival = IZero
          ELSE IF pasted < 0
               THEN GetSigned(shown'.el.ival, integer_width) = WordOf(pasted)
               ELSE shown'.el.ival = WordOf(pasted)]_sessionVars

=============================================================================
