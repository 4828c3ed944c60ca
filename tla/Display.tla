------------------------------ MODULE Display ------------------------------
(***************************************************************************)
(* Typing a number: the characters on the display (src/src/display.c) and  *)
(* the keys that change them (src/src/gui.c).                              *)
(*                                                                         *)
(* The display is an array of characters that the code keeps NUL           *)
(* terminated by hand: every function of display.c that edits it is an     *)
(* operator from a display to a display.  After each edit update_display   *)
(* reads the text back as an integer and takes a digit off when the number *)
(* no longer fits.  An action is a whole handler of gui.c.  What an        *)
(* operation of the engine computes is any value (action Result): it only  *)
(* matters here that its result ends the number being typed.               *)
(***************************************************************************)
EXTENDS Integers, Sequences, Functions

CONSTANTS
  DISP_STACK_SIZE,    \* characters on the display, with the final NUL (43)
  EXP_DIGITS,         \* digits of an exponent (3)
  Configs,            \* settings: [mode, format, width, unsigned, digits]
  IntKeys, FloatKeys, \* the digit keys of each mode, as numbers
  Words,              \* integer results
  FloatTexts          \* printed floating point results, as sequences

VARIABLES
  disp,        \* [stack, index, exp_entry, ival, error]
  cfg,         \* mode, radix, width, signedness and digits, in display and engine
  arg_pending  \* gui.c: a number is being typed

vars == <<disp, cfg, arg_pending>>

DISP_MAX_LEN == DISP_STACK_SIZE - 1
NUL   == "NUL"
Digit == <<"0", "1", "2", "3", "4", "5", "6", "7",
           "8", "9", "A", "B", "C", "D", "E", "F">>
Chars == Range(Digit) \cup {NUL, "-", "+", ".", "e"}
Slot  == 0..DISP_MAX_LEN

DigitValue == [c \in Range(Digit) |-> (CHOOSE i \in 1..16 : Digit[i] = c) - 1]

-----------------------------------------------------------------------------
(* Text and numbers *)

\* The text is what comes before the first NUL, wherever the index is.
strlen(d) == CHOOSE n \in Slot : d.stack[n] = NUL /\ \A i \in 0..(n - 1) : d.stack[i] # NUL
Text(d)   == [i \in 1..strlen(d) |-> d.stack[i - 1]]

\* The digits in the slots from..to-1, as a number.
Magnitude(d, from, to, base) ==
  LET before[i \in from..to] ==
        IF i = from THEN 0 ELSE before[i - 1] * base + DigitValue[d.stack[i - 1]]
  IN before[to]

\* The digits of a natural number.
Numeral(m, base) ==
  LET len == CHOOSE k \in 1..64 : m < base^k /\ \A j \in 1..(k - 1) : m >= base^j
  IN [i \in 1..len |-> Digit[((m \div base^(len - i)) % base) + 1]]

\* sprintf of an integer.
Printed(n, base) == IF n < 0 THEN <<"-">> \o Numeral(-n, base) ELSE Numeral(n, base)

Base(c)      == IF c.format = "hex" THEN 16 ELSE 10
SignedDec(c) == c.mode = "int" /\ c.format = "dec" /\ ~c.unsigned

\* A display holds the sign, the digits, the "0." and the exponent of every number that
\* may be typed (display.c:50-58).
ASSUME SizesAssumption ==
  /\ DISP_STACK_SIZE \in Nat /\ EXP_DIGITS \in Nat \ {0}
  /\ Configs \subseteq [mode : {"int", "float"}, format : {"dec", "hex"}, width : Nat,
                       unsigned : BOOLEAN, digits : Nat \ {0}]
  /\ \A c \in Configs : c.digits + 3 + (2 + EXP_DIGITS) <= DISP_MAX_LEN

ASSUME InputsAssumption ==
  /\ IntKeys \subseteq 0..15 /\ FloatKeys \subseteq 0..9
  /\ Words \subseteq Nat
  /\ FloatTexts \subseteq Seq(Chars \ {NUL}) \ {<<>>}

\* What the proofs need to know of powers: of the base, up to the most digits of a word
\* (top: 20 and 16 for 64 bits), of two, and of ten for the exponent.  A word has a
\* whole number of hexadecimal digits.
PowersOf(b, top) ==
  b^0 = 1 /\ \A k \in 1..top : b^k \in Nat /\ b^k = b * b^(k - 1)
ASSUME PowersAssumption ==
  /\ PowersOf(10, EXP_DIGITS)
  /\ \A c \in Configs :
       /\ 2^(c.width - 1) \in Nat /\ 2^c.width = 2 * 2^(c.width - 1)
       /\ Base(c) <= 2^(c.width - 1)
       /\ \E top \in 1..64 :
            /\ top < DISP_MAX_LEN
            /\ PowersOf(Base(c), top)
            /\ 2^c.width <= Base(c)^top
            /\ c.format = "hex" => top = c.width \div 4 /\ Base(c)^top = 2^c.width

\* Mutant of SignedWord: a word of an unsigned engine is sign extended too.
SignedWordAlways(w, c) == IF w >= 2^(c.width - 1) THEN w - 2^c.width ELSE w

\* calc_util_get_signed, for a signed engine.
SignedWord(w, c) == IF ~c.unsigned /\ w >= 2^(c.width - 1) THEN w - 2^c.width ELSE w

\* calc_util_signed_str_to_ival and calc_util_unsigned_str_to_ival accept it.
InRange(n, c) ==
  IF SignedDec(c) THEN -(2^(c.width - 1)) <= n /\ n < 2^(c.width - 1)
                  ELSE 0 <= n /\ n < 2^c.width

-----------------------------------------------------------------------------
(* display.c *)

disp_stack_push(d, c, limit) ==
  IF d.index < limit THEN [d EXCEPT !.stack[d.index] = c, !.index = @ + 1] ELSE d

\* Mutant of disp_stack_pop: the popped character is not overwritten.
disp_stack_popKeeping(d) == [d EXCEPT !.index = @ - 1]

disp_stack_pop(d) ==
  IF d.index > 0 THEN [d EXCEPT !.stack[d.index - 1] = NUL, !.index = @ - 1]
                 ELSE [d EXCEPT !.error = TRUE]

\* strtoll and strtoull of the text.
DisplayNumber(d, c) ==
  IF d.stack[0] = "-" THEN -Magnitude(d, 1, strlen(d), Base(c))
                      ELSE Magnitude(d, 0, strlen(d), Base(c))

\* Mutant of is_equivalent_of_int_min: the case is not recognised.
is_equivalent_of_int_minNever(d, c) == FALSE

is_equivalent_of_int_min(d, c) == Text(d) = Printed(2^(c.width - 1), 10)

\* The number is read back; a decimal one may lose one digit, never two.
update_display(d, c) ==
  LET Stored(e) == [e EXCEPT !.ival = DisplayNumber(e, c) % 2^c.width]
      shorter == disp_stack_pop(d)
  IN CASE c.mode = "float" -> d
       [] c.mode = "int" /\ InRange(DisplayNumber(d, c), c) -> Stored(d)
       [] OTHER -> IF c.format = "dec" /\ InRange(DisplayNumber(shorter, c), c)
                   THEN Stored(shorter)
                   ELSE [d EXCEPT !.error = TRUE]

\* update_display returns TRUE.
IntMinTyped(d, c) ==
  /\ SignedDec(c)
  /\ ~InRange(DisplayNumber(d, c), c)
  /\ is_equivalent_of_int_min(d, c)

display_set_text(d, text, c) ==
  update_display([d EXCEPT
    !.stack = [i \in Slot |-> IF i < DISP_MAX_LEN /\ i < Len(text) THEN text[i + 1] ELSE NUL],
    !.index = IF Len(text) < DISP_MAX_LEN THEN Len(text) ELSE DISP_MAX_LEN,
    !.exp_entry = FALSE], c)

\* v is a word in integer mode, and the text that display_print made in float mode.
display_set_val(d, v, c) ==
  display_set_text(d,
    IF c.mode = "float" THEN v
    ELSE Printed(IF SignedDec(c) THEN SignedWord(v, c) ELSE v, Base(c)), c)

ExpSlots(d) == (d.index - EXP_DIGITS)..(d.index - 1)

remove_exponent(d) ==
  [d EXCEPT !.stack = [i \in Slot |->
     IF i \notin ExpSlots(d) THEN @[i]
     ELSE IF i - 1 \in ExpSlots(d) THEN @[i - 1] ELSE "0"]]

add_exponent(d, ch) ==
  IF ch = "." THEN d
  ELSE [d EXCEPT !.stack = [i \in Slot |->
          IF i \notin ExpSlots(d) THEN @[i]
          ELSE IF i + 1 \in ExpSlots(d) THEN @[i + 1] ELSE ch]]

\* Mutant of display_remove: the number is not read back.
display_removeUnread(d, c) ==
  IF d.exp_entry THEN remove_exponent(d)
  ELSE IF d.index = 1 THEN [d EXCEPT !.stack[0] = "0"] ELSE disp_stack_pop(d)

display_remove(d, c) ==
  LET popped == disp_stack_pop(d)
      ZeroFirst(e) == [e EXCEPT !.stack[0] = "0"]
  IN CASE d.exp_entry -> update_display(remove_exponent(d), c)
       [] ~d.exp_entry /\ d.index = 1 -> update_display(ZeroFirst(d), c)
       [] ~d.exp_entry /\ d.index > 1 ->
            update_display(IF popped.index = 1 /\ popped.stack[0] = "-"
                           THEN ZeroFirst(popped) ELSE popped, c)
       [] OTHER -> d

LoneZero(d) ==
  \/ d.index = 1 /\ d.stack[0] = "0"
  \/ d.index = 2 /\ d.stack[0] = "-" /\ d.stack[1] = "0"

HasPoint(d) == "." \in Range(Text(d))

\* As many characters as make disp_float_num_digits significant digits.
FloatLimit(d, c) ==
  LET first == IF d.stack[0] = "-" THEN 1 ELSE 0
  IN c.digits + first
     + (IF HasPoint(d) THEN (IF d.stack[first] = "0" THEN 2 ELSE 1) ELSE 0)

CharLimit(d, c) ==
  CASE c.mode = "float" -> FloatLimit(d, c)
    [] c.mode = "int" /\ c.format = "hex" -> c.width \div 4
    [] OTHER -> DISP_MAX_LEN

Refused(d, ch, c) ==
  \/ LoneZero(d) /\ ch = "0"
  \/ c.mode = "float" /\ ch = "." /\ HasPoint(d)

\* The character is on the stack, update_display not yet called.
Pushed(d, ch, c) ==
  LET room == IF LoneZero(d) /\ ch # "." THEN disp_stack_pop(d) ELSE d
  IN disp_stack_push(room, ch, CharLimit(room, c))

display_add(d, ch, c) ==
  CASE d.exp_entry -> update_display(add_exponent(d, ch), c)
    [] ~d.exp_entry /\ Refused(d, ch, c) -> d
    [] OTHER -> update_display(Pushed(d, ch, c), c)

display_add_returns(d, ch, c) ==
  ~d.exp_entry /\ ~Refused(d, ch, c) /\ IntMinTyped(Pushed(d, ch, c), c)

disp_toggle_exp_sign(d) ==
  [d EXCEPT !.stack[d.index - EXP_DIGITS - 1] = IF @ = "+" THEN "-" ELSE "+"]

disp_toggle_sign(d, c) ==
  CASE d.exp_entry -> update_display(disp_toggle_exp_sign(d), c)
    [] ~d.exp_entry /\ d.stack[0] # "-" ->
         update_display([d EXCEPT
           !.stack = [i \in Slot |-> IF i = 0 THEN "-"
                                     ELSE IF i <= d.index THEN @[i - 1] ELSE @[i]],
           !.index = @ + 1], c)
    [] OTHER ->
         update_display([d EXCEPT
           !.stack = [i \in Slot |-> IF i < d.index THEN @[i + 1] ELSE @[i]],
           !.index = @ - 1], c)

ExpSuffix == <<"e", "+">> \o [i \in 1..EXP_DIGITS |-> "0"]

\* Called in floating point mode, to change exponent entry on or off.
display_set_exp_entry(d, enable, c) ==
  LET n == Len(ExpSuffix)
      suffixed[k \in 0..n] ==
        IF k = 0 THEN d ELSE disp_stack_push(suffixed[k - 1], ExpSuffix[k], DISP_MAX_LEN)
      stripped[k \in 0..n] == IF k = 0 THEN d ELSE disp_stack_pop(stripped[k - 1])
  IN IF c.mode # "float" \/ enable = d.exp_entry THEN d
     ELSE [update_display(IF enable THEN suffixed[n] ELSE stripped[n], c)
             EXCEPT !.exp_entry = enable]

-----------------------------------------------------------------------------
(* The keys (gui.c).  digit_entered, enter_point and EXP start a number if *)
(* none is pending; the engine's result callback ends it.                  *)

Init ==
  /\ cfg \in Configs
  /\ arg_pending = FALSE
  /\ disp = display_set_text([stack |-> [i \in Slot |-> NUL], index |-> 0, exp_entry |-> FALSE,
                              ival |-> 0, error |-> FALSE], <<"0">>, cfg)

\* gui_result_callback: the engine's value is shown and no number is pending.
ShowResult(v, c) ==
  /\ disp' = display_set_val(disp, v, c)
  /\ arg_pending' = FALSE

\* An operation of the engine, whatever it computes.
Result ==
  /\ \E v \in IF cfg.mode = "int" THEN {w \in Words : w < 2^cfg.width} ELSE FloatTexts :
        ShowResult(v, cfg)
  /\ UNCHANGED cfg

\* Radix, width or sign: the pending number is given to the engine first, which
\* sign extends and masks it (SetIntegerWidth of CalcEngine) and shows it again.
ChangeIntSettings ==
  /\ cfg' \in Configs
  /\ \E f \in {"format", "width", "unsigned"} :
        cfg' # cfg /\ cfg' = [cfg EXCEPT ![f] = cfg'[f]]
  /\ cfg.mode = "int"
  /\ ShowResult(SignedWord(disp.ival, cfg) % 2^cfg'.width, cfg')

\* Mode and digits: the value shown is printed, or converted, elsewhere.
ChangeFloatSettings ==
  /\ cfg' \in Configs
  /\ \/ cfg' = [cfg EXCEPT !.mode = IF @ = "int" THEN "float" ELSE "int"]
     \/ cfg.mode = "float" /\ cfg' # cfg /\ cfg' = [cfg EXCEPT !.digits = cfg'.digits]
  /\ \E v \in IF cfg'.mode = "int" THEN {w \in Words : w < 2^cfg'.width} ELSE FloatTexts :
        ShowResult(v, cfg')

StartNumber(text) ==
  /\ ~arg_pending
  /\ disp' = display_set_text(disp, text, cfg)
  /\ arg_pending' = TRUE

Enabled(k) == IF cfg.mode = "int" THEN k \in IntKeys /\ k < Base(cfg) ELSE k \in FloatKeys

\* When display_add returns TRUE the key is followed by cop_int_min.
digit_entered(k) ==
  LET ch == Digit[k + 1]
      added == display_add(disp, ch, cfg)
      int_min == display_add_returns(disp, ch, cfg)
  IN /\ Enabled(k)
     /\ \/ StartNumber(<<ch>>)
        \/ /\ arg_pending
           /\ arg_pending' = ~int_min
           /\ disp' = IF int_min THEN display_set_val(added, 2^(cfg.width - 1), cfg) ELSE added
     /\ UNCHANGED cfg

enter_point ==
  /\ cfg.mode = "float"
  /\ \/ StartNumber(<<"0", ".">>)
     \/ /\ arg_pending
        /\ disp' = display_add(disp, ".", cfg)
        /\ UNCHANGED arg_pending
  /\ UNCHANGED cfg

bid_exp ==
  /\ cfg.mode = "float"
  /\ LET d == IF arg_pending THEN disp ELSE display_set_text(disp, <<"1">>, cfg)
     IN disp' = display_set_exp_entry(d, ~d.exp_entry, cfg)
  /\ arg_pending' = TRUE
  /\ UNCHANGED cfg

\* Otherwise the key negates the engine's value: a Result.
bid_pm ==
  /\ cfg.mode = "float" /\ arg_pending
  /\ disp' = disp_toggle_sign(disp, cfg)
  /\ UNCHANGED <<cfg, arg_pending>>

\* The button is sensitive while a number is pending.
backspace_click ==
  /\ arg_pending
  /\ disp' = display_remove(disp, cfg)
  /\ UNCHANGED <<cfg, arg_pending>>

Next ==
  \/ \E k \in IntKeys \cup FloatKeys : digit_entered(k)
  \/ enter_point \/ bid_exp \/ bid_pm \/ backspace_click
  \/ Result \/ ChangeIntSettings \/ ChangeFloatSettings

Spec == Init /\ [][Next]_vars

-----------------------------------------------------------------------------
(* Properties *)

TypeOK ==
  /\ disp \in [stack : [Slot -> Chars], index : 0..DISP_STACK_SIZE, exp_entry : BOOLEAN,
               ival : Nat, error : BOOLEAN]
  /\ cfg \in Configs
  /\ arg_pending \in BOOLEAN

\* display.c reports no error: no pop of an empty stack, and a number that is
\* out of range fits again after one digit is taken off (display.c:226-262).
NoDispError == ~disp.error

\* The hand-kept NUL termination (display.c:148, 303-313, 486-508): the characters of the
\* text, none of them NUL, are below the index, only NULs from it on, and the
\* last slot is never written.
NulTerminated ==
  /\ disp.index \in 1..DISP_MAX_LEN
  /\ \A i \in Slot : disp.stack[i] = NUL <=> i >= disp.index

\* The stored word, which the bit display draws and the engine gets (display.c:515-521),
\* is the number on the display, in range, and printing it gives back the text.
IvalIsShown ==
  cfg.mode = "int" =>
    LET n == DisplayNumber(disp, cfg)
    IN /\ InRange(n, cfg)
       /\ disp.ival = n % 2^cfg.width
       /\ Text(disp) = Printed(n, Base(cfg))

\* The number that a floating point text stands for.
EnteredDecimal ==
  LET d     == disp
      end   == IF d.exp_entry THEN d.index - Len(ExpSuffix) ELSE d.index
      first == IF d.stack[0] = "-" THEN 1 ELSE 0
      point == CHOOSE i \in first..end : /\ d.stack[i] = "." \/ i = end
                                         /\ \A j \in first..(i - 1) : d.stack[j] # "."
      Values(from, to) == [i \in 1..(to - from) |-> DigitValue[d.stack[from + i - 1]]]
  IN [neg   |-> first = 1,
      int   |-> Values(first, point),
      point |-> point < end,
      frac  |-> Values(point + 1, end),
      exp   |-> [on  |-> d.exp_entry,
                 neg |-> d.exp_entry /\ d.stack[end + 1] = "-",
                 n   |-> IF d.exp_entry
                         THEN Magnitude(d, end + 2, d.index, 10)
                         ELSE 0]]

\* No digit is lost and none is taken that does not fit (display.c:226-262, 424-460):
\* in integer mode the number becomes base * number + digit exactly when that is in
\* range, otherwise it stays, and only the magnitude of the least integer is
\* reported; in floating point mode the text grows until it has all its digits.
DigitTaken ==
  arg_pending /\ ~disp.exp_entry =>
    \A k \in IF cfg.mode = "int" THEN {n \in IntKeys : n < Base(cfg)} ELSE FloatKeys :
      LET added  == display_add(disp, Digit[k + 1], cfg)
          longer == disp.ival * Base(cfg) + k
          m      == EnteredDecimal
          count  == Len(m.frac) + (IF m.point /\ m.int = <<0>> THEN 0 ELSE Len(m.int))
      IN IF cfg.mode = "int"
         THEN /\ added.ival = IF InRange(longer, cfg) THEN longer ELSE disp.ival
              /\ display_add_returns(disp, Digit[k + 1], cfg)
                   <=> SignedDec(cfg) /\ longer = 2^(cfg.width - 1)
         ELSE strlen(added) > strlen(disp) <=> count < cfg.digits /\ ~LoneZero(disp)

\* The text written for a number that is being typed.
Characters(values) == [i \in 1..Len(values) |-> Digit[values[i] + 1]]
Rendered(m) ==
  (IF m.neg THEN <<"-">> ELSE <<>>) \o Characters(m.int)
  \o (IF m.point THEN <<".">> ELSE <<>>) \o Characters(m.frac)
  \o (IF m.exp.on
      THEN <<"e", IF m.exp.neg THEN "-" ELSE "+">>
           \o [i \in 1..EXP_DIGITS |-> Digit[((m.exp.n \div 10^(EXP_DIGITS - i)) % 10) + 1]]
      ELSE <<>>)

\* A number that is being typed can be read by dfp_from_string (display.c:527) whatever
\* keys made it: one sign, no leading zero, one point, a full exponent; and it
\* has no more digits than the display shows (display.c:431-446).
EntryReadsBack ==
  arg_pending /\ cfg.mode = "float" =>
    LET m == EnteredDecimal
    IN /\ Text(disp) = Rendered(m)
       /\ m.int # <<>>
       /\ m.int[1] = 0 => Len(m.int) = 1
       /\ Len(m.frac) + (IF m.point /\ m.int = <<0>> THEN 0 ELSE Len(m.int)) <= cfg.digits

\* The keys edit the number, not just the text: Display implements NumberEntry.
Entry == INSTANCE NumberEntry WITH
  entering <- arg_pending,
  word     <- IF cfg.mode = "int" THEN disp.ival ELSE 0,
  decimal  <- IF cfg.mode = "float" /\ arg_pending THEN EnteredDecimal
              ELSE [neg |-> FALSE, int |-> <<>>, point |-> FALSE, frac |-> <<>>,
                    exp |-> [on |-> FALSE, neg |-> FALSE, n |-> 0]]
ImplementsEntry == Entry!Spec

\* The number typed is the number on the display, in both modes, and no key makes a
\* display that cannot be read: the two properties above, with NoDispError.
NumberIsShown == NoDispError /\ IvalIsShown /\ EntryReadsBack

=============================================================================
