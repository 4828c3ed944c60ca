----------------------------- MODULE BitDisplay -----------------------------
(***************************************************************************)
(* The binary display (src/src/display_widget.c): a word drawn as two      *)
(* right-aligned lines of digits, and the clicks that invert a bit.  The   *)
(* digits are placed by one function and looked up under the mouse by      *)
(* another, each with its own arithmetic.                                  *)
(*                                                                         *)
(* A word is the set of its bits that are 1.  A click is the pixel, from   *)
(* the left of the widget, at which the left button is pressed.            *)
(***************************************************************************)
EXTENDS Integers, Sequences, FiniteSets

CONSTANTS
  FontWidth,      \* pixels of a character of the monospace font
  Margin,         \* pixels the widget is wider than a line
  MaxBits         \* bound: bits that are 1

CHARS_PER_LINE == 42    \* (9 * 4) + 6, as bin_disp_unused

ASSUME WidgetAssumption == FontWidth \in Nat \ {0} /\ Margin \in Nat

VARIABLES
  value,                    \* the word on top of the engine's stack
  bytes,                    \* integer width
  integer_mode,
  top_pressed, bot_pressed, \* a press was seen, its release not yet
  replace_zero              \* draw 0 as O

bitVars == <<value, bytes, integer_mode, top_pressed, bot_pressed, replace_zero>>

Pixels == 0..CHARS_PER_LINE * FontWidth + Margin - 1

-----------------------------------------------------------------------------
(* Drawing *)

Digit(word, b) == IF b \in word THEN "1" ELSE "0"

\* set_bin_display, from the right: the nybbles of a byte and the hyphen.
ByteText(word, i) ==
  [k \in 1..9 |-> CASE k < 5 -> Digit(word, 8 * i + 8 - k)
                    [] k = 5 -> "-"
                    [] k > 5 -> Digit(word, 8 * i + 9 - k)]

UnusedByte == [k \in 1..9 |-> " "]

BinText(word, n) ==
  LET text[i \in 0..7] ==
        (IF i < n THEN ByteText(word, i) ELSE UnusedByte)
          \o (IF i = 0 THEN <<>> ELSE <<" ", " ">> \o text[i - 1])
  IN  text[7]

\* replace_zero_with_o.
WithO(text) == [k \in DOMAIN text |-> IF text[k] = "0" THEN "O" ELSE text[k]]

Unused == [k \in 1..CHARS_PER_LINE |-> " "]

\* The text is cut at 42 and goes on at 44; the two spaces between are not drawn.
Split(text, line) == IF line = "top" THEN SubSeq(text, 1, 42) ELSE SubSeq(text, 45, 86)

Line(line, word, n) ==
  LET drawn == IF integer_mode THEN Split(BinText(word, n), line) ELSE Unused
  IN  IF replace_zero THEN WithO(drawn) ELSE drawn

\* The character GTK draws at a pixel of a right-aligned line; 0 left of the text.
CharacterAt(x) == IF x < Margin THEN 0 ELSE (x - Margin) \div FontWidth + 1

-----------------------------------------------------------------------------
(* Looking up the bit under the mouse: get_bit_clicked *)

WidgetWidth == CHARS_PER_LINE * FontWidth + Margin

ByteLeft(i)  == WidgetWidth - (9 * (i + 1) + 2 * i) * FontWidth
ByteRight(i) == ByteLeft(i) + 9 * FontWidth - 1

\* Mutant of BitRight: the hyphen is forgotten.
BitRightNoHyphen(i, b) == ByteRight(i) - b * FontWidth

\* The marker goes one character left for each bit, and one more for the hyphen.
BitRight(i, b) == ByteRight(i) - (IF b < 4 THEN b ELSE b + 1) * FontWidth

BitsAt(x) ==
  {8 * q[1] + q[2] : q \in
     {p \in (0..3) \X (0..7) :
        /\ ByteLeft(p[1]) <= x /\ x <= ByteRight(p[1])
        /\ BitRight(p[1], p[2]) - FontWidth + 1 <= x /\ x <= BitRight(p[1], p[2])}}

\* The bit clicked at each pixel; -1 between bytes, on a hyphen, or left of the text.
BitClicked ==
  [i \in 1..WidgetWidth |->
     IF BitsAt(i - 1) = {} THEN -1 ELSE CHOOSE b \in BitsAt(i - 1) : TRUE] \o <<>>

get_bit_clicked(x) == BitClicked[x + 1]

-----------------------------------------------------------------------------
(* Clicks *)

SymDiff(s, t) == (s \ t) \cup (t \ s)

\* A bit of the lower line beyond an 8 or 16 bit word is not clicked.
InWidth(b) == b < 8 * bytes

\* calc_binary_bit_xor, after the number being typed was given.
Toggle(b) ==
  /\ value' = SymDiff(value, {b})
  /\ Cardinality(value') <= MaxBits

button_press_top(x) ==
  /\ IF integer_mode /\ bytes = 8 /\ ~top_pressed
     THEN /\ top_pressed' = TRUE
          /\ IF get_bit_clicked(x) >= 0 THEN Toggle(get_bit_clicked(x) + 32)
                                        ELSE UNCHANGED value
     ELSE UNCHANGED <<top_pressed, value>>
  /\ UNCHANGED <<bytes, integer_mode, bot_pressed, replace_zero>>

button_press_bot(x) ==
  /\ IF integer_mode /\ ~bot_pressed
     THEN /\ bot_pressed' = TRUE
          /\ IF get_bit_clicked(x) >= 0 /\ InWidth(get_bit_clicked(x))
             THEN Toggle(get_bit_clicked(x)) ELSE UNCHANGED value
     ELSE UNCHANGED <<bot_pressed, value>>
  /\ UNCHANGED <<bytes, integer_mode, top_pressed, replace_zero>>

button_release_top ==
  /\ top_pressed' = FALSE
  /\ UNCHANGED <<value, bytes, integer_mode, bot_pressed, replace_zero>>

button_release_bot ==
  /\ bot_pressed' = FALSE
  /\ UNCHANGED <<value, bytes, integer_mode, top_pressed, replace_zero>>

\* calc_set_integer_width masks the word; the button may be held.
SetWidth(n) ==
  /\ integer_mode
  /\ bytes' = n
  /\ value' = {b \in value : b < 8 * n}
  /\ UNCHANGED <<integer_mode, top_pressed, bot_pressed, replace_zero>>

\* The window is built anew, with nothing but the statics kept: a button held over the
\* change of mode is released over a widget that is no more.
SetMode ==
  /\ integer_mode' = ~integer_mode
  /\ value' = {}
  /\ UNCHANGED <<bytes, top_pressed, bot_pressed, replace_zero>>

BitInit ==
  /\ value = {}
  /\ bytes \in {1, 2, 4, 8}
  /\ integer_mode \in BOOLEAN
  /\ top_pressed = FALSE
  /\ bot_pressed = FALSE
  /\ replace_zero \in BOOLEAN

BitNext ==
  \/ \E x \in Pixels : button_press_top(x) \/ button_press_bot(x)
  \/ button_release_top
  \/ button_release_bot
  \/ \E n \in {1, 2, 4, 8} : SetWidth(n)
  \/ SetMode

BitSpec == BitInit /\ [][BitNext]_bitVars

-----------------------------------------------------------------------------
(* Properties *)

DrawnLines(word, n) == [top |-> Line("top", word, n), bot |-> Line("bot", word, n)]

\* Every bit of the word is drawn, in its place: the "display width mask error" of
\* display_widget.c:500 is never printed, and the lines have their 42 characters.
WholeWordDrawn ==
  /\ value \subseteq 0..8 * bytes - 1
  /\ LET drawn == DrawnLines(value, bytes)
         ones  == {p \in (DOMAIN drawn) \X (1..CHARS_PER_LINE) : drawn[p[1]][p[2]] = "1"}
     IN  /\ \A line \in DOMAIN drawn : Len(drawn[line]) = CHARS_PER_LINE
         /\ integer_mode => Cardinality(ones) = Cardinality(value)

\* (Bound variables, rather than LET, keep TLC from drawing the word for each character.)
\* The digits a step changes, each a line and a place in it.
Changed(old, new) ==
  {p \in (DOMAIN old) \X (1..CHARS_PER_LINE) : new[p[1]][p[2]] # old[p[1]][p[2]]}

\* The digit drawn at pixel x of a line, if there is one.
DigitAt(old, line, x) ==
  LET k == CharacterAt(x)
  IN  IF k # 0 /\ old[line][k] \in {"0", "1", "O"} THEN {<<line, k>>} ELSE {}

\* The first press on a digit inverts the digit drawn under the mouse and no other, a press
\* on anything else inverts nothing: the arithmetic of set_bin_display and that of
\* get_bit_clicked agree at every width.
ClickInvertsDigit ==
  [][bitVars' # bitVars =>
     \A old \in {DrawnLines(value, bytes)}, new \in {DrawnLines(value', bytes')} :
       \A changed \in {Changed(old, new)}, x \in Pixels :
         /\ ~top_pressed /\ button_press_top(x) => changed = DigitAt(old, "top", x)
         /\ ~bot_pressed /\ button_press_bot(x) => changed = DigitAt(old, "bot", x)]_bitVars

\* One press inverts one bit: while a button is held over a line, whatever presses GDK
\* repeats (display_widget.c:198, 240), the bits of that line change only with the width or
\* the mode.
OncePerPress ==
  [][bytes' = bytes /\ integer_mode' = integer_mode =>
       /\ top_pressed => value' \cap 32..63 = value \cap 32..63
       /\ bot_pressed => value' \cap 0..31 = value \cap 0..31]_bitVars

\* What is drawn is the whole word, a click on a digit inverts that digit, and only one
\* press counts until the button is let go.
ClicksAreHonest == []WholeWordDrawn /\ ClickInvertsDigit /\ OncePerPress

=============================================================================
