---------------------------- MODULE NumberEntry ----------------------------
(***************************************************************************)
(* What typing a number promises, in terms of the number and not of the    *)
(* characters on the display: the abstract specification that Display (the *)
(* text of display.c and the keys of gui.c) implements.                    *)
(*                                                                         *)
(* In integer mode the number is a word: a digit multiplies it by the base *)
(* and adds, if the width has room; backspace divides it by the base.  In  *)
(* floating point mode it is a sign, digits before and after the point,    *)
(* and once EXP was pressed an exponent that keeps its last three digits.  *)
(***************************************************************************)
EXTENDS Integers, Sequences

CONSTANTS
  Configs,      \* settings: [mode, format, width, unsigned, digits]
  EXP_DIGITS,   \* digits of an exponent
  IntKeys, FloatKeys  \* the digit keys of each mode, as numbers

VARIABLES
  cfg,        \* the settings in force
  entering,   \* a number is being typed
  word,       \* the number shown, in integer mode
  decimal     \* the number being typed, in floating point mode

vars == <<cfg, entering, word, decimal>>

NoExp   == [on |-> FALSE, neg |-> FALSE, n |-> 0]
Decimal(int, point) ==
  [neg |-> FALSE, int |-> int, point |-> point, frac |-> <<>>, exp |-> NoExp]
NoDecimal == Decimal(<<>>, FALSE)

Base(c) == IF c.format = "hex" THEN 16 ELSE 10

\* The largest word that can be typed: the digits carry no sign.
MaxTyped(c) ==
  IF c.format = "dec" /\ ~c.unsigned THEN 2^(c.width - 1) - 1 ELSE 2^c.width - 1

Init ==
  /\ cfg \in Configs
  /\ entering = FALSE
  /\ word = 0
  /\ decimal = NoDecimal

AnyWord(c) == IF c.mode = "int" THEN 0..(2^c.width - 1) ELSE {0}

\* An operation ends the number and shows its result.
Result ==
  /\ entering' = FALSE
  /\ word' \in AnyWord(cfg)
  /\ decimal' = NoDecimal
  /\ UNCHANGED cfg

\* The number a word stands for.
Value(w, c) == IF ~c.unsigned /\ w >= 2^(c.width - 1) THEN w - 2^c.width ELSE w

\* Other settings end the number too.  In integer mode the number shown is the
\* same number, cut to the width; floating point numbers are shown anew.
ChangeSettings ==
  /\ cfg' \in Configs
  /\ entering' = FALSE
  /\ IF cfg.mode = "int" /\ cfg'.mode = "int"
     THEN word' = Value(word, cfg) % 2^cfg'.width
     ELSE word' \in AnyWord(cfg')
  /\ decimal' = NoDecimal

IntDigit(k) ==
  LET longer == (IF entering THEN word ELSE 0) * Base(cfg) + k
  IN /\ cfg.mode = "int" /\ k < Base(cfg)
     /\ \/ /\ longer <= MaxTyped(cfg)
           /\ word' = longer /\ entering' = TRUE
        \/ /\ longer > MaxTyped(cfg)
           /\ entering
           \* the magnitude of the least integer stands for that integer
           /\ \/ /\ cfg.format = "dec" /\ ~cfg.unsigned
                 /\ longer = 2^(cfg.width - 1)
                 /\ word' = longer /\ entering' = FALSE
              \/ /\ cfg.format = "hex" \/ cfg.unsigned \/ longer # 2^(cfg.width - 1)
                 /\ UNCHANGED <<word, entering>>
     /\ UNCHANGED <<cfg, decimal>>

\* Significant digits: the 0 of "0." does not count.
DigitCount(m) ==
  (IF m.point /\ m.int = <<0>> THEN 0 ELSE Len(m.int)) + Len(m.frac)

MantissaDigit(m, k) ==
  IF ~m.point /\ m.int = <<0>> THEN [m EXCEPT !.int = <<k>>]
  ELSE IF DigitCount(m) >= cfg.digits THEN m
  ELSE IF m.point THEN [m EXCEPT !.frac = Append(@, k)]
  ELSE [m EXCEPT !.int = Append(@, k)]

FloatDigit(k) ==
  /\ cfg.mode = "float"
  /\ entering' = TRUE
  /\ decimal' =
       IF ~entering THEN Decimal(<<k>>, FALSE)
       ELSE IF decimal.exp.on
       THEN [decimal EXCEPT !.exp.n = (@ * 10 + k) % 10^EXP_DIGITS]
       ELSE MantissaDigit(decimal, k)
  /\ UNCHANGED <<cfg, word>>

Point ==
  /\ cfg.mode = "float"
  /\ entering' = TRUE
  /\ decimal' =
       IF ~entering THEN Decimal(<<0>>, TRUE)
       ELSE IF decimal.exp.on \/ Len(decimal.int) >= cfg.digits THEN decimal
       ELSE [decimal EXCEPT !.point = TRUE]
  /\ UNCHANGED <<cfg, word>>

\* EXP adds an exponent of zero, and takes it away again with what was typed in it.
Exp ==
  /\ cfg.mode = "float"
  /\ entering' = TRUE
  /\ decimal' =
       LET m == IF entering THEN decimal ELSE Decimal(<<1>>, FALSE)
       IN [m EXCEPT !.exp = [NoExp EXCEPT !.on = ~m.exp.on]]
  /\ UNCHANGED <<cfg, word>>

PlusMinus ==
  /\ cfg.mode = "float" /\ entering
  /\ decimal' = IF decimal.exp.on THEN [decimal EXCEPT !.exp.neg = ~@]
                                  ELSE [decimal EXCEPT !.neg = ~@]
  /\ UNCHANGED <<cfg, entering, word>>

\* Backspace forgets the character typed last; a lone sign goes with its digit.
Shortened(m) ==
  IF m.exp.on THEN [m EXCEPT !.exp.n = @ \div 10]
  ELSE IF m.frac # <<>> THEN [m EXCEPT !.frac = SubSeq(@, 1, Len(@) - 1)]
  ELSE IF m.point THEN [m EXCEPT !.point = FALSE]
  ELSE IF Len(m.int) > 1 THEN [m EXCEPT !.int = SubSeq(@, 1, Len(@) - 1)]
  ELSE [m EXCEPT !.int = <<0>>, !.neg = FALSE]

Backspace ==
  /\ entering
  /\ IF cfg.mode = "int"
     THEN word' = word \div Base(cfg) /\ UNCHANGED decimal
     ELSE decimal' = Shortened(decimal) /\ UNCHANGED word
  /\ UNCHANGED <<cfg, entering>>

Next ==
  \/ \E k \in IntKeys : IntDigit(k)
  \/ \E k \in FloatKeys : FloatDigit(k)
  \/ Point \/ Exp \/ PlusMinus \/ Backspace
  \/ Result \/ ChangeSettings

Spec == Init /\ [][Next]_vars
=============================================================================
