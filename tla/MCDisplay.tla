----------------------------- MODULE MCDisplay -----------------------------
(***************************************************************************)
(* The display: typing integers, typing floating point numbers, and the    *)
(* printing of results; part says which a behaviour is about, the others   *)
(* stay as they are at the start.                                          *)
(*                                                                         *)
(* Integers have 8, 10 and 12 bits: in 10 bits the signed and the unsigned *)
(* limit have different lengths, 511 and 1023, as they have in 64 bits.    *)
(* The digit keys are those of the limits: 127, 128, 255, 512, 2047, 2048  *)
(* and 4095.                                                               *)
(* Results are printed from numbers of five digits, in displays of two to  *)
(* five.                                                                   *)
(***************************************************************************)
EXTENDS Display

VARIABLES part, call, result

IntConfigs ==
  {c \in [mode : {"int", "float"}, format : {"dec", "hex"}, width : {8, 10, 12},
          unsigned : BOOLEAN, digits : {2}] : c.format = "hex" => c.width % 4 = 0}
FloatConfigs ==
  [mode : {"float"}, format : {"dec"}, width : {8}, unsigned : {FALSE}, digits : {2, 3}]
AllConfigs == IntConfigs \cup FloatConfigs

EdgeWords == {0, 128, 255, 512, 2048}

SomeTexts == {<<"0">>, <<"-", "1", ".", "5", "e", "+", "1", "0">>}

Printing == INSTANCE DisplayPrint WITH
  DECPMAX <- 5, DECEMAX <- 11, DECEMAXD <- 2, BufferDigits <- 12,
  Coefficients <- {a * 10000 + b * 1000 + c * 100 + d * 10 + e :
    a \in {0, 1, 9}, b \in {0, 9}, c \in {0, 4, 9}, d \in {0, 4, 5, 9}, e \in {0, 5, 9}},
  DisplayDigits <- {2, 3, 4, 5}

-----------------------------------------------------------------------------

Start == [mode |-> "float", format |-> "dec", width |-> 8, unsigned |-> FALSE, digits |-> 2]

DisplayInit ==
  /\ part \in {"integers", "floats", "printing"}
  /\ Init
  /\ cfg \in CASE part = "integers" -> {c \in IntConfigs : c.mode = "int"}
               [] part = "floats"   -> FloatConfigs
               [] OTHER             -> {Start}
  /\ Printing!Init

\* Among the integers a change of mode shows a floating point result; such numbers are
\* typed in a part of their own.
TypeInteger ==
  /\ part = "integers" /\ Next
  /\ cfg' \in IntConfigs
  /\ cfg.mode = "float" => ~arg_pending'

TypeFloat == part = "floats" /\ Next /\ cfg' \in FloatConfigs

DisplayNext ==
  \/ (TypeInteger \/ TypeFloat) /\ UNCHANGED <<part, call, result>>
  \/ part = "printing" /\ Printing!Show /\ UNCHANGED <<part, vars>>

DisplaySpec == DisplayInit /\ [][DisplayNext]_<<vars, part, call, result>>

\* In floating point mode the stored word is stale; it is written before it is read.
LiveView ==
  <<part, call, result, cfg, arg_pending, [disp EXCEPT !.ival = IF cfg.mode = "int" THEN @ ELSE 0]>>

-----------------------------------------------------------------------------

\* Both notations show the number rounded half up to the digits of the display; the
\* notation, the place of the point and the zeros are right at every limit; and what is
\* copied from the display and pasted again shows as the same text (display_print.c).
PrintedRight ==
  /\ Printing!BothShowRounded
  /\ Printing!NotationIsRight
  /\ Printing!CopiedShowsTheSame
=============================================================================
