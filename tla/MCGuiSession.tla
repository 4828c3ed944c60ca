---------------------------- MODULE MCGuiSession ----------------------------
(* GuiSession on 3-bit words with widths 2 and 3 and three floats.  The run  *)
(* is about who gives what to whom, so every operation returns 0 or its      *)
(* argument.  A behaviour uses the controls of one of three parts: those     *)
(* that edit, take or replace the number being typed; those whose labels and *)
(* meaning depend on INV, HYP, the mode and the memories, with signed words; *)
(* and those about repeated [=].                                             *)
EXTENDS GuiSession

CI == INSTANCE CalcInteger WITH WordBits <- 3, Widths <- Width

MCIVal == 0..7
MCMaskWidth(v, width)              == CI!mask_width(v, width)
MCGetSigned(v, width)              == CI!get_signed(v, width)
MCChangedWidth(v, negative, width) == CI!get_changed_width(v, negative, width)
MCIopUnary(cop, a, width, u)       == a
MCIopBinary(cop, a, b, width, u)   == CI!mask_width(IF cop = "xor" THEN (a + b) % 2 ELSE b, width)
MCFopUnary(cop, a)                 == a
MCFopBinary(cop, a, b)             == b
MCIntToFloat(v, width, u)          == v % 2
MCIntMin(width)                    == CI!IntMinWord(width)
MCWordOf(n)                        == CI!ToWord(n)
MCBestIntegers == {[ok |-> TRUE, uval |-> 7, negative |-> FALSE],
                   [ok |-> FALSE, uval |-> 0, negative |-> FALSE]}
MCPasteIntegers == {-5, -4, -1, 1, 5, 8}
MCMinNum == -4

MCControls == [
  typing |-> {"digit", "exp", "pm", "backspace", "int_min", "parl", "parr", "add", "eq", "clr",
              "hist", "paste", "nothing", "take", "convert", "bit", "width", "sign"},
  labels |-> {"digit", "inv", "hyp", "angle", "flip", "hist", "fe", "sin", "pm", "pi", "rand",
              "clr", "radix", "mp", "mr", "ms"},
  repeated |-> {"digit", "add", "eq", "repeat", "digits", "sign"}]
AllControls == UNION {MCControls[p] : p \in DOMAIN MCControls}

VARIABLE part

PartInit ==
  /\ SessionInit
  /\ part \in DOMAIN MCControls
  /\ part = "labels" => integer_width = 3 /\ ~use_unsigned

\* Asking for the clipboard is the one handler that leaves the key as it was.
PartNext ==
  /\ SessionNext
  /\ Idle => key' \in MCControls[part] \/ (part = "typing" /\ pastes' > pastes)
  /\ part = "labels" => typed' \in {0, 1}
  /\ UNCHANGED part

PartSpec == PartInit /\ [][PartNext]_<<sessionVars, part>>

(* States that later steps and the properties cannot tell apart. *)
LiveView == <<part, LiveState, IF init_from_save_val THEN shown ELSE [shown EXCEPT !.el = Zero],
              Half(shown.el), arg_pending, IF arg_pending THEN <<typed, given>> ELSE <<>>,
              back_sensitive, buttonVars, formatVars, labels, pastes, calls,
              IF Idle THEN "none" ELSE key, IF Idle THEN 0 ELSE pasted>>
=============================================================================
