----------------------------- MODULE MCWindows -----------------------------
(***************************************************************************)
(* The windows that give a value back to the calculator, each on its own:  *)
(* the two lists of the history, of which one at a time is filled, the     *)
(* binary display, and the conversion of units with the constants.  part   *)
(* says which; the others stay as they are at the start.                   *)
(*                                                                         *)
(* The history has the words and widths of CalcInteger: 4-bit words,       *)
(* widths 2 and 4.                                                         *)
(***************************************************************************)
EXTENDS History, BitDisplay

CONSTANT WordBits

VARIABLES
  part,
  mode, top, typed, arg_pending, window_conversion, window_constants,
  convert_from_row, value_to_convert, active, entries, coloured   \* of the conversion

conversionVars ==
  <<mode, top, typed, arg_pending, window_conversion, window_constants,
    convert_from_row, value_to_convert, active, entries, coloured>>

CI == INSTANCE CalcInteger WITH Widths <- Width

MCMaskWidth(v, w)   == CI!mask_width(v, w)
MCGetSigned(v, w)   == CI!get_signed(v, w)
MCU64(v)            == v
MCI64(v)            == CI!SignedNum(v, WordBits)
MCNumberOf(v, w, u) == IF u THEN CI!mask_width(v, w) ELSE CI!SignedNum(v, w)

\* All categories with the factors of the source; the numbers converted are few.
Units == INSTANCE Conversion WITH
  Values <- {<<0, 1>>, <<1, 1>>, <<-40, 1>>, <<5, 2>>},
  ConstantValues <- {<<7, 1>>, <<5, 2>>}, NoWindow <- "none"

-----------------------------------------------------------------------------

NoHistory ==
  /\ history_ival = [i \in Row |-> Empty] /\ history_ival_copy = history_ival
  /\ history_fval = [i \in Row |-> FZero] /\ history_fval_copy = history_fval
  /\ window_hist_int = FALSE /\ window_hist_float = FALSE
  /\ rows_int = [r \in Row |-> Shown(Empty)] /\ rows_float = [r \in Row |-> FZero]
  /\ result_int = U64(IZero) /\ result_float = FZero
  /\ calc_mode = "float" /\ use_unsigned = FALSE /\ integer_width = 4

NoBits ==
  /\ value = {} /\ bytes = 1 /\ integer_mode = FALSE
  /\ top_pressed = FALSE /\ bot_pressed = FALSE /\ replace_zero = FALSE

NoUnits ==
  /\ mode = "float" /\ top = Units!Plain(Units!Zero) /\ typed = top /\ arg_pending = FALSE
  /\ window_conversion = "none" /\ window_constants = "none"
  /\ convert_from_row = 0 /\ value_to_convert = Units!Zero
  /\ active = 0 /\ entries = <<>> /\ coloured = {}

WindowsInit ==
  /\ part \in {"integers", "floats", "bits", "units"}
  /\ IF part \in {"integers", "floats"} THEN Init ELSE NoHistory
  /\ IF part = "bits" THEN BitInit ELSE NoBits
  /\ IF part = "units" THEN Units!Init ELSE NoUnits

WindowsNext ==
  \/ part = "integers" /\ Next /\ UNCHANGED <<part, history_fval, bitVars, conversionVars>>
  \/ part = "floats" /\ Next /\ UNCHANGED <<part, history_ival, bitVars, conversionVars>>
  \/ part = "bits" /\ BitNext /\ UNCHANGED <<part, vars, conversionVars>>
  \/ part = "units" /\ Units!Next /\ UNCHANGED <<part, vars, bitVars>>

WindowsSpec == WindowsInit /\ [][WindowsNext]_<<part, vars, bitVars, conversionVars>>

\* What a closed window last showed is never read, nor the last result.
LiveView ==
  <<part, history_ival, history_fval, calcVars,
    IF window_hist_int THEN <<history_ival_copy, rows_int>> ELSE <<>>,
    IF window_hist_float THEN <<history_fval_copy, rows_float>> ELSE <<>>,
    bitVars, mode, top, typed, arg_pending, window_conversion, window_constants,
    IF window_conversion # "none" THEN Units!windowVars ELSE <<>>>>

-----------------------------------------------------------------------------

\* A conversion opens with the number the calculator showed, the one being typed or the
\* top of the stack (ucv_activate); its rows show the same quantity, each in its own unit as
\* that unit is defined, whichever button is down (rb_toggle, update_all_entry_values); and
\* a row that is selected gives its own value, only where the calculator can take it
\* (entry_enter_pressed, entry_button_release).
ConversionIsHonest == Units!RowsAgree /\ Units!OpensOnShown /\ Units!SelectGivesRow
=============================================================================
