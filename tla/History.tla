------------------------------ MODULE History ------------------------------
(***************************************************************************)
(* The history of the calculator (src/src/gui_history.c): an array of the  *)
(* last values for each mode, and a window for each that lists the values  *)
(* as they were when it was opened and gives one back to the engine.       *)
(*                                                                         *)
(* The engine is the environment: it calls gui_history_add with every      *)
(* value it pushes, masked to the width, and mode, width and sign change   *)
(* at any time.  A row of a window keeps the number printed in it.         *)
(***************************************************************************)
EXTENDS Integers, Sequences

CONSTANTS
  HISTORY_MAX_ITEMS,      \* entries per mode (50)
  Width,                  \* the integer widths
  IVal, IZero,            \* 64 bit words, and 0
  FVal, FZero,            \* floating point values, and 0
  MaskWidth(_, _),        \* calc_util_mask_width(value, width)
  GetSigned(_, _),        \* calc_util_get_signed(value, width), as a word
  U64(_), I64(_),         \* what a word prints as, unsigned and signed
  NumberOf(_, _, _)       \* the number of a word: (word, width, unsigned)

ASSUME ItemsAssumption == HISTORY_MAX_ITEMS \in Nat \ {0}

\* Words stand for numbers; sign extension keeps the number and its zero.
ASSUME WordsAssumption ==
  /\ IZero \in IVal /\ FZero \in FVal
  /\ \A v \in IVal, w \in Width :
       /\ MaskWidth(v, w) \in IVal
       /\ GetSigned(v, w) \in IVal
       /\ MaskWidth(v, w) # IZero => GetSigned(MaskWidth(v, w), w) # IZero
       /\ NumberOf(MaskWidth(v, w), w, TRUE) = U64(MaskWidth(v, w))
       /\ NumberOf(MaskWidth(v, w), w, FALSE) = I64(GetSigned(MaskWidth(v, w), w))
       /\ \A u \in BOOLEAN :
            NumberOf(MaskWidth(v, w), w, u) = U64(IZero) <=> MaskWidth(v, w) = IZero

\* Masking a word to a width keeps the number it prints as, when any word of
\* that width has it.
ASSUME RangeAssumption ==
  \A x \in IVal, w \in Width, u \in BOOLEAN : \A n \in {U64(x), I64(x)} :
    (\E v \in IVal : NumberOf(MaskWidth(v, w), w, u) = n) =>
      NumberOf(MaskWidth(x, w), w, u) = n

VARIABLES
  history_ival, history_fval,            \* newest first; zero is an empty entry
  history_ival_copy, history_fval_copy,  \* what the windows were opened with
  window_hist_int, window_hist_float,    \* the window is open
  rows_int, rows_float,                  \* the numbers printed in an open window
  result_int, result_float,              \* the number the engine pushed last, by mode
  calc_mode, use_unsigned, integer_width \* of the engine

intVars   == <<history_ival, history_ival_copy, window_hist_int, rows_int, result_int>>
floatVars == <<history_fval, history_fval_copy, window_hist_float, rows_float, result_float>>
calcVars  == <<calc_mode, use_unsigned, integer_width>>
vars      == <<intVars, floatVars, calcVars>>

Row    == 0..HISTORY_MAX_ITEMS - 1
IntEntry == [ival : IVal, is_unsigned : BOOLEAN]
Empty    == [ival |-> IZero, is_unsigned |-> FALSE]

\* The number that create_table_int prints for an entry.
Shown(e) == IF e.is_unsigned THEN U64(e.ival) ELSE I64(e.ival)

-----------------------------------------------------------------------------
(* gui_history_add *)

\* Mutant of Shuffled: the last entry is left where it was.
ShuffledShort(h, e) ==
  [i \in Row |-> IF i = 0 THEN e
                 ELSE IF i = HISTORY_MAX_ITEMS - 1 THEN h[i] ELSE h[i - 1]]

\* Every entry moves one place on, the last one is dropped.
Shuffled(h, e) == [i \in Row |-> IF i = 0 THEN e ELSE h[i - 1]]

NewEntry(ival) ==
  [ival |-> IF use_unsigned THEN ival ELSE GetSigned(ival, integer_width),
   is_unsigned |-> use_unsigned]

WithInt(h, ival) == IF ival = IZero THEN h ELSE Shuffled(h, NewEntry(ival))

WithFloat(h, fval) == IF fval = FZero THEN h ELSE Shuffled(h, fval)

Number(ival) == NumberOf(ival, integer_width, use_unsigned)

gui_history_add(ival, fval) ==
  /\ IF calc_mode = "integer"
     THEN /\ history_ival' = WithInt(history_ival, ival)
          /\ result_int' = Number(ival)
          /\ UNCHANGED <<history_fval, result_float>>
     ELSE /\ history_fval' = WithFloat(history_fval, fval)
          /\ result_float' = fval
          /\ UNCHANGED <<history_ival, result_int>>
  /\ UNCHANGED <<history_ival_copy, window_hist_int, rows_int,
                 history_fval_copy, window_hist_float, rows_float, calcVars>>

-----------------------------------------------------------------------------
(* The windows *)

\* HIST closes the window of the mode when it is open.
history_open_int ==
  /\ window_hist_int' = ~window_hist_int
  /\ IF window_hist_int
     THEN UNCHANGED <<history_ival_copy, rows_int>>
     ELSE /\ history_ival_copy' = history_ival
          /\ rows_int' = [r \in Row |-> Shown(history_ival[r])]
  /\ UNCHANGED <<history_ival, result_int, floatVars, calcVars>>

history_open_float ==
  /\ window_hist_float' = ~window_hist_float
  /\ IF window_hist_float
     THEN UNCHANGED <<history_fval_copy, rows_float>>
     ELSE /\ history_fval_copy' = history_fval
          /\ rows_float' = history_fval
  /\ UNCHANGED <<history_fval, result_float, intVars, calcVars>>

gui_history_open == IF calc_mode = "integer" THEN history_open_int ELSE history_open_float

\* Cancel, the h key in the window, or the window manager.
CloseInt ==
  /\ window_hist_int
  /\ window_hist_int' = FALSE
  /\ UNCHANGED <<history_ival, history_ival_copy, rows_int, result_int, floatVars, calcVars>>

CloseFloat ==
  /\ window_hist_float
  /\ window_hist_float' = FALSE
  /\ UNCHANGED <<history_fval, history_fval_copy, rows_float, result_float, intVars, calcVars>>

\* Mutant of SelectInt: takes the row of the live array.
SelectIntLive(row) ==
  /\ window_hist_int
  /\ calc_mode = "integer"
  /\ LET ival == MaskWidth(history_ival[row].ival, integer_width)
     IN  /\ history_ival' = WithInt(history_ival, ival)
         /\ result_int' = Number(ival)
  /\ window_hist_int' = FALSE
  /\ UNCHANGED <<history_ival_copy, rows_int, floatVars, calcVars>>

\* A click or Enter on a row, in its mode only.  calc_give_arg masks the value
\* and pushes it, which records it again before the window closes.
SelectInt(row) ==
  /\ window_hist_int
  /\ calc_mode = "integer"
  /\ LET ival == MaskWidth(history_ival_copy[row].ival, integer_width)
     IN  /\ history_ival' = WithInt(history_ival, ival)
         /\ result_int' = Number(ival)
  /\ window_hist_int' = FALSE
  /\ UNCHANGED <<history_ival_copy, rows_int, floatVars, calcVars>>

SelectFloat(row) ==
  /\ window_hist_float
  /\ calc_mode = "float"
  /\ history_fval' = WithFloat(history_fval, history_fval_copy[row])
  /\ result_float' = history_fval_copy[row]
  /\ window_hist_float' = FALSE
  /\ UNCHANGED <<history_fval_copy, rows_float, intVars, calcVars>>

-----------------------------------------------------------------------------
(* gui_history_init, and the engine *)

Init ==
  /\ history_ival = [i \in Row |-> Empty] /\ history_ival_copy = history_ival
  /\ history_fval = [i \in Row |-> FZero] /\ history_fval_copy = history_fval
  /\ window_hist_int = FALSE /\ window_hist_float = FALSE
  /\ rows_int = [r \in Row |-> Shown(Empty)]
  /\ rows_float = [r \in Row |-> FZero]
  /\ result_int = U64(IZero) /\ result_float = FZero
  /\ calc_mode \in {"integer", "float"}
  /\ use_unsigned \in BOOLEAN
  /\ integer_width \in Width

Result ==
  \/ /\ calc_mode = "integer"
     /\ \E v \in IVal : gui_history_add(MaskWidth(v, integer_width), FZero)
  \/ /\ calc_mode = "float"
     /\ \E v \in FVal : gui_history_add(IZero, v)

ChangeSettings ==
  /\ calc_mode' \in {"integer", "float"}
  /\ use_unsigned' \in BOOLEAN
  /\ integer_width' \in Width
  /\ UNCHANGED <<intVars, floatVars>>

Next ==
  \/ Result
  \/ gui_history_open
  \/ CloseInt
  \/ CloseFloat
  \/ \E row \in Row : SelectInt(row) \/ SelectFloat(row)
  \/ ChangeSettings

Spec == Init /\ [][Next]_vars

-----------------------------------------------------------------------------

\* Every variable keeps the type of its declaration in gui_history.c.
TypeOK ==
  /\ history_ival \in [Row -> IntEntry] /\ history_ival_copy \in [Row -> IntEntry]
  /\ history_fval \in [Row -> FVal] /\ history_fval_copy \in [Row -> FVal]
  /\ window_hist_int \in BOOLEAN /\ window_hist_float \in BOOLEAN
  /\ DOMAIN rows_int = Row /\ rows_float \in [Row -> FVal]
  /\ result_float \in FVal
  /\ calc_mode \in {"integer", "float"}
  /\ use_unsigned \in BOOLEAN
  /\ integer_width \in Width

IntInUse   == {i \in Row : history_ival[i].ival # IZero}
FloatInUse == {i \in Row : history_fval[i] # FZero}

\* The first n entries are in use and no others.
FilledTo(inUse, n) == inUse = 0..n - 1

\* Unused entries are all at the end: a zero in the list would be a row that
\* gives 0 for a result the user had (history_add_int, gui_history.c:272-275).
NoGaps ==
  /\ \E n \in 0..HISTORY_MAX_ITEMS : FilledTo(IntInUse, n)
  /\ \E n \in 0..HISTORY_MAX_ITEMS : FilledTo(FloatInUse, n)

\* While a window is open its rows are what the copy behind them prints as,
\* whatever is recorded and whichever settings change meanwhile.
RowsAreTheCopy ==
  /\ window_hist_int => \A r \in Row : rows_int[r] = Shown(history_ival_copy[r])
  /\ window_hist_float => \A r \in Row : rows_float[r] = history_fval_copy[r]

\* A click gives back the number printed in the row, as far as the width and
\* sign of the moment can hold it (gui_click_val_msg, gui_history.c:46), and
\* only in the mode of its window.
RowGivesWhatItShows ==
  [][\A row \in Row :
       /\ SelectInt(row) =>
            LET n == rows_int[row]
            IN  (\E v \in IVal : Number(MaskWidth(v, integer_width)) = n) => result_int' = n
       /\ SelectFloat(row) => result_float' = rows_float[row]]_vars

-----------------------------------------------------------------------------
(* The history of a mode implements RecentValues: the entries in use, as    *)
(* the numbers they were when they were recorded.                           *)

Filled(inUse) == CHOOSE n \in 0..HISTORY_MAX_ITEMS : FilledTo(inUse, n)

RecentInt   == [i \in 1..Filled(IntInUse) |-> Shown(history_ival[i - 1])]
RecentFloat == [i \in 1..Filled(FloatInUse) |-> history_fval[i - 1]]

IntNumbers == {NumberOf(MaskWidth(v, w), w, u) : v \in IVal, w \in Width, u \in BOOLEAN}

INT   == INSTANCE RecentValues
           WITH Limit <- HISTORY_MAX_ITEMS, Value <- IntNumbers, Zero <- U64(IZero),
                result <- result_int, recent <- RecentInt
FLOAT == INSTANCE RecentValues
           WITH Limit <- HISTORY_MAX_ITEMS, Value <- FVal, Zero <- FZero,
                result <- result_float, recent <- RecentFloat

\* The integer history lists the numbers the engine pushed, newest first, each
\* as it was under the width and sign it had.
ImplementsRecentInt == INT!Spec

\* The floating history lists the last values pushed that are not zero.
ImplementsRecentFloat == FLOAT!Spec

\* Each mode's history is the recent results of that mode, newest first and without
\* gaps, through any shifting of the arrays and any change of mode.
ImplementsRecent == ImplementsRecentInt /\ ImplementsRecentFloat

=============================================================================
