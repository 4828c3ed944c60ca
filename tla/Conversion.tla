----------------------------- MODULE Conversion -----------------------------
(***************************************************************************)
(* The unit conversion window and the constants window of                  *)
(* src/src/gui_menu_conversion.c, gui_menu_constants.c, with the           *)
(* arithmetic of calc_conversion.c: a number leaves the calculator when    *)
(* the window opens, and a row of the window is handed back while numbers  *)
(* are typed, results come and the mode changes behind it.                 *)
(*                                                                         *)
(* The factors are the decimals of the source, to the last of their 34     *)
(* digits.  A number is a fraction times the quotient of two of them, left *)
(* unreduced; the rounding of what the calculator computes with them, and  *)
(* of the window's text to 10 digits, is left out.                         *)
(***************************************************************************)
EXTENDS UnitFactors

CONSTANTS
  Values,           \* bound: fractions typed, calculated and converted
  ConstantValues,   \* values of the constants window
  NoWindow

VARIABLES
  mode, top,                  \* calculator: mode, top of the stack
  typed, arg_pending,         \* gui.c: the number in the display being typed
  window_conversion,          \* NoWindow or the category
  window_constants,
  convert_from_row,
  value_to_convert,           \* a fraction
  active,                     \* radio button that is down
  entries, coloured           \* what the rows show, and which are in colour

calcVars   == <<mode, top, typed, arg_pending>>
windowVars == <<window_conversion, convert_from_row, value_to_convert, active,
                entries, coloured>>
vars == <<calcVars, windowVars, window_constants>>

-----------------------------------------------------------------------------
(* Fractions, in lowest terms with a positive denominator *)

Abs(a) == IF a < 0 THEN -a ELSE a

gcd[a \in Nat, b \in Nat] == IF b = 0 THEN a ELSE gcd[b, a % b]

Inf == <<1, 0>>

Frac(n, d) ==
  LET g == gcd[Abs(n), Abs(d)]
      s == IF d < 0 THEN -1 ELSE 1
  IN  IF d = 0 THEN Inf ELSE <<(s * n) \div g, (s * d) \div g>>

Mul(x, y)   == LET p == Frac(x[1], y[2])  q == Frac(y[1], x[2])
               IN  Frac(p[1] * q[1], p[2] * q[2])
Div(x, y)   == IF y[1] = 0 THEN Inf ELSE Mul(x, Frac(y[2], y[1]))
Plus(x, y)  == Frac(x[1] * y[2] + y[1] * x[2], x[2] * y[2])
Minus(x, y) == Plus(x, <<-y[1], y[2]>>)

Zero == <<0, 1>>
One  == <<1, 1>>

(* Numbers of the calculator: x * times / over, a fraction and two decimals *)

Number(x, times, over) == [x |-> x, times |-> times, over |-> over]

Plain(x) == Number(x, D1, D1)

-----------------------------------------------------------------------------
(* calc_conversion.c: the values of the rows *)

Categories == DOMAIN Factors \cup {"temperature", "fuel_economy"}

num_rows(category) == IF category \in DOMAIN Factors THEN Len(Factors[category]) ELSE 3

Rows(category) == 0..num_rows(category) - 1

l100_to_mpg(x)    == Number(Div(One, x), FUEL_ECO_K_IMP, D1)
l100_to_mpg_us(x) == Number(Div(One, x), FUEL_ECO_K_US, D1)
mpg_to_mpg_us(x)  == Number(x, FUEL_ECO_K_US, FUEL_ECO_K_IMP)
mpg_us_to_mpg(x)  == Number(x, FUEL_ECO_K_IMP, FUEL_ECO_K_US)

\* Rows: litre/100km, mpg (imp), mpg (US).
get_fuel_economy_val(from, row, x) ==
  CASE from = 0 /\ row = 1 -> l100_to_mpg(x)
    [] from = 0 /\ row = 2 -> l100_to_mpg_us(x)
    [] from = 1 /\ row = 0 -> l100_to_mpg(x)
    [] from = 1 /\ row = 2 -> mpg_to_mpg_us(x)
    [] from = 2 /\ row = 0 -> l100_to_mpg_us(x)
    [] from = 2 /\ row = 1 -> mpg_us_to_mpg(x)
    [] OTHER               -> Plain(x)

c_to_f(x) == Plus(Mul(x, <<9, 5>>), <<32, 1>>)
c_to_k(x) == Plus(x, <<5463, 20>>)
f_to_c(x) == Div(Minus(x, <<32, 1>>), <<9, 5>>)
k_to_c(x) == Minus(x, <<5463, 20>>)
f_to_k(x) == c_to_k(f_to_c(x))
k_to_f(x) == c_to_f(k_to_c(x))

\* Rows: C, F, K.
get_temperature_val(from, row, x) ==
  CASE from = 0 /\ row = 1 -> c_to_f(x)
    [] from = 0 /\ row = 2 -> c_to_k(x)
    [] from = 1 /\ row = 0 -> f_to_c(x)
    [] from = 1 /\ row = 2 -> f_to_k(x)
    [] from = 2 /\ row = 0 -> k_to_c(x)
    [] from = 2 /\ row = 1 -> k_to_f(x)
    [] OTHER               -> x

calculate_value(category, from, row, x) ==
  CASE category = "temperature"  -> Plain(get_temperature_val(from, row, x))
    [] category = "fuel_economy" -> get_fuel_economy_val(from, row, x)
    [] OTHER ->
         IF row = from THEN Plain(x)
         ELSE Number(x, Factors[category][row + 1], Factors[category][from + 1])

\* calc_conversion_fix_value.
fix_value(category, x) == IF category # "temperature" /\ x = Zero THEN One ELSE x

-----------------------------------------------------------------------------
(* The calculator behind the windows *)

Shown == IF arg_pending THEN typed ELSE top

Type(x) ==
  /\ mode = "float"
  /\ typed' = Plain(x)
  /\ arg_pending' = TRUE
  /\ UNCHANGED <<mode, top, windowVars, window_constants>>

\* Any key that ends in gui_result_callback.
Result(x) ==
  /\ mode = "float"
  /\ top' = Plain(x)
  /\ arg_pending' = FALSE
  /\ UNCHANGED <<mode, typed, windowVars, window_constants>>

\* The main window is built anew; the others stay open.
SetMode ==
  /\ mode' = IF mode = "float" THEN "integer" ELSE "float"
  /\ top' = Plain(Zero)
  /\ arg_pending' = FALSE
  /\ UNCHANGED <<typed, windowVars, window_constants>>

\* calc_give_arg, calc_give_op(cop_peek): the number replaces the top and is shown.
GiveAndPeek(x) ==
  /\ top' = x
  /\ arg_pending' = FALSE
  /\ UNCHANGED <<mode, typed>>

-----------------------------------------------------------------------------
(* The conversion window *)

\* gui_give_arg_if_pending; arg_pending is not cleared.
GiveIfPending == top' = Shown

\* update_all_entry_values.
AllValues(category, from, x) ==
  [row \in Rows(category) |-> calculate_value(category, from, row, x)]

\* Mutant of ucv_activate: the number being typed is not given first.
ucv_activate_Top(category) ==
  /\ mode = "float" /\ window_conversion = NoWindow
  /\ \E x \in Values : Shown = Plain(x)
  /\ UNCHANGED top
  /\ value_to_convert' = fix_value(category, top.x)
  /\ window_conversion' = category
  /\ convert_from_row' = 0
  /\ active' = 0
  /\ entries' = AllValues(category, 0, value_to_convert')
  /\ coloured' = {0}
  /\ UNCHANGED <<mode, typed, arg_pending, window_constants>>

\* ucv_activate, create_table: the menu is not sensitive in integer mode.
ucv_activate(category) ==
  /\ mode = "float" /\ window_conversion = NoWindow
  /\ \E x \in Values : Shown = Plain(x)
  /\ GiveIfPending
  /\ value_to_convert' = fix_value(category, top'.x)
  /\ window_conversion' = category
  /\ convert_from_row' = 0
  /\ active' = 0
  /\ entries' = AllValues(category, 0, value_to_convert')
  /\ coloured' = {0}
  /\ UNCHANGED <<mode, typed, arg_pending, window_constants>>

\* rb_toggle for the button that comes up and for the one that goes down.
rb_toggle(row) ==
  /\ window_conversion # NoWindow /\ row # active
  /\ convert_from_row' = row
  /\ active' = row
  /\ entries' = AllValues(window_conversion, convert_from_row', value_to_convert)
  /\ coloured' = (coloured \ {active}) \cup {row}
  /\ UNCHANGED <<window_conversion, value_to_convert, calcVars, window_constants>>

\* entry_enter_pressed, entry_button_release: in integer mode nothing happens.
Select(row) ==
  /\ window_conversion # NoWindow
  /\ mode = "float"
  /\ window_conversion' = NoWindow
  /\ GiveAndPeek(calculate_value(window_conversion, convert_from_row, row, value_to_convert))
  /\ UNCHANGED <<convert_from_row, value_to_convert, active, entries, coloured,
                 window_constants>>

Cancel ==
  /\ window_conversion # NoWindow
  /\ window_conversion' = NoWindow
  /\ UNCHANGED <<convert_from_row, value_to_convert, active, entries, coloured, calcVars,
                 window_constants>>

-----------------------------------------------------------------------------
(* The constants window *)

constants_activate ==
  /\ mode = "float" /\ window_constants = NoWindow
  /\ window_constants' = "constants"
  /\ UNCHANGED <<calcVars, windowVars>>

\* calc_constants_apply_result.
SelectConstant(x) ==
  /\ window_constants # NoWindow
  /\ mode = "float"
  /\ window_constants' = NoWindow
  /\ GiveAndPeek(Plain(x))
  /\ UNCHANGED windowVars

CancelConstants ==
  /\ window_constants # NoWindow
  /\ window_constants' = NoWindow
  /\ UNCHANGED <<calcVars, windowVars>>

Init ==
  /\ mode \in {"float", "integer"}
  /\ top = Plain(Zero) /\ typed = Plain(Zero) /\ arg_pending = FALSE
  /\ window_conversion = NoWindow /\ window_constants = NoWindow
  /\ convert_from_row = 0 /\ value_to_convert = Zero
  /\ active = 0 /\ entries = <<>> /\ coloured = {}

Next ==
  \/ \E x \in Values : Type(x) \/ Result(x)
  \/ SetMode
  \/ \E category \in Categories : ucv_activate(category)
  \/ \E row \in (IF window_conversion = NoWindow THEN {} ELSE Rows(window_conversion)) :
       rb_toggle(row) \/ Select(row)
  \/ Cancel
  \/ constants_activate \/ CancelConstants
  \/ \E x \in ConstantValues : SelectConstant(x)

Spec == Init /\ [][Next]_vars

-----------------------------------------------------------------------------
(* Properties *)

\* Number e of the unit of a row is fraction x of the unit of another.
SameQuantity(category, row, e, other, x) ==
  LET Kelvin(r, y) == CASE r = 0 -> Plus(y, <<5463, 20>>)
                        [] r = 1 -> Div(Plus(y, <<45967, 100>>), <<9, 5>>)
                        [] r = 2 -> y
      Reciprocal(n) == Number(Div(One, n.x), n.over, n.times)
      Amount(r, n) == IF category = "fuel_economy" /\ r = 0 THEN Reciprocal(n) ELSE n
      a == Amount(row, e)
      b == Amount(other, Plain(x))
  IN  IF category = "temperature" THEN Kelvin(row, e.x) = Kelvin(other, x)
      ELSE /\ a.x = b.x
           /\ \/ /\ a.times = UnitsPerBase[category][row + 1]
                 /\ a.over = UnitsPerBase[category][other + 1]
              \/ /\ a.times = a.over
                 /\ UnitsPerBase[category][row + 1] = UnitsPerBase[category][other + 1]

\* Every row of an open window names the quantity that is converted, in the units of the
\* button that is down, and that row alone is in colour; nothing is divided by zero
\* (rb_toggle, fix_value, calculate_value, and the factors it reads).
EntriesAgree ==
  window_conversion # NoWindow =>
    /\ coloured = {active}
    /\ \A row \in Rows(window_conversion) :
         /\ entries[row].x # Inf
         /\ SameQuantity(window_conversion, row, entries[row], active, value_to_convert)

\* So are the rows whenever the user leaves the window without taking one of them: Cancel
\* can be pressed in every state with an open window, so this is of all of them.
RowsAgree == [][Cancel => EntriesAgree]_vars

\* A window opens on the number the user sees, typed or calculated, and leaves it on the
\* display; only a zero, of which nothing but a temperature has a use, is taken as one.
OpensOnShown ==
  [][window_conversion = NoWindow /\ window_conversion' # NoWindow =>
       /\ Shown' = Shown
       /\ \/ entries'[0] = Shown
          \/ Shown = Plain(Zero) /\ entries'[0] = Plain(One) /\ window_conversion' # "temperature"]_vars

\* A row that is taken becomes the number shown, whatever was typed or calculated since the
\* window opened; in integer mode the display never shows a conversion.
SelectGivesRow ==
  [][\A row \in DOMAIN entries :
       window_conversion # NoWindow /\ Select(row)
         => Shown' = entries[row] /\ ~arg_pending' /\ mode = "float"]_vars
=============================================================================
