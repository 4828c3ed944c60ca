# Verification of ProgAndSciCalc

A TLA+ development for the calculator in `src/`: what its parts keep, how they
interact, which modules model them, what TLC checks and what TLAPS proves.
Paths are relative to the repository; `calc.c` stands for `src/src/calc.c`.

## 1. The system

A GTK calculator with an integer mode (8, 16, 32, 64 bit, signed or unsigned)
and a floating mode (decQuad, 34 digits). One process, one thread: GTK calls the
handlers of the GUI one at a time and each runs to its end. What is hard is not
parallelism but *order*: any key may follow any other, popped stack slots are
read again, the history, the memories and the clipboard bring values from an
older mode or width, and the GUI and the engine each keep part of the state of
one calculation.

    keys, buttons --> gui.c --digits--> display.c            (number being typed)
                        |  \--calc_give_arg, calc_give_op--> calc.c
                        |                                      | iop_*, fop_*
                        |                                      v
                        |                      calc_integer.c, calc_float.c
                        <-- result, warning, bracket callbacks -- calc.c
       gui_history.c    <-- history callback ------------------- calc.c
       display.c        <-- best-integer callback -------------- calc.c
       display_print.c  <-- text of a decQuad --- decNumber/ <-- calc_float.c

| part | source | state | operations |
|---|---|---|---|
| engine | calc.c | argument stack, operator stack, `bin_op_was_entered`, brackets, mode, width, sign, two memories, `save_val` | `calc_give_arg`, `calc_give_op` (binary, unary, brackets, equals, memories, constants), `calc_set_mode`, `calc_set_integer_width`, `calc_set_use_unsigned`, `calc_set_repeated_equals`, `calc_clear`, `calc_binary_bit_xor` |
| integer operations | calc_integer.c, calc_util.c | none | one function per operation, masking, sign extension, width of a number |
| float operations | calc_float.c, decNumberMath.c | none | one function per operation; series for the circular and hyperbolic functions |
| decimal arithmetic | decNumber/ (decBasic.c and decCommon.c on 34 digits, decNumber.c on any number of digits) | none | arithmetic, rounding, comparison, reading, printing, square root, power, exponential, logarithm |
| number entry | display.c | characters of the number being typed, base, exponent flag, text shown | `display_add`, `display_remove`, `disp_toggle_sign`, `set_exp_entry`, `display_set_val`, `display_get_best_integer` |
| formatting | display_print.c | none | rounding, fixed or exponent notation |
| GUI session | gui.c | `arg_pending`, INV, F-E, mode, the widgets | key and button handlers, callbacks of the engine, clipboard |
| history | gui_history.c | 50 values for each mode, the open window's copy | add, open, select |
| bit display | display_widget.c | the bit pressed | press, release |
| conversion, constants | calc_conversion.c, gui_menu_conversion.c, gui_menu_constants.c | the dialog's choices, the constants file | convert, take over a value |
| options, settings | gui_menu_options.c, config.c, main.c | the settings, in memory and in a file | dialogs, load, save |

Some files are there twice: `src/unit_conversion_constants` has its own copy of
decNumber, for the offline programs that print the conversion factors. What is
said of `src/src/decNumber` holds for the copy.

### What makes each part correct

- **Engine.** The two stacks never overrun or run dry; what is shown is the value
  of the expression as typed, by precedence and brackets; `[=]` repeats the last
  operation; every argument is masked to the width; values keep their number
  when the width, the sign or the mode changes and they can.
- **Integer operations.** Exact where the result fits, a warning exactly where it
  does not, no undefined behaviour.
- **Decimal arithmetic.** A result is the exact one, rounded once; the loops on
  units of digits carry and borrow exactly; loops without a bound end.
- **Float operations.** The right quadrant, sign and branch; results in range;
  no NaN where there is a value.
- **Number entry.** What is shown can always be parsed, and is the number taken.
- **Formatting.** Both notations show the number rounded to the display, and what
  is shown reads back as it was.
- **GUI session.** A typed number is given to the engine once, in the mode it was
  typed in; labels and keys say what the engine holds and will do.
- **History.** What is selected is what is shown, in its own mode.
- **Bit display.** What is under the mouse is the digit drawn there.
- **Conversion, constants.** A window starts from the number shown, a row gives the
  value it shows; a constants file of any shape stays within the menu's arrays.
- **Settings.** What was saved is what is loaded; a damaged file does no harm.

The `hazards` of `PROJECT.json` list the places where this can go wrong, with the
properties that look there; one has no property, and a note that says why.

## 2. Modules

| module | models | role |
|---|---|---|
| `CalcEngine` | calc.c | the state machine: every call of calc.h |
| `CalcEngineClosed` | | the assumption that operations return values of their type |
| `CalcEngineProofs` | | its invariants, proved |
| `ExprCalc` | what calc.c promises | abstract calculator: an infix expression and its grammar |
| `CalcExpr` | | `CalcEngine` with the typed expression as history variable; refines `ExprCalc` |
| `CalcNumbers` | calc.c with calc_integer.c | the engine composed with the integer operations; numbers over changes of width, sign, mode |
| `CalcInteger`, `CalcIntegerCheck` | calc_integer.c, calc_util.c | the integer operations, and one call of any of them against exact arithmetic |
| `GuiSession` | gui.c on `CalcEngine` | handlers, callbacks, labels, clipboard |
| `NumberEntry` | what typing a number promises | abstract: a word, or a sign, digits, point and exponent |
| `Display`, `DisplayProofs` | display.c, and the keys of gui.c that edit | the text of the number being typed; refines `NumberEntry`, proved |
| `BestInteger` | `display_get_best_integer` of display.c | one call for any printed number, against exact arithmetic |
| `DisplayPrint` | display_print.c | the digits and the point of the text, against exact rounding |
| `RecentValues` | what a history promises | abstract: the last results, newest first |
| `History` | gui_history.c | two arrays and the copies the windows list; refines `RecentValues`, proved |
| `BitDisplay` | display_widget.c | the arithmetic of drawing and of clicks, presses and releases |
| `UnitFactors` | the tables of calc_conversion.c | factors as decimals, against the definitions of the units |
| `Conversion` | calc_conversion.c, gui_menu_conversion.c, gui_menu_constants.c | both windows over a calculator that goes on |
| `WindowProofs` | | theorems on `History`, `BitDisplay` and `Conversion` |
| `ConstantsFile` | `load_entries` of gui_menu_constants.c | the loader, line by line |
| `Settings` | config.c, main.c, gui_menu_options.c | load, dialogs, save, a stop anywhere |
| `DecFloat` | decCommon.c | rounding into the format, reading, printing |
| `DecArith` | decBasic.c | its operations on coefficients |
| `DecMultiply` | `decFiniteMultiply` of decBasic.c | columns of units, split by a multiplication with an inverse; proved exact, in the same module |
| `LongDivision`, `DecDivide` | `decDivide` of decBasic.c | division by hand, and the loops with estimates and stale units that refine it |
| `FloatOps` | decNumberMath.c, calc_float.c | the series and the operations of float mode, on `DecArith` |
| `DecNumber` | decNumber.c | arithmetic with a residue, `decGetInt` |
| `DecUnits` | decNumber.c | arithmetic on arrays of units, against exact integers |
| `ChunkProduct` | `decMultiplyOp` of decNumber.c, the FASTMUL part | lazy carries in 64-bit items; proved not to wrap, in the same module |
| `SquareRoot` | `decNumberSquareRoot` | Newton's method and the last correction |
| `Power` | `decNumberPower` | bit by bit, or by exponential and logarithm |
| `Exponential` | `decExpOp` | reduction, series, power |
| `Logarithm` | `decLnOp` | table, Newton's method with growing precision |
| `MCCalcShape` | | the constants of `CalcEngine` for TLC |
| `MCDisplay` | | typing integers, typing floats, printing, each in its part |
| `MCGuiSession` | | `GuiSession` on small words, its controls in three parts |
| `MCWindows` | | history, bits and conversion, one at a time |
| `MCFiles` | | settings and constants file, one at a time |
| `MCOperations` | | one call of any operation: integers, floats, arrays of units; and the product of decBasic.c |
| `MCDecimal` | | one call of any operation of the decimal library, and the exact arithmetic it is compared with |
| `MCLoops` | | the loops of the decimal library, one at a time, with a reference for e^y |
| `ExprProofs` | | the refinement of `ExprCalc` by `CalcExpr`, proved |
| `GuiProofs` | | what handlers, calls and callbacks of `GuiSession` keep, proved |
| `FilesProofs` | | `Settings` and `ConstantsFile`, proved |

### CalcEngine and calc.c

The variables have the names of calc.c's static variables. `stack` and
`bop_stack` are whole arrays, so popped slots keep their contents, because
`op_equals` reads `bop_stack[0]` and `stack[1]` after they were popped. The
function pointers of an operator-stack entry are the operator's name. Three
variables stand for what leaves the engine: `shown` (the last call of the result
callback), `pushed` (the history callback's values of the last call) and `error`
(`calc_error` was called, or a NULL function would be). `ready` records that the
caller did the `calc_clear` that calc.h:102-103 and the last comment of
`calc_set_mode` ask for; gui.c always does.

The helpers of calc.c (`stack_push`, `process_bin_ops`, `new_arg`...) are
operators on a record `Machine` that holds the two stacks; an action applies the
helpers its handler calls, in their order, and assigns the result with `Commit`.
So one action is one whole call. `process_bin_ops` is a loop: `BinOpStep` is one
turn, and `ProcessBinOps` takes as many turns as there are pending operators,
which is enough because each turn but the last pops one.

Values and operations are parameters. `calc_float.c` stays uninterpreted
(`FopUnary`, `FopBinary`, with its rounding and the normalisation of minus zero);
`CalcInteger` supplies the integer operations in the runs that need them. Warning
settings, the angle unit and the random range only choose between values that
the model leaves open, and debug output is left out.

### Display, NumberEntry and display.c

`disp.stack` is the whole array `disp_stack`, NULs included, because the code
keeps the final NUL by hand; `index`, `exp_entry` and `ival` are the other static
variables, and `error` says that `disp_error` was called. Each function of
display.c that edits the text is an operator from one display to the next, and
ends as the function does with `update_display`, which reads the text back and
takes off a digit that does not fit. `display_add` also returns whether the
magnitude of the least integer was typed (`display_add_returns`).

An action is a whole handler of gui.c: `digit_entered`, `enter_point`, `bid_exp`,
`bid_pm`, `backspace_click`. `cfg` holds the mode, radix, width, sign and number of
digits, which gui.c gives to the display and the engine together. The engine is
not in this module: `Result` stands for any operation that shows a value and ends
the number being typed. `ChangeIntSettings` gives the number to the engine, which
masks and shows it again, as `CalcEngine` does in detail; `ChangeFloatSettings`
shows some value, because printing is not modelled. After `display_add` returns
true, `digit_entered` gives the engine `cop_int_min`, whose result is the one value
that can be computed here.

In `NumberEntry` there are no characters. A digit multiplies the word by the base and
adds, backspace divides; in float mode the entry is a sign, the digits on both
sides of the point and an exponent that keeps its last three digits.

`Result` may show any value and a refinement allows stuttering, so it alone would
accept a digit that is lost. `DigitTaken` closes that: in every state, for every
digit key, the digit is taken exactly when the number fits.

`BestInteger` has the printed number as its sign, digits, point and exponent,
which is what the scan of the text finds; moving the point is the operator
`Expanded`.

### GuiSession and gui.c

A handler of gui.c calls the engine several times, and callbacks of the engine
write what the handler reads next. So a handler is an action that leaves what it
will ask of the engine in `calls`, and `Call` makes the next of these calls: an action of
`CalcEngine` with what `gui_result_callback`, the memory labels and the others do.
No handler starts before `calls` is empty, because there is one thread. The clipboard
is the exception the code has: `paste` only asks, and `pastes` keeps the requests until
`Answer` comes, after any other keys. `typed` is the value of the number being typed
(its text is `Display`), `labels` are the texts of the widgets, and `given` and `pasted` are
history variables.

### DisplayPrint

The code works on an array of characters. Here the digits are indexed from 1 and the
point is a place between two of them; `Character` gives the character the code's
index arithmetic would meet, the point included, since that is where an index can be
off by one.

### History

`history_ival` and `history_fval` are the arrays, `..._copy` what an open window
lists, and `rows_int`, `rows_float` the numbers printed in its rows. The engine is the
environment: it adds any value masked to the width, and changes mode, width and sign at
any time. The refinement mapping takes the used part of the array as the sequence.

### Conversion, ConstantsFile, Settings, BitDisplay

`Conversion` has a number shown by the calculator, perhaps being typed, and a window
that keeps what it was opened with. Its rows are those of calc_conversion.c: all twelve
categories, ten with a table of factors and two, temperature and fuel, with formulas.
`UnitFactors` has the tables, each factor to the last of its 34 digits. A number is a fraction times the
quotient of two factors, which is not worked out; rounding to 34 digits is left out.

To show the same quantity in every row, the factors themselves must be right. `UnitFactors` therefore
says what the units are, independently of the tables: an inch is 0.0254 m, a pound sixteen ounces of 28.349523125 g,
an electron volt 1.6021766208e-19 J, a psi a pound's weight on a square inch. These are the
definitions the programs in `src/unit_conversion_constants` start from. A factor is right (`UnitsPerBase`) when its product with
the size of its unit is the size of the base unit, to one part in 10^33; `EntriesAgree` compares the rows
by factors that are right, so that one wrong digit, or a point in a wrong place, fails it (eV and keV have
the same digits and differ by the place of the point; the mutant gives both that of eV). It is asserted at
every Cancel, which can come in each state with an open window, so of every such state (`RowsAgree`).

`ConstantsFile` reads what `fgets` returns, each by its kind: a line that is too long
is several. An allocation may fail at any entry.

In `Settings` the file is a sequence of lines. `SaveLine` writes one; `Stop` may come
anywhere, and what is on disk then is a prefix. Four settings, one of each kind
(a range, a flag, a pair that is applied together, a choice), stand for the fifteen.

`BitDisplay` has the pixel arithmetic of drawing and of the lookup as two operators, as
the code has two functions.

### Decimal arithmetic

Numbers are records of sign, coefficient and exponent, or a special value. The
format is a parameter: `DECPMAX` digits and `DECEMAX` as greatest exponent. 128-bit
encodings, declets, the payloads of NaNs and the status flags (which the calculator never
reads) are left out, except where a loop of the code looks at a flag: overflow and underflow
in a power are an infinity and a zero.

The libraries work on units of digits. What operations promise is modelled on
coefficients (`DecArith`, `DecNumber`), and each loop on units is a module or an operator of its own:
`DecMultiply` and `DecDivide` for decBasic.c, `DecUnits`, `ChunkProduct` and
`decGetInt` of `DecNumber` for decNumber.c. `DecDivide` keeps the whole accumulator array, because units above the current top
are not cleared in every case and must not be read.

`MCDecimal` compares decBasic.c with exact integers, rounded by comparing what is dropped
with a unit of the last place; and the two libraries with each other: decBasic.c rounds an exact
result, decNumber.c rounds with a residue, and the calculator moves numbers between the two.

The iterative functions are state machines, one turn of their loop a step:
`SquareRoot`, `Power`, `Exponential`, `Logarithm`. They call `DecNumber`'s operations with
the contexts of the code. `Logarithm` calls the exponential with a number it
does not have room to sum; `MCLoops` gives it with a known error, and both ends of it are
tried. `Power` and `FloatOps` take logarithm and exponential as operators.
The limits of `decCheckMath` on operands are left out: the calculator's context is always
within them.

Two things that are in the code and have no effect here: `decNumberMinus` of a positive zero, rounding to
floor, gives minus zero, unlike `decFloatMinus`, but nothing calls it; and `decUnitCompare` is
wrong for arrays that are zero, which its callers rule out. The upward correction at the end of
the square root was needed for no number of the checked instances.

## 3. Runs

A run has one module and one configuration. Where several components are small and
have nothing to do with each other, an `MC` module puts them side by side: a
variable `part` says which one a behaviour is about, the others stay as they are at
the start, and each property is about its own.

| run | module | question | instance |
|---|---|---|---|
| `shape` | `MCCalcShape` | does any sequence of calls break the stacks? | all calls, one value of each kind, 2 bracket levels, both modes; 40 328 states |
| `expression` | `CalcExpr` | does the display show what the grammar says? | float mode, values are terms, 7 keys: brackets, `=`, an operator of each priority, sign, memory; and 9 without sign and memory; repeated evaluation on or off |
| `numbers` | `CalcNumbers` | do arguments stay masked, and do arguments and memories keep their number? | 4 bit words, widths 2 and 4, both modes |
| `entry` | `MCDisplay` | do keys edit the number, is what is stored the number shown, and are results printed as rounded? | 8, 10 and 12 bits, signed or not, decimal and hexadecimal; floats with 2 or 3 digits, exponents of 3; printing of 5 digits in displays of 2 to 5 |
| `gui` | `MCGuiSession` | do labels and keys say what is and what will be, is a typed number taken once and the shown one used? | 3 bit words; all keys, refused brackets, width, sign, bits, history, one clipboard request open |
| `windows` | `MCWindows` | does a row give what it shows, does a click invert the digit under the mouse, are the factors of units right? | histories of 2, 4 bit words; every pixel and width of the bit display; all rows of the twelve categories of units, four numbers |
| `files` | `MCFiles` | what does the program start with, and does any file of constants stay within the table? | 4 settings, any number of starts, dialogs, ends, stops; up to 7 lines, table of 2 by 2, failing allocations |
| `operations` | `MCOperations` | is one call of any operation right? | integers of 6 bits, floats of 3 digits, arrays of up to 3 units, products of units of 3 digits, display numbers of up to 5 digits on a 14 bit word |
| `decimal` | `MCDecimal` | is a decimal result the exact one, rounded once, and do both libraries agree? | 2 digits, all exponents, zeros of both signs, infinities, NaNs, 8 rounding modes; up to 4 digits rounded |
| `loops` | `MCLoops` | do the loops end, stay in their arrays and items, and give the value? | products of 4 chunks, quotients of 5 digits, roots of 3, powers, exponentials and logarithms of 1 to 3 |

What the properties of a run say is in the comment above each of them.

Runs that show a disagreement are below.

**Bounds.** The engine is finite but for its values: `shape` explores it completely
for two bracket levels. Two levels are enough for a bracket inside a bracket, and
the proofs cover every number of levels. In `expression` values are terms, so that
two expressions are equal only if the same operators were applied to the same
operands in the same order; with interpreted values `1 * 1` would hide an error.
Seven keys, all kinds of them, reach a repeated equals after a bracket with an operator
left dangling; two more, without memories and sign changes, reach a second level of brackets
on both sides of an operator.
Word sizes in `operations` and `numbers` are small, but have what 64 bits have: the
widest width is the word, where overflow cannot be seen in a wider type, and
twice any other width fits in the word, as the code relies on (`WidthsAssumption`).

For typing, 8, 10 and 12 bits: in 8 and 12 the signed and unsigned decimal limits have the
same length, as in 32 bits; in 10 they do not (511 and 1023), as in 64 bits. `update_display` may take off one digit; the
digit keys of a run make each of its limits and numbers above it.
Two and three shown digits
tell the counting of the sign, of the point and of the zero before it apart, and
three digits of exponent are the real number. The arrays (12 and 14 characters
instead of 43) hold the longest text that fits those limits with room to spare, as the
real one does. A 14 bit word has 16383 and -8192 as ends: the largest exponent is
4 unsigned and 3 signed, which differ as 19 and 18 do for 64 bits.

A history of two entries has a first and a last, and one that is dropped.
A second open clipboard request (`MaxPastes`) would only repeat what one does, because an
answer reads nothing of its request. A table of two categories with two entries
is filled and overrun by seven lines.

A decimal format of two digits has a digit that is kept and one that is cut, a carry that makes a new
digit (99), a half (50) and its neighbours, and with `DECEMAX` 3 subnormal numbers, clamping and
overflow within a few exponents of each other, so that all exponents can be tried. What
depends on the length of units has larger instances: units of three
digits, as in decNumber.c. Constants that depend on each other in the code are scaled together:
`FASTLAZY` rows and a carry just fit an item of 198 as 18 rows fit 64 bits;
`MinWork` and `LeastDigits` are less than the code's seven, so that the precision of Newton's method
grows more than once.

TLC counts in 32 bits, so the series are checked at few digits. The exponential is run with the
guard digits of the code for operands that need no power of ten. With such guard digits the powers
would be too wide, so those have one digit of result, no guard digits in the series, two in the power, and at
most one power of ten; a 6 bit word for the power has the top bit, a middle and an end as 32 bits
do. The exact value lies within a tenth of a unit of the last place of what rounding to the nearest would
choose; the code says itself that in rare cases it is not correctly rounded (at two digits,
exp(-0.47) = 0.625002 is such a case). Rotation of digits is checked for two digits only.
`FloatOps` has 3 digits: its results are coarse, and its properties are about quadrants,
signs and branches, with tolerances that no wrong one is within.

**Views.** `LiveView` and `LiveState` leave out what later steps cannot read: the stored word in
float mode, where it is stale and written before it is read; popped slots other
than the two of repeated evaluation; the half of a value that belongs to the
other mode; `save_val` when it is not set. The actions and the properties do not
look at what the view drops.

**Deadlock.** `expression` stops at its bound on keys and says `CHECK_DEADLOCK FALSE`,
as do the runs in which something is computed once and the behaviour ends: `entry` (printing), `files`
(the loader), `operations`, `decimal`, `loops`.

**Fairness.** The user's choices are never fair: nothing forces a key to come. Fairness
is stated where one call runs a loop, and says that the thread goes on:

- `Settings`: weak fairness of `SaveLine` and `SaveDone`, for `SaveEnds` (a save that was
  begun ends, or the program is stopped). Stopping is not fair.
- `DecDivide` and `SquareRoot`: weak fairness of their loops, for `LoopsEnd`.

Each of these is one function in a process with one thread that waits for nothing. The
same is stated of the loader in `ConstantsFile`, where no property needs it. `Exponential` and `Logarithm` have
bounds on the number of turns instead (in `LoopsExact`), which say more.

### What they found

Two runs each check one sentence of the repository that the code contradicts;
`findings` of `PROJECT.json` quotes the lines.

| run | what the code does |
|---|---|
| `repeat_operand` | A change of width masks the arguments in use, not the operand that Repeated Eval keeps in the popped slot `stack[1]`. With 16 bit signed `5 mod 256 =`, width 8 and `=` again, `bin_iop_mod` sees a divisor that is not zero as a word and zero at its width. |
| `float_tanh` | tanh of a large number divides two infinities and is a NaN (decNumberMath.c:117-128). |

Other disagreements between the code and its comments or documentation were met
while the modules were written. The models have the code's behaviour; no run is
kept for them.

| where | what the code does |
|---|---|
| calc.c:650, README.md:94 | The README says that a bracket can only be started after a binary operator, `[=]` or `[CLR]`. `paren_allowed` is left alone by unary operators and `)`, so `10 + (2 +) (` is accepted and replaces the value of the first bracket by 0. |
| gui.c:622, 633 | `HIST` leaves `button_click` before INV is cleared, which a comment says every button does. |
| gui.c:602, README.md:85 | A number begun with `[EXP]` does not reset the last format, so that `[F-E]` shows it in plain form. |
| decNumberMath.c:155 | The angle of a large number of radians is not reduced to one turn, as a comment says: the quotient is rounded before it is cut. |
| calc_float.c:689 | An odd index computed as 3.0 is no integer for `decQuadIsInteger`, and the root of a negative number is a NaN. |
| calc_float.c:495 | For large negative numbers the sum in the inverse hyperbolic sine cancels to zero, and its logarithm is -Infinity. |
| decNumberMath.c:317 | Halving the angle of a huge tangent squares it, and overflows. |
| decNumber.c:2982 | The approximation of the square root may have fewer digits than a comment gives it; the result is not affected. |
| decNumber.c:2198 | A negative power of a number whose reciprocal overflows is 1. |
| decNumber.c:5487 | The caller's rounding mode rounds the exponential and the logarithm, which the comments deny. The calculator has one mode only. |

Two things that are as the code's comments want them, and surprise: `2 + 3 + * 4`
is 20, because 5 was shown before the `*` replaced the `+`; and with Repeated Eval
a `(2 + 3) =` gives 8, because the closing bracket already evaluated the sum and
`=` repeats it.

## 4. Proofs

### CalcEngineProofs

`CalcEngineProofs` proves, for every bracket limit, every priority raise of at
least 3, every number of memories and all values and operations:

| theorem | statement |
|---|---|
| `TypeCorrect` | `Spec => []TypeOK` |
| `ErrorFree` | `Spec => []NoError` |
| `StackShaped` | `Spec => []StackShape` |
| `OperatorsOrdered` | `Spec => []OperatorOrder` |
| `FunctionsExist` | `Spec => []NoNullFunction` |
| `ArgumentsMasked` | `Spec => []LiveMasked`: every argument in use is masked to the current width |

**Assumptions.** `SizesAssumption` and `InputsAssumption` (constants have their
type, a level raises the priority by at least `NUM_PRIORITY`, as the comment at
calc.c:56-58 demands), and `OperationsClosed` (an operation returns a value of its
type, as C's types ensure). TLC evaluates all three in the runs. `CalcEngineClosed`
has a fourth, `OperationsMasked`, which only `ArgumentsMasked` uses.
`NoNullFunction` is proved but in no run, since `NoError` says as much there: calling NULL is an error.

**Argument.** The inductive invariant `Inv` is the conjunction of the five. None is
inductive alone: that `process_bin_ops` never pops an empty stack needs
`StackShape`; that an operator always fits on its stack needs `OperatorOrder`;
that no NULL function is called needs `NoNullFunction`; and all need the types.

- The loop of `process_bin_ops`: one turn (`BinOpStep`) keeps a machine well
  formed; by induction over the turns so does the whole loop, and at its end no
  pending operator has at least the given priority.
- Room for an operator: map the raised priority `p + level * raise` to the rank
  `3 * level + p`. Ranks of pending operators strictly grow and lie below
  `BOP_STACK_SIZE`, so an operator that is pushed after the loop has room. This is
  the claim that calc.c's array bound rests on.
- The argument stack is never more than one longer than the operator stack.

**Arguments stay masked.** Besides the invariant, `ArgumentsMasked` needs
`OperationsMasked`: masking twice is masking once, zero is masked, and an integer
operation gives a masked result for masked arguments, because each function of calc_integer.c ends
with the mask. TLC evaluates the assumption with `CalcInteger` in the run `numbers`. `LiveMasked` is
inductive beside that invariant: a value in use was masked when it was pushed, is a result of
operations on values in use, or was masked when the width changed. The popped
slot that `[=]` repeats is not in use, and is not masked (`repeat_operand`).

### ExprProofs

For any operators and operations, any values, any limit of brackets and any number of keys
(`MaxKeys` is a constant that nothing is assumed of):

| theorem | statement |
|---|---|
| `StacksAlwaysAgree` | `ExprSpec => []ExprInv`: the inductive invariant |
| `RepeatAlwaysKept` | `ExprSpec => []RepeatKept`: the popped slots that `[=]` reads hold the operator evaluated last and its right operand |
| `EngineImplementsExpression` | `ExprSpec => ImplementsExpression`: each display update shows the value the grammar gives |

The run `expression` checks the last two with values that are terms, so that any two expressions
differ; the theorems are for all values. They are about what `CalcExpr` has: floating mode
and no change of mode.

**Argument.** `ExprCalc` evaluates a stretch of the expression by a recursion over the operator that
binds loosest; calc.c has no expression, only the operators that still wait. The proof
connects the two in three steps.

- *Expressions* (the first half). An expression is n operators between n + 1 numbers, with `ob[i]` brackets open
  at the i-th number (`Shaped`). Within a bracket the operators bind ever tighter, because one that does not has those
  before it evaluated. So the root of a stretch is its first operator, and the recursion is
  a fold from the right (`IsFold`, `FoldIsValue`): the right operand of an operator is the next operator
  applied to its number and *its* right operand. Closing a bracket, `[=]` and a
  looser operator replace an end of the expression by its value; none of them changes the fold of what is left (`Reduces`).
- *The loop* (`Progress`, `ProcessIs`). After a turn of `process_bin_ops` that leaves k operators, slot k of the
  arguments holds the k-th value of the fold, slots before it are as they were, and slot k + 1, just
  popped, holds the right operand of the operator just taken. The priority it stops at separates brackets because a
  level raises it by more than operators of a level differ (`TakenFrom`).
- *The keys* (`NumberInv` to `ClearKey`). `Agrees` says that slot i of the arguments holds the i-th
  number and slot i of the operators the operator behind it with the priority of its level. An operator
  with no second operand leaves the argument stack one shorter, and stands for the value shown or is dropped, as
  Repeated Eval has it (`Settled`). `ExprInv` is the engine's `Inv`, `Agrees` with `num_parentheses` brackets open, and
  what `[=]` depends on: while an operator waits `bin_op_was_entered` holds, and without it there is nothing to repeat.

**Assumptions.** Those of the engine, and `MemoryAssumption`: the first memory exists. Induction, over turns, numbers and
brackets, is on natural numbers with the property given as a set (`Induction` in `CalcEngineProofs`), and
the two recursive functions of `ExprCalc` are shown to exist before they are unfolded (`ValueExists`, `ClosingExists`).

### DisplayProofs

For every size of the display and of the exponent, any widths, signs, radices and numbers of digits, and
whatever results are shown in between:

| theorem | statement |
|---|---|
| `DisplayInvariant` | `Spec => []DisplayInv`: the inductive invariant |
| `TypeCorrect` | `Spec => []TypeOK` |
| `AlwaysTerminated` | `Spec => []NulTerminated` |
| `AlwaysShown` | `Spec => []NumberIsShown`: no error of display.c, the stored word is the number shown, a number being typed can be read back |
| `EveryDigitTaken` | `Spec => []DigitTaken`: a digit is taken exactly when the longer number fits |
| `EntryRefined` | `Spec => ImplementsEntry`: the keys edit the number |

The run `entry` checks the last four in words of 8 to 12 bits; the theorems include the 64 bits of the code.

**Argument.** None of the properties is inductive: what a key does depends on every character on the display, and
what a text stands for is a recursive function of it. `DisplayInv` says that *some number is shown*, an integer
(`IntStored`) or a decimal (`FloatShown`), and these say of each slot which character it holds. The proof has three parts.

- *Numerals.* The recursive function of `Magnitude` exists and is unique (`MagnitudeIs`), so `Magnitude` can be computed from both ends: a digit
  pushed behind multiplies by the base and adds (`MagnitudePush`), the digits without the last are the number divided by the
  base (`CountsQuotient`), digits moved to the left lose what exceeds their slots (`LeftNumber`: the exponent).
  Digits without a leading zero are what `sprintf` prints of their number (`DigitsArePrinted`), because
  a number has one length (`LengthIs`). So the number on the display is unique, and so is its text.
- *display.c, one function at a time.* From a display that shows a number, `display_add`, `display_remove`, `disp_toggle_sign`,
  `display_set_exp_entry` and `display_set_val` lead to a display that shows the edited number. The hard case is `update_display`: the
  digit is pushed first and read back, and when the longer number is out of range one pop restores
  the display (`DigitBehind`). The limit of characters never gets in the way of a number that is in range,
  since a number below `Base^top` has at most `top` digits (`IntLimit`, `DigitPushed`).
- *gui.c, one handler at a time.* What `NumberEntry` sees of a display that shows a number is that number (`EntryWord`, `EntryDecimal`), so
  every handler keeps `DisplayInv` and is a step of `NumberEntry` (`KeyDone`).

**Assumptions.** `SizesAssumption`: the display has room for a sign, the digits, `0.` and an exponent, as display.c:50-58 computes it.
`InputsAssumption`: keys are digits of their mode, a result in integer mode is a word, in floating point mode a text that is not empty.
`PowersAssumption`: the provers know nothing of exponentiation, so what is used of powers is stated: `b^0 = 1` and `b^k = b * b^(k - 1)`
for the base up to the most digits of a word, for ten up to the digits of an exponent, and `2^width = 2 * 2^(width - 1)`; that a
word is below that power of the base; and that its hexadecimal digits are exactly a quarter of its bits. TLC evaluates
all three for the constants of `entry`.

### WindowProofs

The history, for every size of it, all words and widths:

| theorem | statement |
|---|---|
| `TypeCorrect` | `Spec => []TypeOK` |
| `Gapless` | `Spec => []NoGaps`: unused entries lie behind the used ones |
| `HonestRows` | `Spec => RowGivesWhatItShows`: a click gives the number printed in the row |
| `IntHistoryImplements`, `FloatHistoryImplements` | each array implements `RecentValues` |
| `HistoryImplements` | `Spec => ImplementsRecent`: both do, as the run checks it |

The invariant adds to `TypeOK` and `NoGaps` that the rows of an open window print its
copy (`RowsAreTheCopy`). `FilledTo(InUse, n)` says that the first n entries are the used ones;
there is one such n, and the lemmas on it turn the code's shifting of the array into
the abstract `Append` at the front and cut at the limit. `RangeAssumption` says what masking
and the two readings of a word do to each other; TLC evaluates it.

The binary display, for every width of a character and every margin:

| theorem | statement |
|---|---|
| `ClicksHonest` | `BitSpec => ClicksAreHonest`: the whole word is drawn, a click inverts the digit under the mouse, one press inverts one bit |

The text that `set_bin_display` builds byte by byte has a closed form (`Text`, `NextByte`), so
every character of both lines is known from its place: the digit of a bit, or a blank (`LineDrawn`).
A bit and its place determine each other (`SpotOfBit`, `BitOfSpot`), hence as many digits are 1 as the
word has bits, and an inverted bit changes one digit (`OneDigitChanges`). The pixels of a place, a division by the width
of a character, are exactly those in which the markers of `get_bit_clicked` find its bit (`BitsUnder`).
The invariant needed is only that no bit beyond the width is 1 (`BitTypes`). `WidgetAssumption`:
a character has a width, and the widget is at least as wide as a line.

The conversion window, for any numbers:

| theorem | statement |
|---|---|
| `RowsAreCurrent` | `Units!Spec => []UnitsInv`: the rows are those of the number the window opened on and the button that is down |
| `RowTaken` | `Units!Spec => Units!SelectGivesRow`: a row that is taken becomes the number shown |
| `OpensHonest` | `Units!Spec => Units!OpensOnShown`: the window opens on the number shown |

`OpensHonest` rests on the tables only in that none is empty (`TableLengths`). `UnitsInv` is what `RowTaken` needs: the row was computed before, the number that is given is
computed at the click.

### DecMultiply

`SplitExact` says that the estimate by a shifted inverse with at most two corrections is the division by
10^9, for every column below 4 * 10^18; `SplitIsAlwaysExact` says that no column of
decQuad grows larger, for all operands: `Spec => []SplitIsExact` under `QuadConstants`, the
numbers of the code. Neither can be reached by TLC, whose integers have 32 bits; the run
has units of three digits.

### ChunkProduct

| theorem | statement |
|---|---|
| `TypeCorrect` | `Spec => []TypeOK` |
| `NothingWraps` | `Spec => []NoWrap`: no addition exceeds the item |
| `ChunksInTheEnd` | `Spec => []EndsAsChunks`: every item is a chunk in the end |
| `SizesOfTheCode` | 9 digits, 18 rows, 64 bits meet `LazyAssumption`, and 19 rows do not |

`LazyAssumption` is what the comment on FASTLAZY computes. The inductive invariant bounds
every item by the rows added since the last resolution; while carries are resolved, the items
below `lp` are chunks, the one at `lp` and its neighbour may hold carries, and the others are as they were.

### GuiProofs

For all words, operations, memories and pasted numbers, and with any number of clipboard
requests open:

| theorem | statement |
|---|---|
| `SessionInvariant` | `SessionSpec => []SessionInv` |
| `EngineSafeInSession` | `SessionSpec => []Inv`: as gui.c calls it, the engine keeps its own invariant |
| `DisplayIsTop` | `SessionSpec => []ShownIsTop` |
| `LabelsAreTrue` | `SessionSpec => []LabelsTrue` |
| `KeysAreHonest` | `SessionSpec => KeyDoesWhatItSays` |
| `TypedNeverLost` | `SessionSpec => TypedIsTaken` |
| `PasteEndsShown` | `SessionSpec => PasteIsShown`: a pasted number ends up on the display as it is, or as 0 out of range |

**Argument.** Between two calls of a handler the display and the labels may be wrong, so that no property
above is inductive. `SessionInv` says that *what is wrong is put right by a call that is still to be
made*: the display is the top of the stack, or a call that shows it is pending
(`DisplayFresh`); likewise for the operator and bracket labels (`EngineLabelsTrue`), the mode and
the key texts (`ModeLabelsTrue`), the memories (`MemLabelsTrue`), and the number being typed (`Taken`).
That alone would not do, because a later call can undo what an earlier one put right;
`Orderly` says that it never comes last: a call that leaves the display behind is followed by one that shows, a change of mode by
new widgets and then by a clear, a memory by its label. When no call is
left, nothing is wrong. The proof has three layers:

- what the engine does: every call that ends in `gui_result_callback` shows what it then holds,
  and the others say what they leave alone;
- one call at a time: the obligation passes to the calls behind it;
- one handler at a time: its sequence of calls is orderly, and what it changes is covered by a call in it.

**A number from the clipboard.** The answer comes after a request, when other keys may have changed mode, width and
memories. `PasteDue` adds to `SessionInv` which calls are left while it is handled: each of the sequences the callback
may still have to make (`Left`), with what holds before it. Before the width is set, the width picked holds the number; before
the element is given, the width set does (`Fits`); before the last `peek`, the top of the stack is what was pasted
(`TopIsPasted`). So only the number itself is left to be shown.

**Assumptions.** `PasteAssumption`: a pasted integer within the limits has a word, as `strtoll`
and `strtoull` give one. `PasteWidthAssumption`: the width that `calc_util_get_changed_width` picks for a number
holds it. TLC evaluates both in the run `gui`. The run checks `PartSpec`, which has the same steps for a part of the controls at a time;
the theorems are about `SessionSpec`, with all of them. `SessionInv` was also checked as an invariant of the constants of the run.

### FilesProofs

For any settings, values, dialogs, file and wherever the program is stopped; and for any file of
constants and any sizes of the two tables:

| theorem | statement |
|---|---|
| `SettingsInvariant` | `Spec => [](SettingsInv /\ WindowsClosed)` |
| `SettingsAlwaysHold` | `Spec => []SettingsHold`: what is in use is legal, and agrees with config.c |
| `RestartsKeep` | `Spec => RestartKeeps`: a start after a complete save takes over what was saved |
| `StopsKeepPrefix` | `Spec => StopKeepsPrefix`: after a save that was stopped, what was written is kept, the rest is default |
| `LoaderInvariant` | `LoadSpec => []LoadInv` |
| `LimitsKept` | `LoadSpec => []WithinLimits` |
| `EntriesStay` | `LoadSpec => []EntriesBelong`: an entry stands under its own category |
| `MenuIsTheFile` | `LoadSpec => []MenuIsFile`: the menu is the first categories that found memory, each with its first entries |

The properties of `Settings` speak of a start, whose text was written one line at a time by a process that
is gone. `SettingsInv` carries the text along: while it is
written it is the first lines of config (`FileIsWritten`), at other times a start would read from it what was chosen, up to where
the last writing broke off (`FileIsChosen`). `LoadInv` adds to the limits that the menu has
no row beyond the number of rows and that the category being filled is the last one (`Filling`).

`MenuIsFile` is about the end of reading. `MenuInv` says of the table so far: every category in it has all its
entries up to the limit (`RowsComplete`), the categories are in the order of the file (`NamesInOrder`), of the lines read none is missing but
the category being filled, which comes last (`SoFarComplete`), and when reading ends, only categories that came after a table became full are missing
(`TableComplete`). That the rows *are* the first entries, in order, follows because a
row holds only entries of its category in the order of the file and a row that misses one is full.

**Assumptions.** `OrderAssumption`: no setting is written twice. `DialogsAssumption`: which OK applies
the settings that are applied at once. `LimitsAssumption`: sizes of arrays are natural numbers. With
`DefaultsAssumption` and `TextsAssumption` (a default is legal; a broken text is none) these are facts of
config.c and gui_menu_options.c; TLC evaluates them.

## 5. What is only model-checked

- `PrintedRight`: that the text of a result is its rounding needs sums of powers of ten. What is proved of the display
  takes the text of a floating point result as given.
- `NumbersKept`, `RecallGivesNumber` and `IntegersExact`: bit operators and powers of two.
- Of `ConversionIsHonest` the part `EntriesAgree`, that all rows show the same quantity: fractions are reduced
  by a recursive function, and the factors are compared with products of long decimals.
- That sums, products and quotients are exact as numbers (`UnitsExact`, `OperationsExact`, `RoundedRight`,
  `LibrariesAgree`): sums over sequences and powers of ten, which are recursive functions. Of
  the product of decBasic.c the step that is hard is proved (`SplitIsAlwaysExact`).
- `IsLongDivision`, and everything about series and Newton's method (`LoopsExact`, `FloatsRight`).
- Liveness (`SaveEnds`, `LoopsEnd`): fairness and ENABLED are beyond the prover.

Several properties are conjunctions; each of their parts has a comment of its own.

## 6. What is not modelled

- **decNumber, the rest.** The encodings in declets and 128 bits (tables), payloads of NaNs and
  status flags, which the calculator never looks at; the operations of decNumber.c that nothing
  calls (remainder, minimum and maximum, logical operations, shifts); allocation of buffers.
  `decNumberLog10` divides two logarithms with at least ten working digits, which are beyond 32-bit
  integers; what it calls is modelled.
- **Rounding in conversions.** The quotient of two factors and its product with the number are rounded to 34
  digits each, and the window shows 10; in `Conversion` they are exact. Rounding itself is `DecArith`'s.
- **Menus, help and GTK helpers.** Construction of widgets and fixed text keep no state.
- **Constant generators.** Offline programs without state that print tables; what they printed is checked, as
  said above.
- **Drawing.** Fonts, colours and layout.
- **Two programs at once** on one settings file: nothing says what they promise each other.
