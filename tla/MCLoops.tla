------------------------------- MODULE MCLoops -------------------------------
(***************************************************************************)
(* The functions of the two libraries that work in a loop, each run on its *)
(* own for many operands: part says which.  The product of chunks is the   *)
(* module this one extends; the long division, the square root, the power, *)
(* the exponential and the logarithm are instances of theirs, with numbers *)
(* of one to three digits.  The loops share the variables that have the    *)
(* same name in their modules; a variable a part does not use is unused.   *)
(***************************************************************************)
EXTENDS ChunkProduct

CONSTANTS Chunks, MostChunks

VARIABLES
  part,
  dfl, div, acc, quo, msua, lsua, lsuq, quodigits, pc,      \* of the division
  rhs, phase, a, result,                                    \* of the others
  f, exp, p,                                                \* of the square root
  lhs, x, dac, overflow,                                    \* of the power
  round, t, d,                                              \* of the exponential
  n, i, seenbit,                                            \* of both
  pp, iterations                                            \* of the logarithm

divideVars == <<dfl, div, acc, quo, msua, lsua, lsuq, quodigits, pc>>
mathVars   == <<rhs, phase, a, result, f, exp, p, lhs, x, dac, overflow, round, t, d,
                n, i, seenbit, pp, iterations>>

unused == "unused"

MCNumbers == UNION {[1..length -> Chunks] : length \in 1..MostChunks}

-----------------------------------------------------------------------------
(* The instances.  The units of the division have two digits.  The powers   *)
(* are of numbers of one digit, with words of six bits, and an exponent's   *)
(* logarithm that is right in its sign only.  The exponential has two       *)
(* digits and the guard digits of the code on numbers below one, and one    *)
(* digit with powers of ten and the lever.                                  *)

Divide == INSTANCE DecDivide WITH
  DIVBASE <- 100, UnitDigits <- 2, DIVOPLEN <- 3, DECPMAX <- 5, DIVLO <- 10,
  DivHop <- 32, DivEst <- 1024, DIVMAGIC <- 327, WORD <- 1024,
  Units <- {0, 1, 24, 50, 99}, HighUnits <- {0, 1, 9}

Numbers(signs, coeffs, exps) == [kind : {"finite"}, neg : signs, coeff : coeffs, exp : exps]
Specials == [kind : {"inf"}, neg : BOOLEAN, coeff : {0}, exp : {0}]
            \cup [kind : {"qnan"}, neg : {FALSE}, coeff : {0}, exp : {0}]

Root == INSTANCE SquareRoot WITH
  DECPMAX <- 3, DECEMAX <- 6, DECEMAXD <- 1, BufferDigits <- 3, UnitDigits <- 1, INT32_MAX <- 25,
  PlaceDigits <- 1, IntHalf <- 2097152, IntDigits <- 7, IntLeast <- 1999997, IntMost <- 999999,
  MinWork <- 4, WideExponent <- 1000,
  Operands <- Numbers({FALSE}, 1..999, {-8, -3, 0, 3}) \cup Numbers(BOOLEAN, {0, 4}, {-8, -7, 3})
              \cup Numbers({FALSE}, {4, 90}, {12, 13, 14}) \cup Specials

PositiveOne == [kind |-> "finite", neg |-> FALSE, coeff |-> 1, exp |-> 0]
MCLn(y, digits) ==
  LET one == 10^(IF y.exp < 0 THEN -y.exp ELSE 0)
      c   == y.coeff * 10^(IF y.exp > 0 THEN y.exp ELSE 0)
  IN [PositiveOne EXCEPT !.neg = c < one, !.coeff = IF c = one THEN 0 ELSE 5, !.exp = -1]
MCExp(y, digits) ==
  IF y.coeff = 0 THEN PositiveOne
  ELSE IF y.neg THEN [PositiveOne EXCEPT !.coeff = 5, !.exp = -1]
  ELSE [PositiveOne EXCEPT !.coeff = 2]

Raise == INSTANCE Power WITH
  DECPMAX <- 1, DECEMAX <- 6, DECEMAXD <- 1, BufferDigits <- 1, UnitDigits <- 1, INT32_MAX <- 25,
  PlaceDigits <- 1, IntHalf <- 2097152, IntDigits <- 7, IntLeast <- 1999997, IntMost <- 999999,
  NBits <- 6, Ln <- MCLn, Exp <- MCExp,
  Pairs <- (Numbers(BOOLEAN, 1..9, {-3, -1, 0, 2}) \X Numbers(BOOLEAN, 1..7, {0}))
           \cup (Numbers(BOOLEAN, {1, 2, 3}, {-1, 0, 1}) \X Numbers(BOOLEAN, {1}, {1}))
           \cup (Numbers(BOOLEAN, {0, 1, 2}, {-1, 0, 1}) \X Numbers(BOOLEAN, {0, 1, 2, 3, 5}, {-1, 0, 7, 8}))
           \cup ((Numbers(BOOLEAN, {0, 1, 2}, {-1, 0}) \cup Specials) \X Specials)
           \cup (Specials \X Numbers(BOOLEAN, {0, 1, 2, 5}, {-1, 0, 8}))

HalfEven(operands) == [x : operands, round : {"half_even"}]
Series == INSTANCE Exponential WITH
  DECPMAX <- 2, DECEMAX <- 3, DECEMAXD <- 1, BufferDigits <- 2, UnitDigits <- 1, INT32_MAX <- 25,
  PlaceDigits <- 1, IntHalf <- 2097152, IntDigits <- 7, IntLeast <- 1999997, IntMost <- 999999,
  MostTens <- 8, LeverDigits <- 8, SeriesGuard <- 2, PowerGuard <- 2, DivisorDigits <- 2,
  WideExponent <- 60, NBits <- 6,
  Calls <- HalfEven(Numbers(BOOLEAN, 1..99, {-3, -2}) \cup Numbers(BOOLEAN, {0, 4, 5}, {-7, -1}) \cup Specials)
Tens == INSTANCE Exponential WITH
  DECPMAX <- 1, DECEMAX <- 2, DECEMAXD <- 1, BufferDigits <- 1, UnitDigits <- 1, INT32_MAX <- 25,
  PlaceDigits <- 1, IntHalf <- 2097152, IntDigits <- 7, IntLeast <- 1999997, IntMost <- 999999,
  MostTens <- 1, LeverDigits <- 0, SeriesGuard <- 0, PowerGuard <- 2, DivisorDigits <- 2,
  WideExponent <- 60, NBits <- 6,
  Calls <- HalfEven(Numbers(BOOLEAN, 1..9, {-3, -2, -1}) \cup Numbers(BOOLEAN, 1..7, {0})
                 \cup Numbers(BOOLEAN, {1, 5, 9}, {1, 2}))

Log == INSTANCE Logarithm WITH
  DECPMAX <- 3, DECEMAX <- 4, DECEMAXD <- 1, BufferDigits <- 3, UnitDigits <- 1, INT32_MAX <- 25,
  PlaceDigits <- 1, IntHalf <- 2097152, IntDigits <- 7, IntLeast <- 1999997, IntMost <- 999999,
  LeastDigits <- 1, FirstPrecision <- 3, EstimateDigits <- 9, WideExponent <- 60,
  Operands <- Numbers({FALSE}, 1..99, {-5, -2, -1, 0, 2}) \cup Numbers(BOOLEAN, {0, 4}, {-2, 0}) \cup Specials

-----------------------------------------------------------------------------
(* The runs of the loops                                                    *)

Parts == {"chunks", "divide", "root", "power", "series", "tens", "log"}
Exps  == {"series", "tens"}

\* A product of chunks that is not begun, of one by one.
ChunksIdle == Init /\ zlhi = <<1>> /\ zrhi = <<1>>
DivideUnused ==
  /\ dfl = unused /\ div = unused /\ acc = unused /\ quo = unused /\ msua = unused
  /\ lsua = unused /\ lsuq = unused /\ quodigits = unused /\ pc = unused
RootUnused  == f = unused /\ exp = unused /\ p = unused
PowerUnused == lhs = unused /\ x = unused /\ dac = unused /\ overflow = unused
ExpUnused   == round = unused /\ t = unused /\ d = unused
BitsUnused  == n = unused /\ i = unused /\ seenbit = unused
LogUnused   == pp = unused /\ iterations = unused

LoopsInit ==
  /\ part \in Parts
  /\ IF part = "chunks" THEN Init ELSE ChunksIdle
  /\ IF part = "divide" THEN Divide!Init ELSE DivideUnused
  /\ CASE part = "root"   -> Root!Init
       [] part = "power"  -> Raise!Init /\ a = unused
       [] part = "series" -> Series!Init
       [] part = "tens"   -> Tens!Init
       [] part = "log"    -> Log!Init
       [] OTHER -> rhs = unused /\ phase = unused /\ a = unused /\ result = unused
  /\ IF part = "root" THEN TRUE ELSE RootUnused
  /\ IF part = "power" THEN TRUE ELSE PowerUnused
  /\ IF part \in Exps THEN TRUE ELSE ExpUnused
  /\ IF part \in Exps \cup {"power"} THEN TRUE ELSE BitsUnused
  /\ IF part = "log" THEN TRUE ELSE LogUnused

DivideStep == part = "divide" /\ Divide!Next /\ UNCHANGED <<part, vars, mathVars>>
RootStep ==
  /\ part = "root" /\ Root!Next
  /\ UNCHANGED <<part, vars, divideVars, lhs, x, dac, overflow, round, t, d, n, i, seenbit, pp, iterations>>
PowerStep ==
  /\ part = "power" /\ Raise!Next
  /\ UNCHANGED <<part, vars, divideVars, a, f, exp, p, round, t, d, pp, iterations>>
ExpStep ==
  /\ \/ part = "series" /\ Series!Next
     \/ part = "tens" /\ Tens!Next
  /\ UNCHANGED <<part, vars, divideVars, f, exp, p, lhs, x, dac, overflow, pp, iterations>>
LogStep ==
  /\ part = "log" /\ Log!Next
  /\ UNCHANGED <<part, vars, divideVars, f, exp, p, lhs, x, dac, overflow, round, t, d, n, i, seenbit>>

LoopsNext ==
  \/ part = "chunks" /\ Next /\ UNCHANGED <<part, divideVars, mathVars>>
  \/ DivideStep \/ RootStep \/ PowerStep \/ ExpStep \/ LogStep

\* Each is one function call: nothing else runs, and it is not suspended.
LoopsVars == <<part, vars, divideVars, mathVars>>
RootAdvances == part = "root" /\ Root!Advance
LoopsSpec ==
  /\ LoopsInit /\ [][LoopsNext]_LoopsVars
  /\ WF_LoopsVars(DivideStep) /\ WF_<<phase, p>>(RootAdvances)

-----------------------------------------------------------------------------
(* The properties of the parts                                              *)

\* Every step of decDivide is a step of a division by hand, or none of it: a trial
\* multiple never exceeds what is held, neither array is left at its low end, and the
\* loops end with nothing left or with digits enough to round.
IsLongDivision ==
  /\ part = "divide" => Divide!ByHand!Init
  /\ [][part = "divide" => [Divide!ByHand!FormUnit]_(Divide!ByHand!vars)]_divideVars
  /\ [](part = "divide" => Divide!NeverTooMuch /\ Divide!WithinArrays /\ Divide!EnoughDigits)

\* The loops of decDivide end, since at least one multiple is subtracted each time; and so
\* does that of decNumberSquareRoot, since its precision grows.
LoopsEnd ==
  /\ part = "divide" => <>(pc = "done")
  /\ part = "root" => <>(phase = "done")

\* The product of chunks is exact after every row, inside its array, and ends as chunks
\* (decMultiplyOp).
ProductOfChunks == AccumulatorExact /\ InsideAccumulator /\ EndsAsChunks

\* The root is within a unit before its correction and then the exact one rounded to the
\* nearest number, with half the exponent of its square if it is exact
\* (decNumberSquareRoot).
RootIsRight == part = "root" => Root!WithinOneUlp /\ Root!CorrectlyRounded /\ Root!IdealExponent

\* The accumulator of decNumberPower is the power of the bits taken so far; an integer
\* power is within one unit of the last place, and negative for an odd power of a
\* negative number only.
PowerIsRight == part = "power" => Raise!TakenSoFar /\ Raise!PowerRounded /\ Raise!SignOfPower

\* No exponential is off by more than a tenth of its last place from where rounding
\* to the nearest would take it (decExpOp), with the guard digits of the code and
\* with powers of ten; and the series ends before its terms outgrow the working digits,
\* though its loop has no bound of its own.
ExponentialIsRight ==
  /\ part = "series" => Series!AlmostRounded /\ Series!SeriesIsShort
  /\ part = "tens"   => Tens!AlmostRounded

\* The logarithm is within a tenth of its last place of the one rounded to the
\* nearest number, an exact zero for 1 with whatever zeros, and found in a few turns
\* (decLnOp).
LogarithmIsRight ==
  part = "log" => Log!AlmostRounded /\ Log!OneGivesZero /\ Log!FewIterations

\* The working digits of the sum of the exponential hold every term that is added:
\* nothing is rounded until the end (the comment on tiny operands in decExpOp).
SumsExact ==
  [][(part = "series" => Series!AddsExactly) /\ (part = "tens" => Tens!AddsExactly)]_a

\* What the loops give is right, in the middle and in the end.
LoopsExact ==
  /\ [](ProductOfChunks /\ RootIsRight /\ PowerIsRight /\ ExponentialIsRight /\ LogarithmIsRight)
  /\ SumsExact
=============================================================================
