---------------------------- MODULE LongDivision ----------------------------
(***************************************************************************)
(* What decDivide promises of its loops: the quotient of two coefficients, *)
(* formed unit by unit from the highest, as it is done by hand.  It may go *)
(* on behind the last unit of the dividend, with zeros.                    *)
(***************************************************************************)
EXTENDS Integers

CONSTANTS
  DIVBASE,          \* base of a unit
  DIVOPLEN          \* units of an operand

VARIABLES
  dividend,         \* units of the left operand, lowest first
  divisor,          \* the right operand
  taken,            \* units of the dividend that are brought down, from the highest
  rest,             \* what is left of them
  quotient

vars == <<dividend, divisor, taken, rest, quotient>>

Unit(k) == IF k < DIVOPLEN THEN dividend[DIVOPLEN - 1 - k] ELSE 0

\* The number of the highest n units.
Leading(n) ==
  LET f[k \in 0..DIVOPLEN] == IF k = 0 THEN 0 ELSE f[k - 1] * DIVBASE + Unit(k - 1)
  IN f[n]

\* Units that make less than the divisor give no digit.
Init ==
  /\ quotient = 0
  /\ taken \in 0..DIVOPLEN
  /\ rest = Leading(taken)
  /\ rest < divisor

\* The next unit is brought down.
FormUnit ==
  LET part == rest * DIVBASE + Unit(taken)
  IN /\ taken' = taken + 1
     /\ rest' = part % divisor
     /\ quotient' = quotient * DIVBASE + part \div divisor
     /\ UNCHANGED <<dividend, divisor>>

Spec == Init /\ [][FormUnit]_vars
=============================================================================
