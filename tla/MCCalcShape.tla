---------------------------- MODULE MCCalcShape ----------------------------
(* CalcEngine with one value of each kind: the run explores every order of  *)
(* operations, brackets, switches and clears, and nothing else.             *)
EXTENDS CalcEngineClosed

MCMaskWidth(v, width)             == v
MCGetSigned(v, width)             == v
MCChangedWidth(v, negative, width) == width
MCIopUnary(cop, a, width, u)      == a
MCIopBinary(cop, a, b, width, u)  == a
MCFopUnary(cop, a)                == a
MCFopBinary(cop, a, b)            == a
MCIntToFloat(v, width, u)         == 0
MCIntMin(width)                   == 0
MCBestIntegers == {[ok |-> TRUE, uval |-> 0, negative |-> FALSE]}

(* States that later calls and the properties cannot tell apart. *)
LiveView == <<LiveState, shown>>
=============================================================================
