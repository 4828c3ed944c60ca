-------------------------- MODULE CalcEngineClosed --------------------------
(* The engine with operations that stay within their kind of value, as the  *)
(* C types of the code ensure; what TypeOK and its proof rest on.           *)
EXTENDS CalcEngine

ASSUME OperationsClosed ==
  /\ \A v \in IVal, w \in Width :
       MaskWidth(v, w) \in IVal /\ GetSigned(v, w) \in IVal
  /\ \A v \in IVal, negative \in BOOLEAN, w \in Width :
       ChangedWidth(v, negative, w) \in Width
  /\ \A w \in Width : IntMin(w) \in IVal
  /\ \A v \in IVal, w \in Width, u \in BOOLEAN : IntToFloat(v, w, u) \in FVal
  /\ \A cop \in IntUnaryOps, a \in IVal, w \in Width, u \in BOOLEAN :
       IopUnary(cop, a, w, u) \in IVal
  /\ \A cop \in BinaryOps, a, b \in IVal, w \in Width, u \in BOOLEAN :
       HasIop(cop) => IopBinary(cop, a, b, w, u) \in IVal
  /\ \A cop \in FloatUnaryOps, a \in FVal : FopUnary(cop, a) \in FVal
  /\ \A cop \in BinaryOps, a, b \in FVal : HasFop(cop) => FopBinary(cop, a, b) \in FVal

\* Functions of the integer mode give a value masked to the width when their first
\* argument is (calc_integer.c:31-34); the second may be an operand that [=] repeats,
\* which is not.  A width a mode switch picks is never narrower than the current one.
ASSUME OperationsMasked ==
  /\ \A w \in Width : MaskWidth(IZero, w) = IZero
  /\ \A v \in IVal, w \in Width : MaskWidth(MaskWidth(v, w), w) = MaskWidth(v, w)
  /\ \A cop \in IntUnaryOps, a \in IVal, w \in Width, u \in BOOLEAN :
       MaskWidth(a, w) = a => MaskWidth(IopUnary(cop, a, w, u), w) = IopUnary(cop, a, w, u)
  /\ \A cop \in BinaryOps, a, b \in IVal, w \in Width, u \in BOOLEAN :
       HasIop(cop) /\ MaskWidth(a, w) = a =>
         MaskWidth(IopBinary(cop, a, b, w, u), w) = IopBinary(cop, a, b, w, u)
  /\ \A v \in IVal, best \in BestIntegers, w \in Width :
       MaskWidth(v, w) = v => MaskWidth(v, ChangedWidth(best.uval, best.negative, w)) = v
=============================================================================
