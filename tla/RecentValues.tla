---------------------------- MODULE RecentValues ----------------------------
(***************************************************************************)
(* What a history promises: the last results that are not zero, newest     *)
(* first, at most Limit of them.                                           *)
(***************************************************************************)
EXTENDS Integers, Sequences

CONSTANTS Limit, Value, Zero

VARIABLES result, recent
vars == <<result, recent>>

AtMost(n, k) == IF n < k THEN n ELSE k

Record(v) ==
  /\ result' = v
  /\ recent' = IF v = Zero THEN recent
               ELSE SubSeq(<<v>> \o recent, 1, AtMost(Len(recent) + 1, Limit))

Init == result = Zero /\ recent = <<>>
Next == \E v \in Value : Record(v)
Spec == Init /\ [][Next]_vars
=============================================================================
