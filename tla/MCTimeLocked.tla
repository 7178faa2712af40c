---------------------------- MODULE MCTimeLocked ----------------------------
(* Small instances of the time-locked contracts for TLC.                   *)
EXTENDS TimeLocked

MinusOne == -1
SomeAmounts == {-1, 1}
SomeTotals == {0, 3}
=============================================================================
