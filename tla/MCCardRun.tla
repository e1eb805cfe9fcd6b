----------------------------- MODULE MCCardRun -----------------------------
(* The instance of CardRun that TLC checks: one root cause for every finding,   *)
(* so that "the cause of before again" is always possible, and small budgets.   *)
EXTENDS CardRun, TLC

CONSTANT c1
=============================================================================
