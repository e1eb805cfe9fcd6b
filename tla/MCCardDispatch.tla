--------------------------- MODULE MCCardDispatch ---------------------------
(* The instances of CardDispatch that TLC checks: one card, or two that are  *)
(* interchangeable.                                                          *)
EXTENDS CardDispatch, TLC

CONSTANTS c1, c2

Symmetry == Permutations({c1, c2})
=============================================================================
