----------------------------- MODULE MCCardWork -----------------------------
EXTENDS CardWork, TLC
CONSTANTS e1, e2
Symmetry == Permutations(Edit)
==============================================================================
