--------------------------- MODULE MCProductRepo ---------------------------
EXTENDS ProductRepo, TLC
CONSTANTS w1, w2, w3
MCAgeLimit == [f \in File |-> 1]
Symmetry == Permutations(Proc)
============================================================================
