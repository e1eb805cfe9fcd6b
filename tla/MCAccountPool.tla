---------------------------- MODULE MCAccountPool ----------------------------
EXTENDS AccountPool, TLC
CONSTANTS w1, w2
MCAccount == {1, 2}
MCFile == MCAccount \cup {StateLock}
MCAgeLimit == [f \in MCFile |-> IF f = StateLock THEN 0 ELSE 1]
Symmetry == Permutations(Proc)
==============================================================================
