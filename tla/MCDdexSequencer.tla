--------------------------- MODULE MCDdexSequencer ---------------------------
EXTENDS DdexSequencer, TLC

CONSTANTS a1, a2, wl1, i1, i2, e1, b1, b2, b3

Symmetry == Permutations(Accounts) \cup Permutations(Hashes) \cup Permutations(Implementations)
=============================================================================
