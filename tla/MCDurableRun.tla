--------------------------- MODULE MCDurableRun ---------------------------
EXTENDS DurableRun, TLC

Symmetry == Permutations(Runs)
=============================================================================
