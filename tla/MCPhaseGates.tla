--------------------------- MODULE MCPhaseGates ---------------------------
EXTENDS PhaseGates, TLC
CONSTANTS p, q, i, j, k, l, f, g

Symmetry == Permutations(Procs) \cup Permutations(Ids) \cup Permutations(Features)
=============================================================================
