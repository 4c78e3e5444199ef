-------------------------- MODULE MCInstallation --------------------------
EXTENDS Installation, TLC
CONSTANTS p, q, r, v, w

Symmetry == Permutations(Procs) \cup Permutations(Versions)
=============================================================================
