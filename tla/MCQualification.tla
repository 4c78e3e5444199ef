-------------------------- MODULE MCQualification --------------------------
EXTENDS Qualification, MCQualificationScore, TLC
CONSTANTS p, q

(* One run that passed qualifies at 20 %, two are needed at 30 %.          *)
MCTargets == {20, 30}
\* An older record that qualifies at 20 % and not at 30 %.
MCAggregates == {[n |-> 1, passes |-> 1]}
Symmetry == Permutations(Procs)
=============================================================================
