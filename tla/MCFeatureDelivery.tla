------------------------- MODULE MCFeatureDelivery -------------------------
(* Two changes that share a living specification.                          *)
EXTENDS FeatureDelivery, MCUsageReport
CONSTANTS a, b, s, t, p, q

MCTouches == (a :> {s, t}) @@ (b :> {t})
Symmetry == Permutations(Procs)
=============================================================================
