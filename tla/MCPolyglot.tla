----------------------------- MODULE MCPolyglot -----------------------------
(* Host h runs model m, two entries at once, and model n.  The baseline of  *)
(* m is a and b, and d, whose exercise z has no reference that passes; the  *)
(* exercise y is held out, and the confirmation of n's candidate is c.      *)
(* The workers find two solutions for a, one for c and none for b.          *)
EXTENDS Polyglot, TLC

CONSTANTS a, b, c, d, h, m, n, x, y, z, one, other

InOrder == <<a, b, d, c>>
ModelOfEntry == [e \in {a, b, c, d} |-> IF e = c THEN n ELSE m]
ProfileOfEntry == [e \in {a, b, c, d} |-> IF e = c THEN "candidate" ELSE "baseline"]
ExerciseOfEntry == (a :> x) @@ (b :> y) @@ (c :> y) @@ (d :> z)
ServedBy == (h :> {m, n})
SolutionsOfEntry == (a :> {one, other}) @@ (b :> {}) @@ (c :> {one}) @@ (d :> {})
Lanes == (m :> 2) @@ (n :> 1)
=============================================================================
