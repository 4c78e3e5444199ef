-------------------------- MODULE MCTaskLifecycle --------------------------
EXTENDS TaskLifecycle

CONSTANTS p, d, z, spec, notes, f, h

Shape(deps, allow, cites) ==
  [deps |-> deps, allow |-> allow, brief |-> spec, inputs |-> {}, protect |-> {}, cites |-> cites]

ChainProject == [x \in Files |-> "v0"]

=============================================================================
