SPECIFICATION Spec
CONSTANTS
  p = p
  q = q
  Procs = {p, q}
  None = None
  Targets <- MCTargets
  Aggregates <- MCAggregates
  MaxEdits = 1
  MaxRuns = 2
  MaxStarts = 2
  MaxFaults = 1
SYMMETRY Symmetry
INVARIANT StoreAccepts
INVARIANT QualifiedOnEvidence
PROPERTY EvidenceStays
CHECK_DEADLOCK FALSE
