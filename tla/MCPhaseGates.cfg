SPECIFICATION Spec
CONSTANTS
  p = p
  q = q
  i = i
  j = j
  k = k
  l = l
  f = f
  g = g
  Features = {f, g}
  Ids = {i, j, k, l}
  Procs = {p, q}
  None = None
  MaxEdits = 1
  MaxRecords = 3
  MaxStarts = 4
  MaxFaults = 1
SYMMETRY Symmetry
INVARIANT LedgerReadable
INVARIANT PlanNeedsResearch
CHECK_DEADLOCK FALSE
