SPECIFICATION Spec
CONSTANTS
  p = p
  q = q
  r = r
  v = v
  w = w
  Procs = {p, q, r}
  Versions = {v, w}
  NumFiles = 3
  None = None
  MaxStarts = 4
  MaxFaults = 2
SYMMETRY Symmetry
INVARIANT InstallationKept
INVARIANT SetupInstalls
CHECK_DEADLOCK FALSE
