SPECIFICATION Spec
CONSTANTS
  a = a
  b = b
  s = s
  t = t
  p = p
  q = q
  Changes = {a, b}
  Specs = {s, t}
  Procs = {p, q}
  None = None
  MaxEdits = 2
  MaxReviews = 2
  MaxEvents = 2
  MaxImports = 1
  MaxStarts = 5
  MaxCrashes = 1
  Touches <- MCTouches
SYMMETRY Symmetry
INVARIANT AcceptedTogether
INVARIANT PublishedMerged
PROPERTY ReportComplete
PROPERTY PublishedUnderAcceptance
CHECK_DEADLOCK FALSE
