SPECIFICATION MCSpec
CONSTANTS
  a = a
  b = b
  c = c
  d = d
  f = f
  g = g
  first = first
  revision = revision
  start = start
  Procs = {a, b, c, d}
  Files = {f, g}
  Runs = {first, revision}
  Run <- MCRun
  Before <- MCBefore
  After <- MCAfter
  Initial <- MCInitial
  Edited = edited
  None = None
INVARIANT ReportedStaysSaved
INVARIANT CandidatesAccounted
INVARIANT LockReleased
PROPERTY EditsBeforePlanStay
PROPERTY AllOrNothing
CHECK_DEADLOCK FALSE
