\* three exercises, the third without a reference that passes
SPECIFICATION PolyglotFairSpec
CONSTANTS
  a = a
  b = b
  c = c
  d = d
  h = h
  m = m
  n = n
  x = x
  y = y
  z = z
  one = one
  other = other
  Absent = Absent
  Order <- InOrder
  ModelOf <- ModelOfEntry
  ProfileOf <- ProfileOfEntry
  ExerciseOf <- ExerciseOfEntry
  Exercises = {x, y, z}
  Holdout = {y}
  StubPasses = {}
  ReferencePasses = {x, y}
  Hosts = {h}
  Served <- ServedBy
  Parallel <- Lanes
  Contents = {one, other}
  SolutionsOf <- SolutionsOfEntry
  HarnessRetries = 1
  MaxConsecutiveSkips = 2
  MaxStops = 1
INVARIANT RecordedOnce
INVARIANT ShownAsRecorded
PROPERTY QueueFinishes
CHECK_DEADLOCK FALSE
