\* one output, one cited source, one other file
SPECIFICATION FairSpec
CONSTANTS
  None = None
  CutOff = CutOff
  first = first
  second = second
  Outputs = {1}
  Cited = {2}
  Others = {}
  Sessions = {first, second}
  WithConstitution = FALSE
  MaxEdits = 1
  MaxWrites = 2
  MaxStops = 1
INVARIANT EvidenceAgrees
INVARIANT RetainedOneMoment
INVARIANT StartedFromBundle
PROPERTY RetryPublishes
CHECK_DEADLOCK FALSE
