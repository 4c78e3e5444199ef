CONSTANTS
  p = p
  d = d
  z = z
  spec = spec
  notes = notes
  f = f
  h = h
  None = None
  Absent = "absent"
  Tasks = {p, d, z}
  Files = {spec, notes, f, h}
  Contents = {"absent", "v0", "v1"}
  Shapes <- AllShapes
  EvidenceFiles = {notes}
  ExtraPaths <- ExtraFiles
  Editable = {f, h}
  InitialProject <- ChainProject
  MaxClock = 6
  MaxRuns = 2
  MaxLineage = 32
SPECIFICATION TaskSpec
INVARIANT AcceptedCoversApplied
INVARIANT GraphsSound
PROPERTY AcceptanceSurvives
PROPERTY AcceptanceNeedsReview
PROPERTY AppliedUnderCurrentInputs
PROPERTY ApplyCostsOnlyTouched
CHECK_DEADLOCK FALSE
