CONSTANTS
  a = a
  b = b
  None = None
  Slices = {a, b}
  Policies <- Switched
  Edited = {a}
  MaxEvents = 7
  MaxSwitchedEvents = 4
  MaxOrphans = 2
  MaxRuns = 3
  MaxApprovals = 2
SPECIFICATION ReviewSpec
INVARIANT HistoryReadable
INVARIANT BudgetHeld
INVARIANT DispatchUndisturbed
INVARIANT IntentPublishable
PROPERTY AppliedVetted
PROPERTY PublishedOnceCommitted
CHECK_DEADLOCK FALSE
