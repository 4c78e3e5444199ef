SPECIFICATION LaunchSpec
CONSTANTS
  Outputs = {f}
  Requests = {q1, q2}
  Operators = {o1}
  Checks = {c1, c2}
  MaxToolCalls = 2
  MaxCheckRuns = 1
  MaxRequests = 1
  MaxWrites = 1
CHECK_DEADLOCK FALSE
INVARIANT CandidateSettled
PROPERTY LaunchEnds
