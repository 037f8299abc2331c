CONSTANTS
  m1 = m1
  p1 = p1
  Modules = {m1}
  PRCalls = {p1}
  PRModule <- OnePR
  Specs <- AutoOnly
  DefaultTypes = {"PollingRun"}
  Faults = {}
  MaxCommit = 1
  MaxRequests = 0
  MaxStops = 0
  MaxRuns = 2
SPECIFICATION Spec
INVARIANT OneRunPerModule
CHECK_DEADLOCK FALSE
