CONSTANTS
  m1 = m1
  p1 = p1
  Modules = {m1}
  PRCalls = {p1}
  PRModule <- OnePR
  Specs <- AutoOnly
  DefaultTypes = {}
  Faults = {"timeout"}
  MaxCommit = 1
  MaxRequests = 0
  MaxStops = 0
  MaxRuns = 1
SPECIFICATION Spec
INVARIANT FinishedRunIsStored
CHECK_DEADLOCK FALSE
