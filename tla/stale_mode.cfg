CONSTANTS
  m1 = m1
  p1 = p1
  Modules = {m1}
  PRCalls = {}
  PRModule <- NoPRs
  Specs <- AutoOrLocked
  DefaultTypes = {"PollingRun"}
  Faults = {}
  MaxCommit = 1
  MaxRequests = 0
  MaxStops = 0
  MaxRuns = 1
SPECIFICATION Spec
INVARIANT LockedModuleIsReadOnly
CHECK_DEADLOCK FALSE
