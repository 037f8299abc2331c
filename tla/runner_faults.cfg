CONSTANTS
  m1 = m1
  p1 = p1
  Modules = {m1}
  PRCalls = {p1}
  PRModule <- OnePR
  Specs <- AutoOnly
  DefaultTypes = {"PollingRun"}
  Faults = {"api","terraform","redis","timeout","crash"}
  MaxCommit = 2
  MaxRequests = 0
  MaxStops = 1
  MaxRuns = 2
SPECIFICATION Spec
INVARIANTS TypeOK NoLeakedMark AppliedStatusIsTrue
PROPERTIES OnlyARunUnmarks NoStageAfterShutdown PRRunsLeaveNoTrace ApplyKeyFollowsLastRun
CHECK_DEADLOCK FALSE
