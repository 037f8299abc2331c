CONSTANTS
  m1 = m1
  p1 = p1
  Modules = {m1}
  PRCalls = {}
  PRModule <- NoPRs
  Specs <- AutoOrLocked
  DefaultTypes = {"PollingRun","ForcedApply"}
  Faults = {"terraform","timeout","crash"}
  MaxCommit = 1
  MaxRequests = 2
  MaxStops = 1
  MaxRuns = 2
SPECIFICATION FairSpec
INVARIANT ApplyIsIntended
PROPERTIES RunsAreReported EveryRunEnds RunningIsRepaired NewerRequestSurvives
CHECK_DEADLOCK FALSE
