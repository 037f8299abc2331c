SPECIFICATION FairSpec
CONSTANTS
  Handlers = {"h1"}
  Reconciler = "reconciler"
  Specs <- MCSpecs
  ForceTypes <- MCForceTypes
  OtherTypes <- MCOtherTypes
  MaxTries = 2
  MaxRequests = 2
  MaxClock = 1
  MaxLag = 1
  MaxEvents = 1
  MaxFailures = 1
INVARIANTS TypeOK QueuedRequestWasWritten
PROPERTIES ImplementsSlot SecondRunMeansStaleRead RequestIsServed
CHECK_DEADLOCK FALSE
