SPECIFICATION Spec
CONSTANTS
  Poller = "poller"
  Hooks = {"hook"}
  Drafts <- MCAny
  MayMerge = TRUE
  MaxChanges = 1
  MaxFailures = 0
INVARIANTS TypeOK OutputMatchesRequest NoPlanStorm
CHECK_DEADLOCK FALSE
