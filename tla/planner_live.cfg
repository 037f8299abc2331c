SPECIFICATION FairSpec
CONSTANTS
  Poller = "poller"
  Hooks = {}
  Drafts <- MCOpen
  MayMerge = TRUE
  MaxChanges = 1
  MaxFailures = 1
PROPERTIES CommentIsSeen LatestCommitIsPlanned StoredPlanIsReported ApplyIsReported
CHECK_DEADLOCK FALSE
