SPECIFICATION FairSpec
CONSTANTS
  Poller = "poller"
  Hooks = {}
  Drafts <- MCDraft
  MayMerge = FALSE
  MaxChanges = 2
  MaxFailures = 0
PROPERTIES CommentIsAnswered
CHECK_DEADLOCK FALSE
