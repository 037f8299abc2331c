SPECIFICATION FairSpec
CONSTANTS
  Schedules <- MCSchedules
  Cycle = 4
  PollInterval = 2
  MinInterval = 2
  CreatedAt = 2
  MaxCommit = 2
  MaxTime = 5
  MaxEvents = 1
  MaxFailures = 1
INVARIANTS TypeOK RestIsNotDue
PROPERTIES ScheduledRunIsDue CommitIsRun ScheduleIsMet StaleRunningIsRepaired
CHECK_DEADLOCK FALSE
