SPECIFICATION FairSpec
CONSTANTS
  JobIds = {j1}
  Schedules <- MixedSchedules
  Execs = {e1, e2, e3}
  MaxConcurrent = 2
  KeepRuns = 1
  MaxTime = 3
  MaxManual = 1
  MaxUpdates = 1
  MaxCrashes = 1
  NoJob = NoJob
INVARIANTS TypeOK Durable OneShotOnce LoopNeverOverlaps OnlyStaleNotExecuted
PROPERTY DueJobsRun
CHECK_DEADLOCK FALSE
