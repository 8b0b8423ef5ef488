SPECIFICATION Spec
CONSTANTS
  JobIds = {j1}
  Schedules <- EverySchedules
  Execs = {e1, e2}
  MaxConcurrent = 1
  KeepRuns = 2
  MaxTime = 2
  MaxManual = 1
  MaxUpdates = 0
  MaxCrashes = 1
  NoJob = NoJob
INVARIANT RunningIsExecuted
CHECK_DEADLOCK FALSE
