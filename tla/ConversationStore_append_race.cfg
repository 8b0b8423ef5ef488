SPECIFICATION Spec
CONSTANTS
  Procs = {p1}
  Sessions = {s1}
  DefaultSession = s1
  Ops = {"maybeCompact"}
  KeepMessages = 1
  Window = 5
  ResetWindow = 5
  MaxBodies = 3
  MaxIds = 3
  MaxCrashes = 0
  MaxSqlErrors = 0
  MaxFaults = 0
  ArchiveMayFail = FALSE
  NoProc = NoProc
INVARIANT Recoverable
CHECK_DEADLOCK FALSE
