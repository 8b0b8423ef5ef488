SPECIFICATION Spec
CONSTANTS
  Procs = {p1, p2}
  Sessions = {s1}
  DefaultSession = s1
  Ops = {"runCompact", "maybeCompact"}
  KeepMessages = 1
  Window = 5
  ResetWindow = 5
  MaxBodies = 2
  MaxIds = 5
  MaxCrashes = 0
  MaxSqlErrors = 0
  MaxFaults = 0
  ArchiveMayFail = FALSE
  NoProc = NoProc
INVARIANT ArchivedOnce
CHECK_DEADLOCK FALSE
