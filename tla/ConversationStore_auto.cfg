SPECIFICATION FairSpec
CONSTANTS
  Procs = {p1, p2}
  Sessions = {s1}
  DefaultSession = s1
  Ops = {"maybeCompact", "ResetSession"}
  KeepMessages = 1
  Window = 4
  ResetWindow = 4
  MaxBodies = 4
  MaxIds = 7
  MaxCrashes = 1
  MaxSqlErrors = 0
  MaxFaults = 1
  ArchiveMayFail = FALSE
  NoProc = NoProc
INVARIANT ArchivedOnce
PROPERTY CompactMuReleased
CHECK_DEADLOCK FALSE
