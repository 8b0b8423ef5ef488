SPECIFICATION Spec
CONSTANTS
  Procs = {p1, p2}
  Sessions = {s1}
  DefaultSession = s1
  Ops = {"maybeCompact", "runCompact", "runResetSession", "ResetSession"}
  KeepMessages = 1
  Window = 2
  ResetWindow = 9
  MaxBodies = 2
  MaxIds = 3
  MaxCrashes = 1
  MaxSqlErrors = 1
  MaxFaults = 1
  ArchiveMayFail = FALSE
  NoProc = NoProc
SYMMETRY Symmetry
INVARIANTS TypeOK WatermarkSound
PROPERTIES ClearKeepsWhatWasRead ClearKeepsWhatExisted
CHECK_DEADLOCK FALSE
