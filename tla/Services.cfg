SPECIFICATION ServicesSpec
CONSTANTS
  Sessions = {s1}
  ToolCallers = {c1}
  RetryLimits = {1}
  MaxSpawn = 3
  MaxConfigs = 1
  RetryCap = 2
  NoSession = NoSession
  MaxUpdates = 2
  QueueCap = 1
  BotWorkers = {w1, w2}
  MaxRestarts = 1
  Checkers = {k1, k2}
  QuotaLimits = {0, 1, 2}
  Hour = 1
  MaxClock = 4
  MaxSets = 3
  NoRow = NoRow
  Commands = {o1, o2}
  OneByOne = TRUE
  Pids = {1, 2}
  StartOrder <- TwoServices
  StopOrder <- TwoServices
  Optional = {"embedding"}
  Storers = {m1, m2}
  Rebuilders = {g1}
  MaxMemories = 2
  MaxChanges = 2
  MaxReopens = 1
  NoFile = NoFile
  Streams = {a1}
  Waits = {a2}
  ToolCalls <- TwoTools
  MaxBatch = 1
  MaxCalls = 4
  SameToolLimit = 4
  TimeWindow = 1
  NoTool = NoTool
  MonthStart <- TwoYears
  MaxDay = 4
  MonthsPerYear = 3
  WeekLength = 3
  HoursPerDay = 2
  MinutesPerHour = 2
  Expressions <- SomeExpressions
  Starts = {0, 3, 9, 17, 23, 40, 58, 83}
  Conns = {n1, n2, n3}
  IPs = {i1, i2, NoAddress}
  NoAddress = NoAddress
  MaxWSConns = 2
  IPLimit = 1
  WSChats = {h1, h2}
  MaxChunks = 1
  SendRoom = 1
INVARIANTS
  ServicesTypeOK
  OneLiveProcess RetriesBounded
  ForgottenWasSeen AnsweredOncePerLife
  QuotaKept ResetsBounded
  Tracked
  LabelsMatchUndisturbed 
  RowOfOneToolBounded TurnStoredOnce
  ReturnsFirstMatch
  SlotsAccounted LimitsHold
  DoneMatchesChunks
PROPERTIES
  KilledStaysGone CrashedIsRetried
  EveryTextHandled ImplementsIntake
  WaitingChatReturns WindowReleases
  DeadPeerIsDropped
CHECK_DEADLOCK FALSE
