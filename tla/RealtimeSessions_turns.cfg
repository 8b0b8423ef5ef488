SPECIFICATION FairSpec
CONSTANTS
  r1 = r1
  r2 = r2
  s1 = s1
  s2 = s2
  Reqs = {r1, r2}
  Sessions = {s1, s2}
  Serves <- ServesShared
  LiveKeys = {}
  InitMeta <- NewAndUsedSessions
  MayTimeout = TRUE
  MaxTurns = 2
  MaxEvents = 2
  NoReq = NoReq
INVARIANTS TypeOK OneConnPerSession AnswerIsOwn
PROPERTIES OnlyNestedWaitBlocks IdleSessionsClosed
CHECK_DEADLOCK FALSE
