SPECIFICATION FairSpec
CONSTANTS
  r1 = r1
  r2 = r2
  s1 = s1
  s2 = s2
  Reqs = {r1, r2}
  Sessions = {s1, s2}
  Serves <- ServesShared
  LiveKeys = {}
  InitMeta <- NewSessions
  MayTimeout = TRUE
  MaxTurns = 2
  MaxEvents = 0
  NoReq = NoReq
PROPERTY EveryRequestReturns
CHECK_DEADLOCK FALSE
