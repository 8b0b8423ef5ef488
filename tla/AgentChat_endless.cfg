SPECIFICATION ChatFairSpec
CONSTANTS
  Streams = {a1}
  Waits = {}
  ToolCalls <- TwoTools
  MaxBatch = 1
  MaxCalls = 4
  SameToolLimit = 4
  TimeWindow = 1
  NoTool = NoTool
PROPERTY EveryChatReturns
CHECK_DEADLOCK FALSE
