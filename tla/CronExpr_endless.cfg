SPECIFICATION ExprFairSpec
CONSTANTS
  MonthStart <- TwoYears
  MaxDay = 4
  MonthsPerYear = 3
  WeekLength = 3
  HoursPerDay = 2
  MinutesPerHour = 2
  Expressions <- NoSuchDay
  Starts = {0}
PROPERTY SearchEnds
CHECK_DEADLOCK FALSE
