SPECIFICATION LiveSpec
CONSTANTS
  NoTime = NoTime
  Minute = 2
  MinutesPerHour = 2
  HoursPerDay = 2
  Date <- MCDate
  MonthDays = 3
  Months = 3
  MaxSearchDays = 9
  Expressions <- MCExpressions
  Instants <- MCInstants
  Starts <- MCStarts
  Ends <- MCEnds
  Count = 3
INVARIANTS SearchExact PreviewInWindow
PROPERTY SearchEnds
CHECK_DEADLOCK FALSE
