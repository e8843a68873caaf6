\* The fifth failure in a row asks for 16, which 5 bits do not hold.
CONSTANTS
  Enabled = TRUE
  Base = 1
  MaxInterval = 8
  Num = 2
  Den = 1
  Width = 5
  MaxFailures = 6
SPECIFICATION Spec
INVARIANT IntervalIsATime
CHECK_DEADLOCK FALSE
