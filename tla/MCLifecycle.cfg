\* The values of the chart in units of 5 s; a poll takes up to ten.
CONSTANTS
  Enabled = TRUE
  Base = 6
  MaxInterval = 60
  Num = 2
  Den = 1
  Width = 16
  MaxFailures = 6
  InitialDelay = 6
  Period = 6
  Threshold = 3
  Grace = 6
  MinPoll = 1
  MaxPoll = 10
  Short = 2
  MaxOutages = 2
SPECIFICATION LifeFair
INVARIANTS
  LifeTypeOK
  BackoffCutShort
PROPERTIES
  KilledAfterTwoFailures
  Recovery
