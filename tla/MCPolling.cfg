\* The interval grows 4, 6, 9, 10: the cap is reached, and no machine integer
\* overflows.
CONSTANTS
  Enabled = TRUE
  Base = 4
  MaxInterval = 10
  Num = 3
  Den = 2
  Width = 16
  MaxFailures = 6
SPECIFICATION FairSpec
INVARIANT TypeOK
PROPERTIES
  FailuresNeverSpeedUp
  EarlyOnlyAfterALongPoll
  SignalEndsPolling
\* Start returns, and then nothing happens.
CHECK_DEADLOCK FALSE
