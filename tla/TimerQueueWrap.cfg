SPECIFICATION FairSpec
CONSTANTS
  Countdown = {a}
  MaxDelay = 1
  ClockPeriod = 3
  Horizon = 5
  CountLimit = 1
PROPERTY EveryEndComes
CHECK_DEADLOCK FALSE
