SPECIFICATION FairSpec
CONSTANTS
  Countdown = {a, b}
  MaxDelay = 2
  ClockPeriod = 4
  Horizon = 3
  CountLimit = 2
INVARIANT TypeOK
INVARIANT OneLiveEntry
INVARIANT TimerCoversQueue
PROPERTY KeepsContract
PROPERTY EveryEndComes
CHECK_DEADLOCK FALSE
