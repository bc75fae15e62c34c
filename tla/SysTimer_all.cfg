SPECIFICATION FairSpec
CONSTANTS
  a = a
  b = b
  Timers = {a, b}
  Periods = {1, 2}
  Reload = {a}
  MinPeriod = 2
  QueueLen = 2
  MaxCalls = 3
  MaxTime = 2
  NONE = NONE
  CallInCallback = TRUE
  CallMeetsFiring = TRUE
  MaxRefused = 1
  SameTick = TRUE
INVARIANT TypeOK
INVARIANT Armed
INVARIANT NeverLate
PROPERTY EveryTimerRuns
