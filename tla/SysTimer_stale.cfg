SPECIFICATION Spec
CONSTANTS
  a = a
  b = b
  Timers = {a, b}
  Periods = {1, 3}
  Reload = {}
  MinPeriod = 2
  QueueLen = 2
  MaxCalls = 4
  MaxTime = 3
  NONE = NONE
  CallInCallback = FALSE
  CallMeetsFiring = TRUE
  MaxRefused = 0
  SameTick = FALSE
INVARIANT FirstItemExpired
