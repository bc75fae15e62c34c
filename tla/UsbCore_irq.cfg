SPECIFICATION Spec
CONSTANTS
    QueueLen = 4
    EventsPerIrq = 2
    MaxHw = 2
    MaxPosts = 2
    RestartWhileBusy = FALSE
    SlowIrq = TRUE
    ExitMayFail = FALSE
INVARIANT PendingCounts
INVARIANT MaskedWhilePending
INVARIANT SetupIntact
INVARIANT NotDeaf
