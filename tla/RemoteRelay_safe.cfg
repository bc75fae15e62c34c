SPECIFICATION Spec
CONSTANTS
    Credits = 2
    QueueNum = 2
    Width = 3
    MaxCalls = 4
    MaxSessions = 2
    MaxCmds = 1
    MaxEvts = 2
INVARIANT TypeOK
INVARIANT CreditsConserved
INVARIANT RelayWakeup
INVARIANT PendingAnswered
INVARIANT IdleTimerArmed
INVARIANT ActionFitsState
INVARIANT DisabledWakes
PROPERTY ImplementsRelayLink
