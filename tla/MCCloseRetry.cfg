CONSTANTS
    ConfirmWithin = 2
    RetryAt <- MCRetryAt
    ThenEvery = 4
    AlertAt = 5
    GiveUp = 9
    PollEvery = 5
    Settle = 1
    Delay = 1
    NoClose = NoClose
    MaxClaims = 2
    MaxOpens = 1
    LastClaim = 3
    MaxTime = 17
SPECIFICATION FairSpec
INVARIANTS OnSchedule ToldInTime ReadAfterRung
PROPERTIES OneCloseInFlight EveryCloseEnds
CHECK_DEADLOCK FALSE
