CONSTANTS
    HandoverLead = 1
    TimerMargin = 1
    Idle = Idle
    NoOpen = NoOpen
    Poller = poller
    Pushes = {p1}
    Apps = {a1}
    Alarms = {f1}
    NoClose = NoClose
    NoReading = NoReading
    NoCause = NoCause
    TheProfile <- MCBriefProfile
    Opens <- MCBriefOpens
    MaxTime = 1
    MaxVolume = 1
    MaxClaims = 2
    MaxAttempts = 2
    MaxUpsets = 1
SPECIFICATION Spec
INVARIANT ValveHubInv
PROPERTY ConfirmedMeansShut
CHECK_DEADLOCK FALSE
