CONSTANTS
    HandoverLead = 1
    TimerMargin = 1
    Idle = Idle
    NoOpen = NoOpen
    Readings <- MCReadings
    Opens <- MCOpens
    Profiles <- MCProfiles
    MaxDay = 1
    MaxTime = 3
    MaxCounted = 3
SPECIFICATION Spec
INVARIANTS RuntimeInv LedgerIsTheDay
PROPERTY ReopenOnlyOnTime
