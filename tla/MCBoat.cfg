SPECIFICATION BoatSpec
CONSTANTS
    Places = {0, 2, 4, 7}
    Accuracies = {0, 1}
    Anchor = 2
    Warn = 1
    Zone = 3
    AnchorStreak = 2
    ZoneStreak = 3
    EnterStreak = 2
    EnterMove = 4
    ExitNet = 2
    ExitAfter = 3
    Deadband = 4
    SendEvery = 2
    MaxGap = 2
    MaxSig = 2
    Viewers = {v1}
    RetryFirst = 5
    RetryCap = 15
    MaxFailures = 3
    MaxSamples = 2
    MaxChanges = 2
    MaxPieces = 8
    ReadMost = 3
    Room = 6
    Targets = {t1, t2, t3}
    LanKinds <- MCKinds
    FastConnect = 2
    SlowConnect = 3
    ReadWindow = 4
    SweepDeadline = 8
    TableLimit = 1
    Deadline = 17
    UdpWindow = 12
    SweepWidth = 1
    RetryWidth = 1
    Makes = {"cradlepoint", "peplink", "starlink"}
    WanEntries <- MCWanEntries
    Kilobyte = 2
    MaxWans = 2
    MaxUse = 2
    MaxUpsets = 1
    MaxSpool = 1
CHECK_DEADLOCK FALSE
INVARIANTS GeofenceInv FeedInv NmeaInv SearchInv 
 
