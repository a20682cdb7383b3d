SPECIFICATION FairSpec
CONSTANTS
    t1 = t1
    t2 = t2
    Free = Free
    NoPost = NoPost
    NoSeq = NoSeq
    Tasks = {t1, t2}
    CheckIns = {t1}
    MaxItems = 2
    MaxSpool = 2
    LastReport = 3
    LastBoot = 2
    MaxMoves = 2
INVARIANTS
    DeliveryInv
PROPERTIES
    InOrderAndOnce
    NoSilentDiscard
    EveryReportSettles
CHECK_DEADLOCK FALSE
