SPECIFICATION FairSpec
CONSTANTS
    u1 = u1
    u2 = u2
    c1 = c1
    None = None
    NoTrial = NoTrial
    NoCommand = NoCommand
    LastVersion = 3
    Bad = {2}
    Updaters = {u1}
    Commands = {c1}
    MaxCrashes = 1
    MaxSlow = 1

    
PROPERTIES
    UndoneStaysOut
    UpdatesSettle
CHECK_DEADLOCK FALSE
