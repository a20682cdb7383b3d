SPECIFICATION FairSpec
CONSTANTS
    SilenceLimit = 2
    CallLimit = 1
    WriteLimit = 1
    ConnectLimit = 1
    MaxAttempt = 1
    Cadences = {1, 3}
    Misses = 2

    
PROPERTIES
    
    Reconnects
CHECK_DEADLOCK FALSE
