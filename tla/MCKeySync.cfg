SPECIFICATION KeyFairSpec
CONSTANTS
    NoSig = NoSig
    NoReason = NoReason
    NotModified = NotModified
    LastSet = 1
    Workers <- MCWorkers
    MaxReplies = 1
    MaxPushes = 1
    MaxKnocks = 1
    MaxRestarts = 1

    
PROPERTY KeysSettle
CHECK_DEADLOCK FALSE
