\* The intervals keep the order of the real ones: 30 s is one unit, so that the real
\* heartbeat comes every 10 units inside and 2 outside, its retries after 1 and then 2, and the
\* cloud waits for 20.
SPECIFICATION WatchSpec
CONSTANTS
    BeatInside = 3
    BeatOutside = 1
    RetryMax = 2
    CheckinAnchor = 6
    CheckinZone = 7
    CheckinIdle = 8
    CheckinRetry = 2
    CheckinRetryMax = 4
    LostAfter = 8
    PostLimit = 1
    MaxLosses = 1
    MaxSig = 1
CHECK_DEADLOCK FALSE
 
PROPERTY WatchConverges
