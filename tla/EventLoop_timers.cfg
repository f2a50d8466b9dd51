SPECIFICATION FairSpec
CONSTANTS
    TimerIds = {1, 2, 3}
    Delays = {0, 1, 2}
    MaxTime = 2
    IntMax = 127
    PoolWait = 1
    CheckIds = {1, 2}
    Fits32 = {2}
    Handles = {}
    Unrefable = {}
    Items = {i1}
    Thread = main
    NULL = NULL
CHECK_DEADLOCK FALSE
INVARIANTS ExitsOnlyWhenIdle ClearedNeverRuns
PROPERTIES TimersInExpiryOrder NoExpiredTimerSkipped EverythingScheduledRuns
