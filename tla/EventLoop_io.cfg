SPECIFICATION FairSpec
CONSTANTS
    TimerIds = {}
    Delays = {}
    MaxTime = 0
    IntMax = 127
    PoolWait = 1
    CheckIds = {}
    Fits32 = {}
    Handles = {h1, h2, h3}
    Unrefable = {h1}
    Items = {}
    Thread = main
    NULL = NULL
CHECK_DEADLOCK FALSE
INVARIANTS EventsReachTheirHandles
PROPERTIES ReadyHandlesServed
