SPECIFICATION Spec
CONSTANTS
    TimerIds = {1}
    Delays = {0}
    MaxTime = 0
    IntMax = 127
    PoolWait = 1
    CheckIds = {}
    Fits32 = {}
    Handles = {h1, h2}
    Unrefable = {h1}
    Items = {}
    Thread = main
    NULL = NULL
CHECK_DEADLOCK FALSE
INVARIANTS OwnEventsOnly
