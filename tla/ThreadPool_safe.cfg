SPECIFICATION Spec
CONSTANTS
    Workers = {w1, w2}
    Items = {i1, i2, i3}
    Stuck = {}
    Loops = {main, web}
    MainLoop = main
    PipeCap = 1
    MayFree = TRUE
    NULL = NULL
CHECK_DEADLOCK FALSE
SYMMETRY PoolSymmetry
INVARIANTS ItemsInOnePlace PendingCountsInFlight NoStrandedCompletion MarkMissesOnlyFinished MainExitsDrained FreeRunsQueuedWork
PROPERTIES ImplementsAsyncOps
