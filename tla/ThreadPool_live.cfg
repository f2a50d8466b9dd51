SPECIFICATION FairSpec
CONSTANTS
    Workers = {w1, w2}
    Items = {i1, i2, i3, i4}
    Stuck = {i1}
    Loops = {main}
    MainLoop = main
    PipeCap = 1
    MayFree = TRUE
    NULL = NULL
CHECK_DEADLOCK FALSE
PROPERTIES WorkCompletes FreeReturns
