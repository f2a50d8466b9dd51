SPECIFICATION AnySpec
CONSTANTS
    NULL = NULL
    Threads = {"t1", "t2", "t3"}
    Addrs = {1, 2, 3}
    Nodes = 2
    MaxVal = 1
    ToWorker = {"m1", "m2"}
    ToMain = {"r1", "r2"}
    MaxPosts = 3
    PipeCap = 1
    Ticks = {"t1", "t2"}
    Micros = {"m1", "m2"}
    Sync = {"t1", "m1"}
    MaxTicks = 1
    MaxCalls = 2
    MaxNested = 2
    Works = {1, 2}
    MaxUses = 2
    Pool = {"p1", "p2"}
    Capacity = 2
    MaxIndex = 2
CHECK_DEADLOCK FALSE
INVARIANTS CoroutinesSound TurnsDrain WaitersSound WorkerSound PortsInOrder AddonSound
PROPERTIES SyncTicksFirst NothingAfterTerminate EveryoneProceeds
