SPECIFICATION Spec
CONSTANTS
    Reqs = {1, 2}
    Sockets = {"u", "v"}
    MaxSends = 2
    Buffer = 2
    Clients = {"s"}
    Accepted = {"s"}
    MaxHandles = 9
    SocketBytes = 3
    Room = 1
    Bytes = 8
    PipeCap = 3
    ReadMax = 1
CHECK_DEADLOCK FALSE
INVARIANTS SocketsKeepBytes FramesInOrder RequestsCalledBackOnce PipelineWhole
PROPERTIES DatagramsOnce EveryoneServed
