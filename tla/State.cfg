SPECIFICATION Spec
CONSTANTS
    NULL = NULL
    Garbage = Garbage
    Paths = {"/tmp/a", "/home/h", "/proc/x"}
    Workers = {"w1", "w2"}
    NFiles = 1
    NFds = 2
    FsCalls = {"read", "write", "append", "stat", "unlink", "mkdir", "rename", "copy", "openr", "openw", "opena", "fdread", "fdwrite", "fdclose"}
    MaxCalls = 2
    Stmts = {"s1", "s2"}
    MaxRows = 2
    Args = {"integer", "text", "boolean"}
CHECK_DEADLOCK FALSE
INVARIANTS HeapSound BlocksSound ParsesAsWritten RunsAsWritten LoadsSound LogSound FilesSound StatementsSound
PROPERTIES WrapsKept
