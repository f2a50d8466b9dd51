SPECIFICATION Spec
CONSTANTS
    Main = Main
    Coros = {c1, c2}
    Ext = {e1}
    MaxHandlers = 3
    NULL = NULL
INVARIANTS CoroutineErrorsContained
CHECK_DEADLOCK FALSE
