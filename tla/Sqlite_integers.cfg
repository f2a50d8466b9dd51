SPECIFICATION Spec
CONSTANTS
    Stmts = {s1, s2}
    MaxRows = 2
    Args = {"integer", "text", "boolean"}
CHECK_DEADLOCK FALSE
INVARIANTS ParametersStored
