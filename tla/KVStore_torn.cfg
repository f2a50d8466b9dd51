SPECIFICATION Spec
CONSTANTS
    Keys = {a, b}
    Spaced = {}
    Values = {1, 2}
    InPieces = TRUE
    MaxWrites = 2
    MaxCompacts = 0
    NULL = NULL
    Garbage = Garbage
INVARIANTS AcknowledgedSurvives
