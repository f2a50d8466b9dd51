SPECIFICATION Spec
CONSTANTS
    Programs <- LoopPrograms
    MaxRegs = 60
    MaxSteps = 400
CHECK_DEADLOCK FALSE
INVARIANTS BreaksLeave
