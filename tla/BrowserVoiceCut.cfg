CONSTANTS
    Push = FALSE
    Hyper = FALSE
    Prompt = TRUE
    Fluent = FALSE
    Onset = 1
    Barge = 2
    Parts = 2
    MaxTurns = 1
    MaxUtterances = 1
    MaxDrops = 0
    MaxWire = 1
SPECIFICATION Spec
CHECK_DEADLOCK FALSE
INVARIANT CutIsFinal
