SPECIFICATION Spec
CONSTANTS
    c1 = c1
    c2 = c2
    Clients = {c1, c2}
    Controller = FALSE
    MaxTokens <- TwoAndOne
INVARIANTS WaitersAreReachable NoOrphans FinishedIsComplete
PROPERTY EveryStreamEnds
CHECK_DEADLOCK FALSE
