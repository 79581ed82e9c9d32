SPECIFICATION FairSpec
CONSTANTS
    Handlers = {h1, h2}
    MaxRows = 2
    MaxRetries = 1
    MaxTries = 1
    MaxAttempts = 2
    MaxUnheard = 2
    MaxArrivals = 2
    MaxLosses = 1
    MaxKept = 1
CHECK_DEADLOCK FALSE
INVARIANTS
    NotForgotten
    HandledOnce
    DoneIsTakenUp
    SeenOnce
    ToldIsUnderway
PROPERTIES
    UpdateSettles
