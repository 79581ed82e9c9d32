SPECIFICATION Spec
CONSTANTS
    Deliveries = {d1, d2}
    Operators = {o1}
    NoId = NoId
    MaxRetries = 1
    MaxRequests = 1
    MaxDeaths = 1
    MaxLost = 1
    MaxDoubts = 1
SYMMETRY Interchangeable
CHECK_DEADLOCK FALSE
INVARIANTS
    QueuedIsCarried
    OneCopy
    SendingIsHeld
