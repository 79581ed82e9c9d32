SPECIFICATION FairSpec
CONSTANTS
    Deliveries = {d1, d2}
    Operators = {o1}
    NoId = NoId
    MaxRetries = 1
    MaxRequests = 0
    MaxDeaths = 1
    MaxLost = 1
    MaxDoubts = 1
CHECK_DEADLOCK FALSE
PROPERTIES
    QueuedSettles
