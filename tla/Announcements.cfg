SPECIFICATION FairSpec
CONSTANTS
    NumChannels = 2
    Repeating = {1}
    MaxAttempts = 2
    Callers = {c1, c2}
    Editors = {e1}
    AnnounceOnPublish = TRUE
    MaxRetries = 1
    MaxSaves = 1
    MaxForced = 1
    MaxMishaps = 1
INVARIANTS
    OneAnnouncement
    SentTold
PROPERTIES
    ReturnsSettled
    PublicationSettles
CHECK_DEADLOCK FALSE
