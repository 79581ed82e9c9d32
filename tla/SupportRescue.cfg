SPECIFICATION FairSpec
CONSTANTS
    Managers = {m1}
    Nobody = Nobody
    Workers = {w1}
    MaxTurns = 1
    MaxRetries = 1
    ReplyWindow = 1
    BusyDelay = 1
    TakeoverDelay = 2
    ResumeAfter = 2
    CloseAfter = 2
    Horizon = 2
    PromptWorkers = TRUE
    Operations = {"email", "return", "read", "page"}
    MaxInbound = 2
    MaxContinues = 0
    MaxReplies = 0
    MaxNotes = 0
    MaxReassigns = 0
    MaxSweeps = 1
    MaxLost = 1
PROPERTIES
    BusyFollowupRescued
    TasksRunOut
