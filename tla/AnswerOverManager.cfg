SPECIFICATION Spec
CONSTANTS
    Managers = {m1}
    Nobody = Nobody
    Workers = {w1}
    MaxTurns = 1
    MaxRetries = 0
    ReplyWindow = 1
    BusyDelay = 1
    TakeoverDelay = 2
    ResumeAfter = 3
    CloseAfter = 3
    Horizon = 3
    PromptWorkers = TRUE
    Operations = {}
    MaxInbound = 2
    MaxContinues = 0
    MaxReplies = 2
    MaxNotes = 0
    MaxReassigns = 0
    MaxSweeps = 1
    MaxLost = 0
INVARIANT NoAnswerOverManager
