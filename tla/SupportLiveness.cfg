SPECIFICATION FairSpec
CONSTANTS
    Managers = {m1}
    Nobody = Nobody
    Workers = {w1}
    MaxTurns = 1
    MaxRetries = 1
    ReplyWindow = 1
    BusyDelay = 1
    TakeoverDelay = 2
    ResumeAfter = 2
    CloseAfter = 2
    Horizon = 2
    PromptWorkers = TRUE
    Operations = {"take", "close"}
    MaxInbound = 1
    MaxContinues = 0
    MaxReplies = 1
    MaxNotes = 0
    MaxReassigns = 0
    MaxSweeps = 1
    MaxLost = 0
PROPERTIES
    BotAnswersEventually
    HandoffTakenBack
