SPECIFICATION Spec
CONSTANTS
    Managers = {m1}
    Nobody = Nobody
    Workers = {w1}
    MaxTurns = 1
    MaxRetries = 0
    ReplyWindow = 1
    BusyDelay = 1
    TakeoverDelay = 2
    ResumeAfter = 2
    CloseAfter = 2
    Horizon = 2
    PromptWorkers = TRUE
    Operations = {}
    MaxInbound = 2
    MaxContinues = 0
    MaxReplies = 1
    MaxNotes = 1
    MaxReassigns = 1
    MaxSweeps = 0
    MaxLost = 0
INVARIANT HandoffWatched
PROPERTIES
    WatchdogSparesManager
    ImplementsDialogLog
