SPECIFICATION FairSpec
CONSTANTS
    NumBoxes = 1
    first = first
    second = second
    spam = spam
    anna = anna
    Letters <- MCLetters
    Senders <- MCSenders
    Sender <- MCSender
    Named <- MCNamed
    Broken <- MCBroken
    Replies <- MCReplies
    NumRuns = 2
    FetchLimit = 2
    Tries = 2
    Posts <- MCPosts
    MaxLetters = 2
    MaxMishaps = 1
INVARIANTS
    TypeOK
    NoLetterLost
    NamelessStoredOnce
    RunsApart
PROPERTIES
    ImplementsMailLedger
    MailArrives
CHECK_DEADLOCK FALSE
