SPECIFICATION FairSpec
CONSTANTS
    Staff = {s1, s2}
    Tabs = {t1, t2}
    None = None
    MaxRequests = 2
    MaxAnswers = 2
    MaxMishaps = 1
INVARIANTS
    AgreedOnce
    OneLiveOrder
    IssueAddsUp
PROPERTIES
    IssuedFirst
    IssueClosesLead
CHECK_DEADLOCK FALSE
