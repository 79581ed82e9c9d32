SPECIFICATION Spec
CONSTANTS
    NumLeads = 3
    Managers = {m1, m2}
    Chiefs = {m1}
    None = None
    MaxEvents = 5
INVARIANTS
    OneRoot
    TakenIsKept
    TakingToldOnce
    RowAddsUp
CHECK_DEADLOCK FALSE
