\* One account of each kind, two requests, two notifications, a failure.
SPECIFICATION ResetsSpec
CONSTANTS
    here = here
    there = there
    Tenants = {here, there}
    NoContext = NoContext
    SuperAdmin = SuperAdmin
    None = None
    Accounts <- SomeUsers
    Workers = {r1, r2}
    MaxNotes = 2
    MaxResets = 2
    MaxStarted = 3
    MaxFaults = 1
SYMMETRY Symmetry
INVARIANTS
    ResetsTypeOK
    ShownExplained
    RefusalsExplained
    RequestsHandled
CHECK_DEADLOCK FALSE
