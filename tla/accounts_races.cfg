\* A school from before and a new one, two accounts, two handlers at a time.
SPECIFICATION Spec
CONSTANTS
    Emails = {e1, e2}
    Domains = {d1, d2}
    Requests = {r1, r2}
    None = None
    MaxSchools = 2
    MaxAccounts = 2
    MaxCodes = 2
    MaxUses = 1
    MaxWords = 1
    MaxOffers = 2
    MaxStarted = 3
    MaxFaults = 1
SYMMETRY Symmetry
INVARIANTS
    TypeOK
    AccountsWhole
    DeletedSchoolsEmpty
    LimitsHeld
    SchoolsWhole
CHECK_DEADLOCK FALSE
