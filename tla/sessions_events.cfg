\* One account, two handlers at a time, two token pairs, with every event.
SPECIFICATION Spec
CONSTANTS
    Users = {u1}
    Students = {u1}
    Requests = {r1, r2}
    TokenId = {t1, t2}
    MaxPassword = 2
    MaxVersion = 1
    Events = {"fail", "expire", "switch"}
SYMMETRY Symmetry
INVARIANTS
    LogoutAllRevokes
    NoSessionFork
    OldSessionsExplained
PROPERTIES
    RefusedForever
    ImplementsRegistry
CHECK_DEADLOCK FALSE
