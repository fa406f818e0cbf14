\* One account with two devices, one handler at a time.
SPECIFICATION Spec
CONSTANTS
    Users = {u1}
    Students = {}
    Requests = {r1}
    TokenId = {t1, t2, t3}
    MaxPassword = 0
    MaxVersion = 0
    Events = {}
SYMMETRY Symmetry
INVARIANTS
    RotatesPresentedToken
CHECK_DEADLOCK FALSE
