\* One student, three handlers at a time, up to three attempts.
SPECIFICATION Spec
CONSTANTS
    Students = {s1}
    Requests = {r1, r2, r3}
    Limits = {0, 1, Unlimited}
    Unlimited = Unlimited
    RetakeFeature = TRUE
    MaxAttempts = 3
    MaxEdits = 2
    Events = {"fail", "delete"}
SYMMETRY Symmetry
INVARIANTS
    AttemptsBounded
    CloseShutsRetakes
    SpentGrantsConsumed
CHECK_DEADLOCK FALSE
